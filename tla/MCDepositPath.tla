----------------------------- MODULE MCDepositPath ----------------------------
(* Values of DepositPath's constants for the model checker.                 *)
EXTENDS DepositPath, TLC

CONSTANTS d1, d2

MCCreateTime == (0 :> 0) @@ (1 :> 1)

(* The second is less than the relayer fee after the fee of spending it.    *)
MCValue == (d1 :> 20) @@ (d2 :> 6)

Address == [kind |-> "Address", receiver |-> "alice", sender |-> "alice",
            port |-> "", timeout |-> 0]
Ibc     == [kind |-> "Ibc", receiver |-> "remote", sender |-> "bob",
            port |-> "transfer", timeout |-> 2]
OtherPort == [Ibc EXCEPT !.port = "other"]

MCRoutes ==
    {(d1 :> <<Address, 0>>) @@ (d2 :> <<Ibc, 1>>),
     (d1 :> <<Ibc, 0>>) @@ (d2 :> <<OtherPort, 0>>)}

(* No fees; fees in the token itself; a ratio above one; a router asked for *)
(* the relayer fee, and another factory.                                    *)
MCConfigs ==
    LET free  == [ratio |-> <<>>, relayerFee |-> 0, router |-> FALSE, sameToken |-> TRUE,
                  factory |-> "f1", osor |-> TRUE]
        fees  == [free EXCEPT !.ratio = <<1, 3>>, !.relayerFee = 4, !.router = TRUE]
        wrong == [fees EXCEPT !.ratio = <<3, 2>>]
        other == [fees EXCEPT !.sameToken = FALSE, !.factory = "f2"]
    IN  {free, fees, wrong, other, [free EXCEPT !.osor = FALSE]}
=============================================================================
