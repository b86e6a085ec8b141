-------------------------------- MODULE Payout --------------------------------
(***************************************************************************)
(* What becomes of a credited deposit at the end of a block: its fees, the  *)
(* messages its destination asks for, and what the token factory and the    *)
(* entry point of the swaps make of the messages.                           *)
(*                                                                         *)
(* A configuration holds what the end block reads of Config and of          *)
(* TOKEN_FEE_RATIO; a ratio is <<nominator, denominator>>, or <<>> as long  *)
(* as none was saved.  A destination is a record: kind, receiver, sender,   *)
(* port ("transfer" or another) and timeout, of which an address has only   *)
(* the receiver.                                                            *)
(***************************************************************************)
EXTENDS Integers, Sequences, Functions

CONSTANTS
    Unit,       \* the fractions a Decimal counts (10^18 in the code)
    MinMint     \* external: the smallest amount the token factory mints

ASSUME PayoutAssumption == Unit \in Nat \ {0} /\ MinMint \in {0, 1}

-----------------------------------------------------------------------------
(* deduct_fee: the ratio as a Decimal, rounded down, times the amount,      *)
(* rounded down.                                                            *)
DeductFee(ratio, amount) ==
    IF ratio = <<>> \/ ratio[2] = 0 THEN 0
    ELSE (amount * ((ratio[1] * Unit) \div ratio[2])) \div Unit

(* deduct_token_fee subtracts it, and fails when that is more than there is.*)
FeeFits(config, amount) == DeductFee(config.ratio, amount) <= amount

(* deduct_relayer_fee: the fee in its own token, or what the router says it *)
(* is worth, 0 if it says nothing.                                          *)
RelayerFee(config, quote) ==
    CASE config.relayerFee = 0 \/ ~config.router -> 0
      [] config.relayerFee > 0 /\ config.router /\ config.sameToken -> config.relayerFee
      [] config.relayerFee > 0 /\ config.router /\ ~config.sameToken -> quote

(* process_deduct_fee: neither fee takes more than what is left.            *)
MutantFees(config, quote, amount) ==
    LET token   == DeductFee(config.ratio, amount)
        rest    == amount - token
        relayer == RelayerFee(config, quote)
    IN  IF rest = 0 THEN [deducted |-> 0, token |-> amount, relayer |-> 0]
        ELSE [deducted |-> IF relayer <= rest THEN rest - relayer ELSE 0,
              token    |-> token,
              relayer  |-> relayer]

Fees(config, quote, amount) ==
    LET token   == DeductFee(config.ratio, amount)
        rest    == amount - token
        relayer == RelayerFee(config, quote)
    IN  IF rest = 0 THEN [deducted |-> 0, token |-> amount, relayer |-> 0]
        ELSE [deducted |-> IF relayer <= rest THEN rest - relayer ELSE 0,
              token    |-> token,
              relayer  |-> IF relayer < rest THEN relayer ELSE rest]

-----------------------------------------------------------------------------
Contract == "contract"  \* the contract's own account
Swapper == "swapper"    \* osor_entry_point_contract

Mint(to, amount) == [kind |-> "mint", to |-> to, amount |-> amount]
Swap(amount)     == [kind |-> "swap", to |-> Swapper, amount |-> amount]

(* build_cosmos_msg.  A transfer by IBC goes to its sender when it is late  *)
(* or there is nobody to make it, and nowhere when its port is another one. *)
Returned(config, dest, now) == ~config.osor \/ dest.timeout < now

DestMessages(config, dest, amount, now) ==
    CASE dest.kind = "Address" -> <<Mint(dest.receiver, amount)>>
      [] dest.kind = "Ibc" /\ Returned(config, dest, now) -> <<Mint(dest.sender, amount)>>
      [] dest.kind = "Ibc" /\ ~Returned(config, dest, now) /\ dest.port # "transfer" -> <<>>
      [] dest.kind = "Ibc" /\ ~Returned(config, dest, now) /\ dest.port = "transfer" ->
           <<Mint(Contract, amount), Swap(amount)>>

(* clock_end_block: the messages for one transfer, in order.                *)
MutantFeeMessages(fees) ==
    <<Mint("relayer fees", fees.relayer), Mint("token fees", fees.token)>>

FeeMessages(fees) ==
    (IF fees.relayer > 0 THEN <<Mint("relayer fees", fees.relayer)>> ELSE <<>>)
    \o (IF fees.token > 0 THEN <<Mint("token fees", fees.token)>> ELSE <<>>)

Messages(config, quote, dest, amount, now) ==
    LET fees == Fees(config, quote, amount)
    IN  DestMessages(config, dest, fees.deducted, now) \o FeeMessages(fees)

-----------------------------------------------------------------------------
(* External: the token factory mints what it administers, the swapper takes *)
(* what the contract has, that is what was minted to it for the transfer.   *)
(* A message that fails takes the block with it.                            *)
Mints(messages) == {k \in DOMAIN messages : messages[k].kind = "mint"}
Swaps(messages) == {k \in DOMAIN messages : messages[k].kind = "swap"}

Succeed(messages, administers) ==
    /\ \A k \in Mints(messages) : administers /\ messages[k].amount >= MinMint
    /\ \A k \in Swaps(messages) :
         \E j \in 1 .. (k - 1) : messages[j] = Mint(Contract, messages[k].amount)

MintedBy(message) == IF message.kind = "mint" THEN message.amount ELSE 0

Minted(messages) == SumFunction([k \in DOMAIN messages |-> MintedBy(messages[k])])

(* What is left with the contract.                                          *)
HeldBy(message) ==
    CASE message.kind = "swap" -> 0 - message.amount
      [] message.kind = "mint" /\ message.to = Contract -> message.amount
      [] message.kind = "mint" /\ message.to # Contract -> 0

Held(messages) == SumFunction([k \in DOMAIN messages |-> HeldBy(messages[k])])
=============================================================================
