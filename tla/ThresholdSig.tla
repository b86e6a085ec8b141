----------------------------- MODULE ThresholdSig -----------------------------
(***************************************************************************)
(* The signing state of one input as the contract stores it: the threshold  *)
(* fixed when the input is made, the power that has signed so far, and one  *)
(* share per signatory.  A share's signature is reduced to whether it is    *)
(* there; which signatures verify is up to the caller.                      *)
(***************************************************************************)
EXTENDS ThresholdRule

(* from_sigset, and from_shares for an input carried over unsigned.         *)
FromSigset(signatories) ==
    [threshold |-> SignatureThreshold(signatories),
     signed    |-> 0,
     sigs      |-> [s \in signatories |-> FALSE]]

Signed(ts) == ts.signed > ts.threshold

ShareNeeded(ts, s) == s \in DOMAIN ts.sigs /\ ~ts.sigs[s]

(* sign, after its two checks: the share is missing and the signature       *)
(* verifies against the message of the input.                               *)
AddShare(ts, s) == [ts EXCEPT !.sigs[s] = TRUE, !.signed = @ + Power[s]]

(* sigs: whose signatures are there.                                        *)
SignedBy(ts) == {s \in DOMAIN ts.sigs : ts.sigs[s]}
=============================================================================
