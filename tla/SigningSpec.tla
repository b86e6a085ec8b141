----------------------------- MODULE SigningSpec ------------------------------
(***************************************************************************)
(* What signing a frozen checkpoint promises, over the set of signatories   *)
(* who have signed: each signs the whole transaction in one step; the       *)
(* checkpoint completes in the step that brings every input over its        *)
(* threshold, and keeps the height of that step for ever.  This is how      *)
(* module Bridge sees signing.                                              *)
(***************************************************************************)
EXTENDS ThresholdRule

CONSTANTS Signers, Heights

VARIABLES
    inputs,     \* the frozen inputs, each with its signatories
    sigs,       \* the signatories who have signed
    status,
    signedAt    \* the heights recorded: none or one

vars == <<inputs, sigs, status, signedAt>>

Init ==
    /\ \A k \in DOMAIN inputs : inputs[k].signatories \subseteq Signers
    /\ sigs = {}
    /\ status = "Signing"
    /\ signedAt = {}

Sign(s, height) ==
    /\ NeedsSig(inputs, sigs, s)
    /\ sigs' = sigs \cup {s}
    /\ IF TxSigned(inputs, sigs') /\ ~TxSigned(inputs, sigs)
       THEN status' = "Complete" /\ signedAt' = {height}
       ELSE UNCHANGED <<status, signedAt>>
    /\ UNCHANGED inputs

Next == \E s \in Signers, height \in Heights : Sign(s, height)

Spec == Init /\ [][Next]_vars
=============================================================================
