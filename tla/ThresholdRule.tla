----------------------------- MODULE ThresholdRule ----------------------------
(***************************************************************************)
(* When a transaction is signed, said over the set of signatories who have  *)
(* signed it.  The contract keeps counters instead; module                  *)
(* CheckpointSigning implements this rule with them (SigningSpec).          *)
(***************************************************************************)
EXTENDS Integers, FiniteSets, FiniteSetsExt, Functions

CONSTANT Power      \* voting power of each signatory key

TotalPower(S) == SumFunction([s \in S |-> Power[s]])

(* ThresholdSig: strictly more than two thirds (rounded down) of the voting *)
(* power of an input's signatories must have signed.                        *)
SignatureThreshold(signatories) == (TotalPower(signatories) * 2) \div 3

InputSigned(input, sigs) ==
    TotalPower(input.signatories \cap sigs) > SignatureThreshold(input.signatories)

TxSigned(inputs, sigs) == \A k \in DOMAIN inputs : InputSigned(inputs[k], sigs)

(* needs_sig, over the inputs of the transaction.                           *)
NeedsSig(inputs, sigs, s) ==
    s \notin sigs /\ \E k \in DOMAIN inputs : s \in inputs[k].signatories
=============================================================================
