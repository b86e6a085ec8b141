------------------------------ MODULE MCRecovery ------------------------------
(* Values of Recovery's constants for the model checker.                    *)
EXTENDS Recovery

CONSTANTS
    s1, s2,                 \* signatory keys
    Outputs, Value, Fee     \* bounds: lists of outputs, their values, and fees

(* s1 alone is more than two thirds of the power of both; s2 signs late.    *)
MCPower == (s1 :> 5) @@ (s2 :> 2)

(* A recovery transaction has one output; deduct_fee is for any number.     *)
ASSUME DeductFeeAssumption ==
    \A outputs \in BoundedSeq(0..Value, Outputs) \ {<<>>}, fee \in 1..Fee :
        LargestSetPays(outputs, fee)
=============================================================================
