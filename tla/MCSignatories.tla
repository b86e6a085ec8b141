----------------------------- MODULE MCSignatories ----------------------------
(* Values of Signatories' constants for the model checker.                  *)
EXTENDS Signatories

(* Addresses, consensus keys and signatory keys are interchangeable: no     *)
(* definition chooses among them.                                           *)
Symmetry == Permutations(ConsKeys) \cup Permutations(Addrs) \cup Permutations(Keys)

(* The default of sigset_threshold.                                         *)
TwoThirds == <<2, 3>>
=============================================================================
