------------------------------- MODULE MCBridge -------------------------------
(* Values of Bridge's constants for the model checker.                      *)
EXTENDS CircuitBreaker

CONSTANTS s1, s2    \* signers

(* s1 alone is more than two thirds of the voting power; s2 may over-sign.  *)
MCPower == (s1 :> 6) @@ (s2 :> 2)

MCDepositValue     == [d \in Deposits |-> 40]
MCLargeDeposit     == [d \in Deposits |-> 200]
MCWithdrawalAmount == [w \in Withdrawals |-> 15]

(* Deposits are alike, and so are withdrawals: in value, and in that nothing *)
(* chooses among them.  Used by runs without liveness properties.           *)
Symmetry == Permutations(Deposits) \cup Permutations(Withdrawals)
=============================================================================
