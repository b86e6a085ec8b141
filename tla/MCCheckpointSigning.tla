-------------------------- MODULE MCCheckpointSigning -------------------------
(* Values of Spending's constants for the model checker.                    *)
EXTENDS Spending

CONSTANTS s1, s2, s3, s4    \* signatory keys

(* Two of equal power; some sets have a member who is enough alone; the     *)
(* totals are within the precision of the script and one and two bits over, *)
(* and one of them fills it.                                                *)
MCPower == (s1 :> 42) @@ (s2 :> 21) @@ (s3 :> 21) @@ (s4 :> 2)
MCRank  == (s1 :> 1) @@ (s2 :> 2) @@ (s3 :> 3) @@ (s4 :> 4)

TwoThirds == <<2, 3>>
=============================================================================
