------------------------------ MODULE DeductFee -------------------------------
(***************************************************************************)
(* BitcoinTx::deduct_fee, over the values of the outputs: the outputs that  *)
(* cannot pay an equal share of the fee and stay above dust are removed,    *)
(* round by round, and the others pay.  An output is known by its position  *)
(* in the transaction before the deduction.                                 *)
(***************************************************************************)
EXTENDS Integers, Sequences, FiniteSets

CONSTANT DustValue      \* the dust value of an output

ASSUME DustAssumption == DustValue \in Nat

MutantAdjusted(value) == value

Adjusted(value) == IF value < DustValue THEN 0 ELSE value - DustValue

(* One round: those of the outputs left that can pay their share stay.      *)
Payers(outputs, left, fee) ==
    {k \in left : Adjusted(outputs[k]) > fee \div Cardinality(left)}

(* When it is the last: no output stays, or the smallest it started with,   *)
(* removed or not, can pay the share of those that do.                      *)
IsLast(outputs, left, fee) ==
    LET rest == Payers(outputs, left, fee)
    IN  \/ rest = {}
        \/ \A k \in left : Adjusted(outputs[k]) >= fee \div Cardinality(rest)

(* The outputs left after each round.  One that is not the last removes at  *)
(* least one output.                                                        *)
Left(outputs, fee) ==
    LET left[n \in 0 .. Len(outputs)] ==
            IF n = 0 THEN DOMAIN outputs ELSE Payers(outputs, left[n - 1], fee)
    IN  left

Kept(outputs, fee) ==
    LET left == Left(outputs, fee)
        last == CHOOSE n \in 1 .. Len(outputs) :
                    /\ IsLast(outputs, left[n - 1], fee)
                    /\ \A m \in 1 .. (n - 1) : ~IsLast(outputs, left[m - 1], fee)
    IN  left[last]

PayShares(outputs, kept, fee) == [k \in kept |-> outputs[k] - (fee \div Cardinality(kept))]

(* The caller makes sure that there is an output when there is a fee.       *)
Deducted(outputs, fee) ==
    IF fee = 0 THEN outputs ELSE PayShares(outputs, Kept(outputs, fee), fee)

-----------------------------------------------------------------------------
(* The rounds find what a definition without rounds says: the outputs kept  *)
(* are the largest set in which each can pay an equal share and stay above  *)
(* dust.                                                                    *)
Affordable(outputs, fee) ==
    UNION {K \in SUBSET DOMAIN outputs :
             \A k \in K : Adjusted(outputs[k]) > fee \div Cardinality(K)}

LargestSetPays(outputs, fee) ==
    Deducted(outputs, fee) = PayShares(outputs, Affordable(outputs, fee), fee)
=============================================================================
