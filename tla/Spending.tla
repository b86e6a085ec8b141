------------------------------- MODULE Spending -------------------------------
(***************************************************************************)
(* From the signing state of an input to its spend on Bitcoin: the redeem   *)
(* script of the input's signatory set on one side, the witness made from   *)
(* the shares on the other.  The two are written by different code, in      *)
(* different orders, with voting power at a different precision, and their  *)
(* thresholds come from different places: the script's from the checkpoint  *)
(* configuration, the contract's from a constant.                           *)
(***************************************************************************)
EXTENDS CheckpointSigning, RedeemScript

CONSTANTS
    Rank,   \* the order of the keys' bytes
    Ratio   \* CheckpointConfig.sigset_threshold

ASSUME SpendingAssumption ==
    /\ Rank \in [Signers -> Int]
    /\ \A s, t \in Signers : Rank[s] = Rank[t] => s = t
    /\ Ratio[1] \in Nat /\ Ratio[2] \in Nat \ {0}

(* The derived order of Signatory: by voting power, then by key.            *)
Before(s, t) == Power[s] < Power[t] \/ (Power[s] = Power[t] /\ Rank[s] < Rank[t])

(* sort_and_truncate, for a set that is small enough: descending.           *)
ScriptOrder(signatories) ==
    CHOOSE f \in [1 .. Cardinality(signatories) -> signatories] :
        \A i, j \in DOMAIN f : i < j => Before(f[j], f[i])

(* What redeem_script reads of a signatory set.                             *)
Sigset(signatories) ==
    LET order == ScriptOrder(signatories)
    IN  [signatories |-> [i \in DOMAIN order |->
                            [pubkey |-> order[i], power |-> Power[order[i]]]],
         present     |-> TotalPower(signatories)]

(* CheckpointQueue: the script that guards input k.                         *)
ScriptOf(k) == Script(Sigset(DOMAIN input[k].sigs), Ratio, Dest)

(* to_witness: ascending.  Without a threshold of signatures it is empty.   *)
MutantWitnessOrder(signatories) ==
    CHOOSE f \in [1 .. Cardinality(signatories) -> signatories] :
        \A i, j \in DOMAIN f : i < j =>
            \/ Power[f[i]] < Power[f[j]]
            \/ Power[f[i]] = Power[f[j]] /\ Rank[f[i]] > Rank[f[j]]

WitnessOrder(signatories) ==
    CHOOSE f \in [1 .. Cardinality(signatories) -> signatories] :
        \A i, j \in DOMAIN f : i < j => Before(f[i], f[j])

Witness(signatories, T) ==
    LET order == WitnessOrder(signatories)
    IN  [i \in DOMAIN order |->
            IF order[i] \in T THEN Signature(order[i]) ELSE NoSignature]

ToWitness(ts) == IF Signed(ts) THEN Witness(DOMAIN ts.sigs, SignedBy(ts)) ELSE <<>>

-----------------------------------------------------------------------------
(* The shift to the right by the truncation takes from each signatory what  *)
(* is left over.                                                            *)
Lost(signatories, T) ==
    SumFunction([s \in T |-> Power[s] % 2^Truncation(TotalPower(signatories))])

(* Whoever signs, the script of an input lets nobody spend below the        *)
(* threshold the contract counts to: rounding powers and threshold down     *)
(* never lowers the bar (redeem_script against ThresholdSig::from_sigset).  *)
SpendNeedsThreshold ==
    \A k \in DOMAIN input : \A T \in SUBSET DOMAIN input[k].sigs :
        Accepts(ScriptOf(k), Witness(DOMAIN input[k].sigs, T))
            => TotalPower(T) > input[k].threshold

(* What the contract calls signed can be spent with the witness it hands    *)
(* out ("This can be used to generate a valid spend", to_witness), as long  *)
(* as the signers' power is over the threshold without what truncation      *)
(* takes from it.  Below the precision of the script that is every input.   *)
SignedIsSpendable ==
    \A k \in DOMAIN input :
        LET all == DOMAIN input[k].sigs
            T   == SignedBy(input[k])
        IN  Signed(input[k]) /\ TotalPower(T) - Lost(all, T) > input[k].threshold
                => Accepts(ScriptOf(k), ToWitness(input[k]))

(* from_script reads the signatories of an input back from its script, with *)
(* the power the script gives them, unless the script pushes a number by an *)
(* opcode, or the truncated present power fills the precision so that the   *)
(* power found for the threshold would need one bit more.                   *)
Readable(set) ==
    /\ \A i \in DOMAIN set.signatories :
         Truncated(set.signatories[i].power, set.present) \notin 1..Opcodes
    /\ Truncated(RatioThreshold(set.present, Ratio), set.present) \notin 1..Opcodes
    /\ Truncation(set.present) > 0 => Truncated(set.present, set.present) < 2^Precision - 1

ScriptIsReadBack ==
    \A k \in DOMAIN input :
        LET set == Sigset(DOMAIN input[k].sigs)
        IN  Readable(set) =>
              {read.signatories : read \in FromScript(ScriptOf(k), Ratio)}
                = {[i \in DOMAIN set.signatories |->
                      [set.signatories[i] EXCEPT !.power = Truncated(@, set.present)]]}
=============================================================================
