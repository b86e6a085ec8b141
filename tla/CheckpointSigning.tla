--------------------------- MODULE CheckpointSigning --------------------------
(***************************************************************************)
(* How the contract signs a frozen checkpoint: one ThresholdSig per input,  *)
(* a counter of signed inputs in the transaction, a counter of signed       *)
(* transactions in the batch, and tests for equality with them.             *)
(*                                                                         *)
(* A checkpoint holds one batch with one transaction (Checkpoint::new), so  *)
(* the loops over batches and transactions are left out; the loop over      *)
(* inputs is kept.  The signatures of a submission are the input numbers    *)
(* whose messages they sign, all made with the submitter's key.  Anybody    *)
(* may submit any sequence of them, in any order and any number of times.   *)
(***************************************************************************)
EXTENDS Sequences, SequencesExt, ThresholdSig

CONSTANTS
    Signers,    \* signatory keys
    Heights,    \* the Bitcoin heights signers report
    MaxInputs   \* bound: inputs of the checkpoint

ASSUME SigningAssumption ==
    /\ MaxInputs \in Nat \ {0}
    /\ IsFiniteSet(Signers)
    /\ \A s \in Signers : Power[s] \in Nat

VARIABLES
    input,          \* BitcoinTx.input: the signing state of each input
    signedInputs,   \* BitcoinTx.signed_inputs
    signedTxs,      \* Batch.signed_txs
    status,         \* Checkpoint.status
    signedAt        \* Checkpoint.signed_at_btc_height, as a set of at most one

vars == <<input, signedInputs, signedTxs, status, signedAt>>

(* BitcoinTx::signed, with the counter and the inputs it compares.          *)
TxComplete(count, ins) == count = Len(ins)

(* Batch::signed, signed_batches and Checkpoint::signed, for the one tx.    *)
CheckpointSigned(count) == count = 1

(* to_sign: the inputs the signer is asked for.                             *)
ToSign(s) == {k \in DOMAIN input : ShareNeeded(input[k], s)}

-----------------------------------------------------------------------------
(* The body of the loop over inputs.  `next` is sig_index + 1; a missing    *)
(* signature, or one for another input, fails the whole submission.         *)
MutantCounted(before, after) == IF Signed(after) THEN 1 ELSE 0

Counted(before, after) == IF ~Signed(before) /\ Signed(after) THEN 1 ELSE 0

MutantSignInput(s, sigs, acc, k) ==
    IF ~acc.ok \/ ~ShareNeeded(acc.input[k], s) \/ acc.next > Len(sigs)
    THEN acc
    ELSE IF sigs[acc.next] # k
    THEN [acc EXCEPT !.ok = FALSE]
    ELSE [acc EXCEPT !.next         = @ + 1,
                     !.input[k]     = AddShare(@, s),
                     !.signedInputs = @ + Counted(acc.input[k], AddShare(acc.input[k], s))]

SignInput(s, sigs, acc, k) ==
    IF ~acc.ok \/ ~ShareNeeded(acc.input[k], s)
    THEN acc
    ELSE IF acc.next > Len(sigs) \/ sigs[acc.next] # k
    THEN [acc EXCEPT !.ok = FALSE]
    ELSE [acc EXCEPT !.next         = @ + 1,
                     !.input[k]     = AddShare(@, s),
                     !.signedInputs = @ + Counted(acc.input[k], AddShare(acc.input[k], s))]

(* The loop, up to each input.                                              *)
Progress(s, sigs) ==
    LET acc[k \in 0 .. Len(input)] ==
            IF k = 0
            THEN [ok |-> TRUE, next |-> 1, input |-> input, signedInputs |-> signedInputs]
            ELSE SignInput(s, sigs, acc[k - 1], k)
    IN  acc

Applied(s, sigs) == Progress(s, sigs)[Len(input)]

(* submit_checkpoint_signature: CheckpointQueue::sign and Checkpoint::sign. *)
SubmitCheckpointSignature(s, sigs, height) ==
    LET applied == Applied(s, sigs)
        txs     == IF ~TxComplete(signedInputs, input)
                      /\ TxComplete(applied.signedInputs, input)
                   THEN signedTxs + 1 ELSE signedTxs
    IN  /\ applied.ok
        /\ applied.next = Len(sigs) + 1
        /\ input' = applied.input
        /\ signedInputs' = applied.signedInputs
        /\ signedTxs' = txs
        /\ signedAt' = IF CheckpointSigned(txs) /\ ~CheckpointSigned(signedTxs)
                       THEN {height} ELSE signedAt
        /\ status' = IF status = "Signing" /\ CheckpointSigned(txs)
                     THEN "Complete" ELSE status

(* Checkpoints with any signatories, as frozen by BuildingCheckpoint::      *)
(* advance: at least one input, none of them signed.                        *)
Init ==
    /\ \E n \in 1..MaxInputs :
         \E signatories \in [1..n -> (SUBSET Signers) \ {{}}] :
           input = [k \in 1..n |-> FromSigset(signatories[k])]
    /\ signedInputs = 0
    /\ signedTxs = 0
    /\ status = "Signing"
    /\ signedAt = {}

Submissions == BoundedSeq(1..MaxInputs, MaxInputs)

Next ==
    \E s \in Signers, sigs \in Submissions, height \in Heights :
        SubmitCheckpointSignature(s, sigs, height)

Spec == Init /\ [][Next]_vars

-----------------------------------------------------------------------------
(* A submission is applied to every input that wants it or to none: nobody  *)
(* has signed one input of the checkpoint and still owes another, whatever  *)
(* sequences were submitted (Checkpoint::sign, "A signatory must submit all *)
(* signatures for all inputs in which they are present").                   *)
AllOrNothing ==
    \A s \in Signers :
        (\E k \in DOMAIN input : s \in SignedBy(input[k])) => ToSign(s) = {}

(* The counters do what the rule over sets promises: signed_inputs and      *)
(* signed_txs reach their limits in the very step in which every input      *)
(* passes its threshold, over-signing changes neither, and the height is    *)
(* recorded in that step only.                                              *)
Abstract == INSTANCE SigningSpec WITH
    inputs <- [k \in DOMAIN input |-> [signatories |-> DOMAIN input[k].sigs]],
    sigs   <- UNION {SignedBy(input[k]) : k \in DOMAIN input}

ImplementsRule == Abstract!Spec
=============================================================================
