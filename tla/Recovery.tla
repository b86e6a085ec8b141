------------------------------- MODULE Recovery -------------------------------
(***************************************************************************)
(* Recovery transactions.  A deposit relayed after its signatory set has    *)
(* expired is not credited: the contract makes a transaction that pays it   *)
(* on to the current set, less the miner fee, and the old set must sign it. *)
(* Transactions stay in the queue for ever.                                 *)
(*                                                                         *)
(* A signer asks which recovery transactions want its signature, and later  *)
(* submits one signature for each; transactions may be created in between.  *)
(* A submission that fails changes nothing, and the signer asks again.      *)
(***************************************************************************)
EXTENDS Sequences, SequencesExt, ThresholdSig, DeductFee

CONSTANTS
    Signers,        \* signatory keys
    Values,         \* values of expired deposits, in satoshis
    FeeRates,       \* fee rates of the checkpoint being built
    TxVsize,        \* virtual size of a tx with one input and one output
    SigVsize,       \* ... of one signatory's part of a witness (79)
    WitVsize,       \* ... of the rest of a witness (39)
    MaxRecoveries   \* bound: recovery transactions created

ASSUME RecoveryAssumption ==
    /\ Values \subseteq Nat /\ FeeRates \subseteq Nat
    /\ TxVsize \in Nat \ {0} /\ SigVsize \in Nat /\ WitVsize \in Nat
    /\ IsFiniteSet(Signers)

VARIABLES
    recoveryTxs,    \* RECOVERY_TXS
    asked           \* external: the answer to to_sign each signer works on

vars == <<recoveryTxs, asked>>

-----------------------------------------------------------------------------
(* BitcoinTx::est_vsize of the transaction before its fee is deducted.      *)
EstVsize(signatories) ==
    TxVsize + Cardinality(signatories) * SigVsize + WitVsize

NewRecoveryTx(value, signatories, fee) ==
    [amount |-> value, fee |-> fee, output |-> Deducted(<<value>>, fee),
     input |-> FromSigset(signatories), signedInputs |-> 0]

(* relay_deposit of an expired deposit, and create_recovery_tx.             *)
CreateRecoveryTx(value, signatories, rate) ==
    /\ Len(recoveryTxs) < MaxRecoveries
    /\ recoveryTxs' = Append(recoveryTxs,
           NewRecoveryTx(value, signatories, rate * EstVsize(signatories)))
    /\ UNCHANGED asked

(* BitcoinTx::signed, for the one input.                                    *)
TxComplete(tx) == tx.signedInputs = 1

(* The transactions that want the signer's signature, in order: what        *)
(* to_sign answers, and what sign goes through.                             *)
Wanting(s) ==
    LET wanting == {i \in DOMAIN recoveryTxs : ShareNeeded(recoveryTxs[i].input, s)}
    IN  CHOOSE f \in [1 .. Cardinality(wanting) -> wanting] :
            \A j, k \in DOMAIN f : j < k => f[j] < f[k]

MutantToSign(s) == SelectSeq(Wanting(s), LAMBDA i : ~TxComplete(recoveryTxs[i]))

ToSign(s) == Wanting(s)

(* The body of the loop of RecoveryTxs::sign.                               *)
WithShare(tx, s) ==
    [tx EXCEPT !.input = AddShare(@, s),
               !.signedInputs =
                   IF ~Signed(tx.input) /\ Signed(AddShare(tx.input, s)) THEN @ + 1 ELSE @]

(* Every signature is given for the transaction it is taken for, and none   *)
(* is missing or left over: otherwise the message is rolled back.           *)
MutantSignSucceeds(s, sigs) == sigs # <<>> /\ IsPrefix(sigs, Wanting(s))

SignSucceeds(s, sigs) == sigs # <<>> /\ sigs = Wanting(s)

(* query_signing_recovery_txs, by a signer's daemon.                        *)
QuerySigningRecoveryTxs(s) ==
    /\ asked[s] = <<>>
    /\ asked' = [asked EXCEPT ![s] = ToSign(s)]
    /\ UNCHANGED recoveryTxs

SubmitRecoverySignature(s) ==
    /\ SignSucceeds(s, asked[s])
    /\ recoveryTxs' = [i \in DOMAIN recoveryTxs |->
           IF \E k \in DOMAIN asked[s] : asked[s][k] = i
           THEN WithShare(recoveryTxs[i], s) ELSE recoveryTxs[i]]
    /\ asked' = [asked EXCEPT ![s] = <<>>]

RejectRecoverySignature(s) ==
    /\ asked[s] # <<>>
    /\ ~SignSucceeds(s, asked[s])
    /\ asked' = [asked EXCEPT ![s] = <<>>]
    /\ UNCHANGED recoveryTxs

Init ==
    /\ recoveryTxs = <<>>
    /\ asked = [s \in Signers |-> <<>>]

Next ==
    \/ \E value \in Values, signatories \in (SUBSET Signers) \ {{}}, rate \in FeeRates :
         CreateRecoveryTx(value, signatories, rate)
    \/ \E s \in Signers :
         \/ QuerySigningRecoveryTxs(s)
         \/ SubmitRecoverySignature(s)
         \/ RejectRecoverySignature(s)

Spec == Init /\ [][Next]_vars

(* A signer's daemon asks again and again, and submits what it was asked    *)
(* for.  Deposits need not keep coming.                                     *)
FairSpec ==
    /\ Spec
    /\ \A s \in Signers :
         /\ WF_vars(QuerySigningRecoveryTxs(s))
         /\ WF_vars(SubmitRecoverySignature(s) \/ RejectRecoverySignature(s))

-----------------------------------------------------------------------------
(* RecoveryTxs::sign is all or nothing over a queue that may have grown     *)
(* since the signer asked: a submission that is accepted leaves no          *)
(* transaction that still wants that signer.                                *)
NothingLeftBehind ==
    [][\A s \in Signers :
          (\E i \in DOMAIN recoveryTxs :
              s \in SignedBy(recoveryTxs'[i].input) \ SignedBy(recoveryTxs[i].input))
          => \A i \in DOMAIN recoveryTxs' : ~ShareNeeded(recoveryTxs'[i].input, s)]_vars

(* create_recovery_tx with deduct_fee: a deposit worth more than dust and   *)
(* its fee together is sent on, less exactly that fee, however many         *)
(* signatories there are and whatever the fee rate was.  Any other is lost: *)
(* its transaction is queued, and signed, without an output, although       *)
(* deduct_fee's comment says that it "will fail if the fee is greater than  *)
(* the value of the outputs".                                               *)
OnlyDustIsLost ==
    \A i \in DOMAIN recoveryTxs :
        LET tx == recoveryTxs[i]
        IN  IF tx.amount > DustValue + tx.fee
            THEN tx.output = <<tx.amount - tx.fee>>
            ELSE DOMAIN tx.output = {}

(* Every recovery transaction is signed by all its signatories in the end,  *)
(* also when others were created while a signer was at work, and its        *)
(* counter of signed inputs, which late signatures must not move, then      *)
(* calls it signed (RecoveryTxs::signed hands it out).                      *)
EventuallySigned ==
    \A i \in 1..MaxRecoveries :
        (i \in DOMAIN recoveryTxs)
        ~> (i \in DOMAIN recoveryTxs
            /\ SignedBy(recoveryTxs[i].input) = DOMAIN recoveryTxs[i].input.sigs
            /\ TxComplete(recoveryTxs[i]))
=============================================================================
