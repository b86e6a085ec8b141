-------------------------------- MODULE Bridge --------------------------------
(***************************************************************************)
(* The bridge contract's core: the queue of checkpoints and the handlers    *)
(* that move deposits into it, withdrawals out of it, signatures onto it,   *)
(* and nBTC to its users.                                                   *)
(*                                                                         *)
(* Every message of the contract is one atomic action.  A handler that      *)
(* returns an error or panics (overflow checks are on) is reverted by the   *)
(* chain, so the states in which it fails are the states in which the       *)
(* action is disabled.                                                      *)
(*                                                                         *)
(* Outside the contract: the chain's clock and end-block hook, the Bitcoin  *)
(* chain (its height, and which transactions a block holds, revealed when a *)
(* relayer proves them), the signers, and the token factory's supply.       *)
(***************************************************************************)
EXTENDS CheckpointTx

CONSTANTS
    Deposits,         \* deposit outputs paid to the bridge on Bitcoin
    Withdrawals,      \* withdrawal requests of nBTC holders
    Signers,          \* validators, each with one signatory key
    DepositValue,     \* satoshis of each deposit
    WithdrawalAmount, \* nBTC units sent with each withdrawal request
    DefaultFeeRate,   \* DEFAULT_FEE_RATE
    DustValue,        \* Script::dust_value of a withdrawal's script
    MinCheckpoints,   \* checkpoints prune always keeps (10 in the code)
    MaxAge,           \* CheckpointConfig.max_age
    MinInterval,      \* CheckpointConfig.min_checkpoint_interval
    MaxInterval,      \* CheckpointConfig.max_checkpoint_interval
    MaxUnconfirmed,   \* CheckpointConfig.max_unconfirmed_checkpoints
    TargetInclusion,  \* CheckpointConfig.target_checkpoint_inclusion
    MaxSignatories,   \* MAX_SIGNATORIES
    MaxDepositAge,    \* BitcoinConfig.max_deposit_age
    MinConfirmations, \* BitcoinConfig.min_confirmations
    MinCheckpointConfirmations, \* BitcoinConfig.min_checkpoint_confirmations
    MinWithdrawalCheckpoints,   \* BitcoinConfig.min_withdrawal_checkpoints
    MaxOffline,       \* BitcoinConfig.max_offline_checkpoints
    CapacityLimit,    \* BitcoinConfig.capacity_limit
    MaxReorg,         \* bound: blocks the best height may fall by at once
    MaxHeight,        \* bound: last Bitcoin height
    MaxTime           \* bound: last time of the chain's clock; with MinInterval > 0
                      \* it bounds the number of checkpoints too

ASSUME QueueAssumption ==
    /\ MinCheckpoints \in Nat /\ MinCheckpoints >= 3
    /\ MaxHeight \in Nat
    /\ MaxTime \in Nat

(* Amounts are unsigned, so are voting powers, and there are finitely many  *)
(* validators.                                                              *)
ASSUME FundsAssumption ==
    /\ DepositValue \in [Deposits -> Nat]
    /\ WithdrawalAmount \in [Withdrawals -> Nat]
    /\ DefaultFeeRate \in Nat
    /\ DustValue \in Nat
    /\ MaxSignatories \in Nat
    /\ IsFiniteSet(Signers)
    /\ \A s \in Signers : Power[s] \in Nat

VARIABLES
    queue,          \* CHECKPOINTS and BUILDING_INDEX: [cps, index, len]
    confirmed,      \* CONFIRMED_INDEX, or None
    firstUnhandled, \* FIRST_UNHANDLED_CONFIRMED_INDEX
    feePool,        \* FEE_POOL, in nBTC units; may be negative
    processed,      \* OUTPOINTS: the deposits already relayed
    recovery,       \* RECOVERY_TXS: expired deposits being sent back
    validators,     \* VALIDATORS and SIGNERS
    keys,           \* SIG_KEYS: validators that registered a signatory key
    supply,         \* external: nBTC in circulation, in units
    height,         \* external: height of the best relayed Bitcoin header
    now,            \* external: time of the chain's current block
    requested,      \* history: withdrawal requests made
    credited        \* history: the transfers paid out, [dep, amount]

contractVars == <<queue, confirmed, firstUnhandled, feePool, processed,
                  recovery, validators, keys>>
vars == <<contractVars, supply, height, now, requested, credited>>

None == -1

Statuses == {"Building", "Signing", "Complete"}

-----------------------------------------------------------------------------
(* The queue.  A queue q holds the checkpoints of indexes Start(q)..q.index;*)
(* older ones were pruned.  Reading any other index is an error.            *)

Start(q)      == q.index + 1 - q.len
Retained(q)   == Start(q) .. q.index
Building(q)   == q.cps[q.index]
HasSigning(q) == q.len >= 2 /\ q.cps[q.index - 1].status = "Signing"

SigningOffset(q) == IF HasSigning(q) THEN 1 ELSE 0

(* last_completed_index; negative stands for "No completed checkpoints yet" *)
MutantLastCompleted(q) == q.index - 1

LastCompleted(q) == q.index - 1 - SigningOffset(q)
HasCompleted(q)  == LastCompleted(q) >= 0

(* num_unconfirmed: panics when the subtraction would be negative.          *)
NumUnconfirmed(q) ==
    CASE ~HasCompleted(q)                       -> 0
      [] HasCompleted(q) /\ confirmed = None    -> q.len - 1 - SigningOffset(q)
      [] HasCompleted(q) /\ confirmed # None    -> LastCompleted(q) - confirmed

FirstUnconfirmed(q) == q.index - NumUnconfirmed(q) - SigningOffset(q)

(* unconfirmed: the completed checkpoints from the first unconfirmed on; an *)
(* error when that one was pruned.                                          *)
UnconfirmedReadable(q) ==
    /\ NumUnconfirmed(q) >= 0
    /\ NumUnconfirmed(q) > 0 => FirstUnconfirmed(q) \in Retained(q)

Unconfirmed(q) ==
    IF NumUnconfirmed(q) = 0
    THEN {}
    ELSE {i \in FirstUnconfirmed(q) .. q.index :
            \A j \in FirstUnconfirmed(q) .. i : q.cps[j].status = "Complete"}

(* fee_adjustment and calc_fee_checkpoint: checkpoint i pays for its own    *)
(* size and tops up what the unconfirmed ones before it paid too little.    *)
FeeAdjustment(q, rate) ==
    LET vbytes == SumFunction([i \in Unconfirmed(q) |-> EstVsize(q.cps[i])])
        paid   == SumFunction([i \in Unconfirmed(q) |-> MinerFees(q.cps[i])])
    IN  Max({vbytes * rate - paid, 0})

CalcFee(q, i) == BaseFee(q.cps[i]) + FeeAdjustment(q, q.cps[i].feeRate)

-----------------------------------------------------------------------------
(* SignatorySet::from_validator_ctx: the validators with a key, the most    *)
(* powerful MaxSignatories of them (ties are broken by public key).         *)
IsSigset(S) ==
    LET present == validators \cap keys
    IN  /\ S \subseteq present
        /\ Cardinality(S) = AtMost(Cardinality(present), MaxSignatories)
        /\ \A s \in S, t \in present \ S : Power[s] >= Power[t]

Sigset == CHOOSE S \in SUBSET Signers : IsSigset(S)

HasQuorum ==
    /\ TotalPower(validators) > 0
    /\ TotalPower(Sigset) >= TotalPower(validators) \div 2

CheckpointFields ==
    {"status", "createTime", "signatories", "feeRate", "signedAt", "depositsEnabled",
     "feesCollected", "pending", "inputs", "outputs", "sigs"}

(* Checkpoint::new *)
NewCheckpoint ==
    [status |-> "Building", createTime |-> now, signatories |-> Sigset,
     feeRate |-> DefaultFeeRate, signedAt |-> 0,
     depositsEnabled |-> TRUE, feesCollected |-> 0,
     pending |-> {}, inputs |-> <<>>, outputs |-> <<>>, sigs |-> {}]

-----------------------------------------------------------------------------
(* Messages from users and relayers.                                        *)

(* CheckpointQueue::set, for an index that get() accepts.  Checkpoint i is  *)
(* stored at position i: the deque's head has moved by one for each pruned  *)
(* checkpoint.  get() adds the head to the place i - Start(q) in the deque; *)
(* DequeExtension::set does not, and writes at position i - Start(q).  Once *)
(* something was pruned that is an older checkpoint, or a position before   *)
(* the head, which is never read.                                           *)
SetCheckpoint(q, i, cp) ==
    [cps |-> [j \in DOMAIN q.cps |-> IF j = i - Start(q) THEN cp ELSE q.cps[j]],
     index |-> q.index, len |-> q.len]

SetBuilding(q, cp) == SetCheckpoint(q, q.index, cp)

(* give_miner_fee, on the queue.                                            *)
GiveMinerFee(q, units) ==
    SetBuilding(q, [Building(q) EXCEPT !.feesCollected = @ + units \div UnitsPerSat])

(* relay_deposit's common part: a relayer proves that deposit d is in the   *)
(* Bitcoin block of height h, paid to the signatory set of checkpoint i.    *)
DepositProven(d, i, h) ==
    /\ height - h >= MinConfirmations
    /\ i \in Retained(queue)
    /\ d \notin processed
    /\ queue.cps[i].depositsEnabled

Expired(i) == now > queue.cps[i].createTime + MaxDepositAge

(* A deposit in time joins the checkpoint being built: as an input to spend,*)
(* and as a transfer to pay once the checkpoint is signed.  Its fee is that *)
(* of the checkpoint it was paid to.                                        *)
RelayDeposit(d, i, h) ==
    /\ DepositProven(d, i, h)
    /\ ~Expired(i)
    /\ LET to   == queue.cps[i]
           fee  == UserFee(InputVsize(to.signatories), to.feeRate) * UnitsPerSat
           nbtc == DepositValue[d] * UnitsPerSat
           q    == GiveMinerFee(queue, fee)
       IN  /\ nbtc >= fee
           /\ feePool' = feePool + fee
           /\ queue' = SetBuilding(q, [Building(q) EXCEPT
                !.inputs  = Append(@, NewInput(DepositOutpoint(d), to.signatories,
                                               DepositValue[d])),
                !.pending = @ \cup {[dep |-> d, amount |-> nbtc - fee]}])
    /\ processed' = processed \cup {d}
    /\ UNCHANGED <<confirmed, firstUnhandled, recovery, validators, keys,
                   supply, height, now, requested, credited>>

(* An expired deposit is sent on to the current signatory set by a recovery *)
(* transaction instead, and is not credited.                                *)
RelayExpiredDeposit(d, i, h) ==
    /\ DepositProven(d, i, h)
    /\ Expired(i)
    /\ recovery' = recovery \cup {[dep |-> d, old |-> queue.cps[i].signatories,
                                   new |-> Building(queue).signatories]}
    /\ processed' = processed \cup {d}
    /\ UNCHANGED <<queue, confirmed, firstUnhandled, feePool, validators, keys,
                   supply, height, now, requested, credited>>

(* withdraw_to_bitcoin and add_withdrawal: the sender's nBTC is burnt, and  *)
(* what is left of it after the fee, in whole satoshis, becomes an output.  *)
WithdrawToBitcoin(w) ==
    /\ w \notin requested
    /\ WithdrawalAmount[w] <= supply
    /\ queue.len >= MinWithdrawalCheckpoints
    /\ queue.len > 0
    /\ LET fee   == UserFee(OutVsize, Building(queue).feeRate) * UnitsPerSat
           value == (WithdrawalAmount[w] - fee) \div UnitsPerSat
           q     == GiveMinerFee(queue, fee)
       IN  /\ WithdrawalAmount[w] >= fee
           /\ value > DustValue
           /\ feePool' = feePool + fee
           /\ queue' = SetBuilding(q, [Building(q) EXCEPT
                !.outputs = Append(@, WithdrawalOutput(w, value))])
    /\ supply' = supply - WithdrawalAmount[w]
    /\ requested' = requested \cup {w}
    /\ UNCHANGED <<confirmed, firstUnhandled, processed, recovery, validators,
                   keys, height, now, credited>>

(* relay_checkpoint: a relayer proves that the transaction of checkpoint i  *)
(* is in the Bitcoin block of height h.  The code does not look at i's      *)
(* status: that Bitcoin only accepts a fully signed transaction is external.*)
RelayCheckpoint(i, h) ==
    /\ confirmed # None => i > confirmed
    /\ height - h >= MinCheckpointConfirmations
    /\ i \in Retained(queue)
    /\ queue.cps[i].status = "Complete"
    /\ confirmed' = i
    /\ UNCHANGED <<queue, firstUnhandled, feePool, processed, recovery,
                   validators, keys, supply, height, now, requested, credited>>

(* Checkpoint::sign records the Bitcoin height when a signature makes the   *)
(* checkpoint fully signed, and only then.                                  *)
MutantBecomesSigned(cp, s) == TxSigned(cp.inputs, cp.sigs \cup {s})

BecomesSigned(cp, s) ==
    ~TxSigned(cp.inputs, cp.sigs) /\ TxSigned(cp.inputs, cp.sigs \cup {s})

(* submit_checkpoint_signature: signer s signs every input of checkpoint i  *)
(* that needs its signature, claiming Bitcoin height h.  Signatures on a    *)
(* complete checkpoint are accepted too.                                    *)
SubmitCheckpointSignature(s, i, h) ==
    /\ i \in Retained(queue)
    /\ LET cp   == queue.cps[i]
           sigs == cp.sigs \cup {s}
       IN  /\ cp.status # "Building"
           /\ NeedsSig(cp.inputs, cp.sigs, s)
           /\ queue' = SetCheckpoint(queue, i,
                [cp EXCEPT !.sigs = sigs,
                           !.signedAt = IF BecomesSigned(cp, s) THEN h ELSE @,
                           !.status = IF @ = "Signing" /\ TxSigned(cp.inputs, sigs)
                                      THEN "Complete" ELSE @])
    /\ UNCHANGED <<confirmed, firstUnhandled, feePool, processed, recovery,
                   validators, keys, supply, height, now, requested, credited>>

(* add_validators, by the contract's owner *)
AddValidators(S) ==
    /\ validators' = validators \cup S
    /\ UNCHANGED <<queue, confirmed, firstUnhandled, feePool, processed,
                   recovery, keys, supply, height, now, requested, credited>>

(* set_signatory_key, by a validator *)
SetSignatoryKey(s) ==
    /\ s \in validators
    /\ s \notin keys
    /\ keys' = keys \cup {s}
    /\ UNCHANGED <<queue, confirmed, firstUnhandled, feePool, processed,
                   recovery, validators, supply, height, now, requested, credited>>

-----------------------------------------------------------------------------
(* clock_end_block, first half: take_pending_completed.  The transfers of   *)
(* the confirmed checkpoints not handled yet, and those of the completed    *)
(* ones from the confirmed one on, are taken and paid out.                  *)

(* unhandled_confirmed; its error on a pruned index is swallowed.           *)
UnhandledConfirmed(q) ==
    IF confirmed = None \/ firstUnhandled < Start(q)
    THEN {}
    ELSE {i \in firstUnhandled .. confirmed :
            \A j \in firstUnhandled .. i : q.cps[j].status = "Complete"}

MutantUnconfirmedCompleted(q) ==
    (IF confirmed = None THEN 0 ELSE confirmed) .. (LastCompleted(q) - 1)

UnconfirmedCompleted(q) ==
    (IF confirmed = None THEN 0 ELSE confirmed) .. LastCompleted(q)

(* Each of the checkpoints S in turn, from the oldest on, is read and set   *)
(* without its transfers.  (set writes below what is still to be read.)     *)
ClearPending(q, S) ==
    [cps |-> [j \in DOMAIN q.cps |->
                IF j + Start(q) \in S
                THEN [q.cps[j + Start(q)] EXCEPT !.pending = {}]
                ELSE q.cps[j]],
     index |-> q.index, len |-> q.len]

AfterConfirmed(q) == ClearPending(q, UnhandledConfirmed(q))

(* The second loop fails on a pruned index, and then so does the end block. *)
TakeSucceeds(q) == UnconfirmedCompleted(AfterConfirmed(q)) \subseteq Retained(q)

AfterTake(q) ==
    LET r == AfterConfirmed(q)
    IN  ClearPending(r, UnconfirmedCompleted(r))

Transfers(q, S)      == UNION {q.cps[i].pending : i \in S}
PendingAmount(cp)    == SumFunction([p \in cp.pending |-> p.amount])
TransferAmount(q, S) == SumFunction([i \in S |-> PendingAmount(q.cps[i])])

(* With no completed checkpoint the code returns nothing at all, whatever   *)
(* the first loop took.                                                     *)
TakenTransfers(q) ==
    LET r == AfterConfirmed(q)
    IN  IF HasCompleted(r)
        THEN Transfers(q, UnhandledConfirmed(q)) \cup Transfers(r, UnconfirmedCompleted(r))
        ELSE {}

TakenAmount(q) ==
    LET r == AfterConfirmed(q)
    IN  IF HasCompleted(r)
        THEN TransferAmount(q, UnhandledConfirmed(q))
             + TransferAmount(r, UnconfirmedCompleted(r))
        ELSE 0

TakePendingCompleted ==
    /\ TakeSucceeds(queue)
    /\ firstUnhandled' = IF UnhandledConfirmed(queue) = {}
                         THEN firstUnhandled
                         ELSE Max(UnhandledConfirmed(queue)) + 1
    /\ credited' = credited \cup TakenTransfers(queue)
    /\ supply' = supply + TakenAmount(queue)

-----------------------------------------------------------------------------
(* clock_end_block, second half: begin_block_step, on the queue q that the  *)
(* first half left.                                                         *)

Elapsed(q) == now - Building(q).createTime

(* should_push, up to its first fee calculation                             *)
MutantMayPushSigning(q) ==
    q.len > 0 =>
        /\ Elapsed(q) >= MinInterval
        /\ HasCompleted(q) => height >= q.cps[LastCompleted(q)].signedAt

MutantMayPushHeight(q) ==
    ~HasSigning(q) /\ (q.len > 0 => Elapsed(q) >= MinInterval)

MayPush(q) ==
    /\ ~HasSigning(q)
    /\ q.len > 0 =>
        /\ Elapsed(q) >= MinInterval
        /\ HasCompleted(q) => height >= q.cps[LastCompleted(q)].signedAt

HasPending(q) ==
    LET cp == Building(q)
    IN  \/ Len(cp.inputs) > (IF q.index = 0 THEN 0 ELSE 1)
        \/ cp.outputs # <<>>
        \/ cp.pending # {}

(* The building checkpoint pays for itself, unless the maximum interval has *)
(* passed, and its inputs cover its outputs and its fee.                    *)
MutantCanPay(q) == ReserveCovers(Building(q), CalcFee(q, q.index))

CanPay(q) ==
    LET cp  == Building(q)
        fee == CalcFee(q, q.index)
    IN  /\ (Elapsed(q) < MaxInterval \/ q.index = 0)
               => HasPending(q) /\ cp.feesCollected >= fee
        /\ ReserveCovers(cp, fee)

ShouldPushSucceeds(q) == MayPush(q) => UnconfirmedReadable(q)

ShouldPush(q) ==
    /\ MayPush(q)
    /\ q.len > 0 => CanPay(q)
    /\ NumUnconfirmed(q) < MaxUnconfirmed
    /\ HasQuorum

(* value_locked: the first output of the last completed checkpoint; a panic *)
(* when it has none.                                                        *)
ValueLockedSucceeds(q) ==
    HasCompleted(q) => q.cps[LastCompleted(q)].outputs # <<>>

ReachedCapacity(q) ==
    HasCompleted(q) /\ q.cps[LastCompleted(q)].outputs[1].value >= CapacityLimit

(* maybe_push; the first checkpoint has index 0.                            *)
NextIndex(q) == IF q.len = 0 THEN q.index ELSE q.index + 1

PushBack(q, cp) ==
    [cps   |-> [i \in Retained(q) \cup {NextIndex(q)} |->
                  IF i = NextIndex(q) THEN cp ELSE q.cps[i]],
     index |-> NextIndex(q),
     len   |-> q.len + 1]

Pushed(q, depositsEnabled) ==
    LET p == PushBack(q, NewCheckpoint)
    IN  SetBuilding(p, [Building(p) EXCEPT !.depositsEnabled = depositsEnabled])

(* prune: the oldest checkpoint goes while the queue is long and it is old. *)
PruneStops(q, i) ==
    \/ q.index + 1 - i <= MinCheckpoints
    \/ Building(q).createTime - q.cps[i].createTime <= MaxAge

IsPrunedStart(q, i) ==
    /\ PruneStops(q, i)
    /\ \A j \in Start(q) .. (i - 1) : ~PruneStops(q, j)

MutantPrunedFrom(q, i) ==
    [cps |-> [j \in i .. q.index |-> q.cps[j]], index |-> q.index, len |-> q.index - i]

PrunedFrom(q, i) ==
    [cps |-> [j \in i .. q.index |-> q.cps[j]], index |-> q.index,
     len |-> q.index + 1 - i]

(* maybe_step after the push: the previous checkpoint (prev) is frozen, and *)
(* the new one spends its reserve and takes its excess inputs and outputs.  *)
Prev(q) == q.cps[q.index - 1]
StepFee(q) == CalcFee(q, q.index - 1)

WithSigning(q) == SetCheckpoint(q, q.index - 1, Advanced(Prev(q), StepFee(q)))

BlocksSinceSigned(q, i) == height - q.cps[i].signedAt

(* The next fee rate, from the queue r in which prev is already `Signing`.  *)
NextFeeRate(r, rate) ==
    CASE NumUnconfirmed(r) > 0 ->
            IF /\ BlocksSinceSigned(r, FirstUnconfirmed(r)) >= TargetInclusion
               /\ BlocksSinceSigned(r, LastCompleted(r)) > 0
            THEN AdjustFeeRate(rate, TRUE)
            ELSE rate
      [] NumUnconfirmed(r) = 0 /\ HasCompleted(r)  -> AdjustFeeRate(rate, FALSE)
      [] NumUnconfirmed(r) = 0 /\ ~HasCompleted(r) -> rate

(* What maybe_step needs not to return an error or panic: the fee is        *)
(* computed again, now after the push and the prune; the reserve is enough; *)
(* the signed heights are not ahead of the headers.                         *)
StepSucceeds(q) ==
    q.index > 0 =>
        /\ UnconfirmedReadable(q)
        /\ ReserveValue(Prev(q), StepFee(q)) >= 0
        /\ \A r \in {WithSigning(q)} :
              UnconfirmedReadable(r) /\ (NumUnconfirmed(r) > 0 =>
                    /\ BlocksSinceSigned(r, FirstUnconfirmed(r)) >= 0
                    /\ BlocksSinceSigned(r, LastCompleted(r)) >= 0)

ReserveInput(q) ==
    NewInput(ReserveOutpoint(q.index - 1), Prev(q).signatories,
             ReserveValue(Prev(q), StepFee(q)))

MutantNextInputs(q) == ExcessInputs(Prev(q)) \o <<ReserveInput(q)>>

NextInputs(q) == <<ReserveInput(q)>> \o ExcessInputs(Prev(q))

Stepped(q) ==
    IF q.index = 0
    THEN q
    ELSE LET r == WithSigning(q)
         IN  SetBuilding(r,
                [Building(r) EXCEPT !.feeRate = NextFeeRate(r, Prev(q).feeRate),
                                    !.inputs  = @ \o NextInputs(q),
                                    !.outputs = @ \o ExcessOutputs(Prev(q))])

FeesPaid(q) == IF q.index = 0 THEN 0 ELSE StepFee(q)

(* CheckpointQueue::completed: the last n completed checkpoints             *)
CompletedWindow(q, n) ==
    LET skip == IF HasSigning(q) THEN 2 ELSE 1
        end  == Max({q.index - (skip - 1), 0})
    IN  (end - AtMost(n, q.len - skip)) .. (end - 1)

(* offline_signers: a validator as strong as the weakest signatory, whose   *)
(* signature is missing from each of the last MaxOffline checkpoints.       *)
OfflineSigners(q) ==
    LET window == CompletedWindow(q, MaxOffline)
        active == Building(q).signatories
    IN  IF Cardinality(window) < MaxOffline
        THEN {}
        ELSE {s \in validators \cap keys :
                /\ \E t \in active : Power[s] >= Power[t]
                /\ \A i \in window : NeedsSig(q.cps[i].inputs, q.cps[i].sigs, s)}

(* A block in which no checkpoint is pushed                                 *)
EndBlockQuiet ==
    /\ TakePendingCompleted
    /\ \E q \in {AfterTake(queue)} :
        /\ ValueLockedSucceeds(q)
        /\ ShouldPushSucceeds(q)
        /\ ~ShouldPush(q)
        /\ queue' = q
    /\ UNCHANGED <<confirmed, feePool, processed, recovery, validators, keys,
                   height, now, requested>>

(* A block in which a checkpoint is pushed (queue p), the old ones are      *)
(* pruned (r), the previous one is frozen (t), and the offline signers are  *)
(* punished.  (\E over a singleton instead of LET: TLC evaluates it once.)  *)
EndBlockPush ==
    /\ TakePendingCompleted
    /\ \E q \in {AfterTake(queue)} :
        /\ ValueLockedSucceeds(q)
        /\ ShouldPushSucceeds(q)
        /\ ShouldPush(q)
        /\ Sigset # {}
        /\ \E p \in {Pushed(q, ~ReachedCapacity(q))} :
           \E i \in Retained(p) : \E r \in {PrunedFrom(p, i)} :
            /\ IsPrunedStart(p, i)
            /\ StepSucceeds(r)
            /\ \E t \in {Stepped(r)} :
                /\ queue' = t
                /\ feePool' = feePool - FeesPaid(r) * UnitsPerSat
                /\ validators' = validators \ OfflineSigners(t)
                /\ keys' = keys \ OfflineSigners(t)
    /\ UNCHANGED <<confirmed, processed, recovery, height, now, requested>>

ClockEndBlock == EndBlockQuiet \/ EndBlockPush

-----------------------------------------------------------------------------
(* The chain's clock and the Bitcoin chain.                                 *)

Tick ==
    /\ now < MaxTime
    /\ now' = now + 1
    /\ UNCHANGED <<contractVars, supply, height, requested, credited>>

(* relay_headers, as the bridge sees it: the best height grows.             *)
MineBlock ==
    /\ height < MaxHeight
    /\ height' = height + 1
    /\ UNCHANGED <<contractVars, supply, now, requested, credited>>

(* ... or falls: add_into_iter compares work, not length, so a heavier      *)
(* chain of headers may be shorter than the one it replaces.                *)
Reorg ==
    /\ \E h \in 0 .. (height - 1) : height - h <= MaxReorg /\ height' = h
    /\ UNCHANGED <<contractVars, supply, now, requested, credited>>

Init ==
    /\ queue = [cps |-> [i \in {} |-> 0], index |-> 0, len |-> 0]
    /\ confirmed = None
    /\ firstUnhandled = 0
    /\ feePool = 0
    /\ processed = {}
    /\ recovery = {}
    /\ validators = {}
    /\ keys = {}
    /\ supply = 0
    /\ height = 0
    /\ now = 0
    /\ requested = {}
    /\ credited = {}

Heights == 0 .. MaxHeight

Next ==
    \/ \E d \in Deposits, i \in Retained(queue), h \in 0 .. height :
          RelayDeposit(d, i, h) \/ RelayExpiredDeposit(d, i, h)
    \/ \E w \in Withdrawals : WithdrawToBitcoin(w)
    \/ \E i \in Retained(queue), h \in 0 .. height : RelayCheckpoint(i, h)
    \/ \E s \in Signers, i \in Retained(queue), h \in Heights :
          SubmitCheckpointSignature(s, i, h)
    \/ \E S \in SUBSET Signers : AddValidators(S)
    \/ \E s \in Signers : SetSignatoryKey(s)
    \/ ClockEndBlock
    \/ Tick
    \/ MineBlock
    \/ Reorg

Spec == Init /\ [][Next]_vars

-----------------------------------------------------------------------------
(* Properties.                                                              *)

(* The control part of the state has the type the code declares: the queue  *)
(* is a deque of checkpoints with consecutive indexes ending at             *)
(* BUILDING_INDEX, and every field of a checkpoint has its type.            *)
TypeOK ==
    /\ queue.index \in Nat
    /\ queue.len \in 0 .. (queue.index + 1)
    /\ queue.len = 0 => queue.index = 0
    /\ DOMAIN queue.cps = Retained(queue)
    /\ \A i \in Retained(queue) :
        LET cp == queue.cps[i]
        IN  /\ DOMAIN cp = CheckpointFields
            /\ cp.status \in Statuses
            /\ cp.createTime \in 0 .. now
            /\ cp.signedAt \in Nat
            /\ cp.depositsEnabled \in BOOLEAN
            /\ \A p \in cp.pending : p.dep \in Deposits
    /\ confirmed \in Nat \cup {None}
    /\ firstUnhandled \in Nat
    /\ processed \subseteq Deposits
    /\ \A r \in recovery : r.dep \in Deposits
    /\ validators \subseteq Signers
    /\ keys \subseteq Signers
    /\ height \in Nat
    /\ now \in Nat
    /\ requested \subseteq Withdrawals
    /\ \A c \in credited : c.dep \in Deposits

(* The queue's state machine (the diagram of CheckpointQueue): the last     *)
(* checkpoint is `Building`, at most the one before it is `Signing`, every  *)
(* other one is `Complete`.                                                 *)
QueueShape ==
    \A i \in Retained(queue) :
        /\ queue.cps[i].status = "Building" <=> i = queue.index
        /\ queue.cps[i].status = "Signing" => i = queue.index - 1

(* confirmed_index never passes the last completed checkpoint (the          *)
(* subtraction of num_unconfirmed would panic), and the confirmed           *)
(* checkpoints handled are confirmed.                                       *)
ConfirmedIsCompleted ==
    /\ confirmed # None => confirmed <= LastCompleted(queue)
    /\ firstUnhandled <= confirmed + 1

(* Nothing was pruned yet (the head of the deque is where it started): from *)
(* then on DequeExtension::set writes to the wrong checkpoints.  The        *)
(* properties below hold as long as the queue is intact.                    *)
Intact == queue.len > 0 => Start(queue) = 0

(* relay_deposit / take_pending_*: every relayed deposit is in exactly one  *)
(* place: waiting as a transfer of one retained checkpoint, paid out, or    *)
(* sent to recovery.  So no deposit is paid twice, and none is lost when a  *)
(* checkpoint is pruned or when the end block clears the transfers.         *)
PendingOf(i) == {p.dep : p \in queue.cps[i].pending}
Paid         == {c.dep : c \in credited}
Recovered    == {r.dep : r \in recovery}

DepositInOnePlace ==
    /\ processed = Paid \cup Recovered \cup UNION {PendingOf(i) : i \in Retained(queue)}
    /\ Paid \cap Recovered = {}
    /\ \A i \in Retained(queue) :
        /\ PendingOf(i) \cap (Paid \cup Recovered) = {}
        /\ \A j \in Retained(queue) \ {i} : PendingOf(i) \cap PendingOf(j) = {}
        /\ \A p1, p2 \in queue.cps[i].pending : p1.dep = p2.dep => p1 = p2
    /\ \A c1, c2 \in credited : c1.dep = c2.dep => c1 = c2

(* take_pending_completed: a push happens only in a block that has paid the *)
(* transfers of every completed checkpoint, so only the checkpoint being    *)
(* built, the one being signed and the one completed last hold transfers.   *)
NothingStranded ==
    \A i \in Retained(queue) : i < queue.index - 1 => queue.cps[i].pending = {}

(* prune, in the end block that prunes first, must find the queue as the    *)
(* handlers left it: the index arithmetic, the state machine and the        *)
(* whereabouts of deposits are right until then, whenever it happens.       *)
UntilPruned ==
    Intact => QueueShape /\ ConfirmedIsCompleted /\ NothingStranded /\ DepositInOnePlace

(* BuildingCheckpoint::advance / maybe_step: the transactions form a chain. *)
(* Every checkpoint but the first spends, as its first input, exactly the   *)
(* reserve output of the one before it.                                     *)
ReserveChain ==
    \A i \in Retained(queue) : i - 1 \in Retained(queue) =>
        /\ Len(queue.cps[i].inputs) >= 1
        /\ queue.cps[i].inputs[1].prevout = ReserveOutpoint(i - 1)
        /\ queue.cps[i].inputs[1].amount = queue.cps[i - 1].outputs[1].value
        /\ queue.cps[i].inputs[1].signatories = queue.cps[i - 1].signatories
        /\ queue.cps[i - 1].outputs[1].to = <<"reserve">>

(* No output is spent by two checkpoints, and no withdrawal is paid by two, *)
(* also when inputs and outputs over the limits move to the next one.       *)
Spends(i) == {queue.cps[i].inputs[k].prevout : k \in DOMAIN queue.cps[i].inputs}
Pays(i)   == {queue.cps[i].outputs[k].to : k \in DOMAIN queue.cps[i].outputs}

NoDoubleSpend ==
    \A i \in Retained(queue) :
        /\ Cardinality(Spends(i)) = Len(queue.cps[i].inputs)
        /\ Cardinality(Pays(i)) = Len(queue.cps[i].outputs)
        /\ \A j \in Retained(queue) \ {i} :
            /\ Spends(i) \cap Spends(j) = {}
            /\ Pays(i) \cap Pays(j) \subseteq {<<"reserve">>, <<"timestamp">>}

(* The bridge is backed.  What the reserve will hold once the checkpoint    *)
(* being built is paid out is the nBTC in circulation, the transfers still  *)
(* to pay, and the fee pool, up to less than one satoshi per withdrawal     *)
(* (add_withdrawal rounds down to whole satoshis).                          *)
Backing == (TotalIn(Building(queue).inputs) - TotalOut(Building(queue).outputs)) * UnitsPerSat

Owed == supply + feePool + TransferAmount(queue, Retained(queue))

Backed ==
    queue.len > 0 =>
        Backing - Owed \in 0 .. (Cardinality(requested) * (UnitsPerSat - 1))

(* advance: "This step freezes the checkpoint, and no further changes can   *)
(* be made to it other than adding signatures".  A frozen checkpoint keeps  *)
(* its transaction, its signatures, its fee data; its transfers are only    *)
(* ever taken; it never goes back.                                          *)
FrozenStep ==
    \A i \in Retained(queue) \cap (Retained(queue)') :
        LET old == queue.cps[i]
            new == queue.cps'[i]
        IN  old.status # "Building" =>
                /\ new.inputs = old.inputs
                /\ new.outputs = old.outputs
                /\ new.signatories = old.signatories
                /\ new.createTime = old.createTime
                /\ new.feesCollected = old.feesCollected
                /\ old.sigs \subseteq new.sigs
                /\ new.pending \in {old.pending, {}}
                /\ old.status = "Complete" => new.status = "Complete"
                                              /\ new.signedAt = old.signedAt
                /\ new.status # "Building"

Frozen == [][FrozenStep]_vars

(* relay_deposit: "The deposit's committed destination will be credited     *)
(* once the checkpoint is fully signed."  A step that pays a transfer takes *)
(* it from a checkpoint that is fully signed.                               *)
PaidFromSigned ==
    [][\A c \in credited' \ credited :
        \E i \in Retained(queue) :
            /\ c \in queue.cps[i].pending
            /\ TxSigned(queue.cps[i].inputs, queue.cps[i].sigs)]_vars

(* base_fee / advance: whatever was moved to the next checkpoint, the       *)
(* frozen transaction pays its miners at least its fee rate for each unit   *)
(* of its size.                                                             *)
FrozenVsize(cp) ==
    TxVsize + InVsize * Len(cp.inputs) + OutVsize * Len(cp.outputs)
    + WitnessesVsize(cp.inputs)

FeeRatePaid ==
    \A i \in Retained(queue) :
        LET cp == queue.cps[i]
        IN  cp.status # "Building" => MinerFees(cp) >= cp.feeRate * FrozenVsize(cp)

(* should_push: "Don't push if [...] not enough has been collected to pay   *)
(* for the miner fee, unless the maximum checkpoint interval has elapsed".  *)
(* The fee is computed twice, before the push and again after the push and  *)
(* the prune: what the frozen transaction pays was collected by it.         *)
PushPaidByFees ==
    [][(queue'.index > queue.index /\ (Elapsed(queue) < MaxInterval \/ queue.index = 0))
        => MinerFees(queue'.cps[queue.index]) <= Building(queue).feesCollected]_vars

(* begin_block_step, "Called once per sidechain block to advance the        *)
(* checkpointing process": the end block returns no error (index out of     *)
(* bounds, insufficient reserve, a negative difference).  Signers choose    *)
(* the height they claim and should_push compares only the last completed   *)
(* checkpoint's, while maybe_step subtracts that of the first unconfirmed   *)
(* one.  Claimed while nothing is pruned and no reorganisation lowers the   *)
(* height.                                                                  *)
EndBlockSucceeds ==
    /\ TakeSucceeds(queue)
    /\ LET q == AfterTake(queue)
           p == Pushed(q, ~ReachedCapacity(q))
       IN  /\ ValueLockedSucceeds(q)
           /\ ShouldPushSucceeds(q)
           /\ ShouldPush(q) =>
                /\ Sigset # {}
                /\ \A i \in Retained(p) :
                      IsPrunedStart(p, i) => StepSucceeds(PrunedFrom(p, i))

-----------------------------------------------------------------------------
(* Liveness.  The chain runs the end-block hook in every block, and the     *)
(* signers' daemons submit the signatures a checkpoint waits for.           *)

Sign(s) ==
    \E i \in Retained(queue), h \in Heights : SubmitCheckpointSignature(s, i, h)

FairSpec ==
    /\ Spec
    /\ WF_vars(ClockEndBlock)
    /\ \A s \in Signers : WF_vars(Sign(s))

(* relay_deposit: "The deposit's committed destination will be credited     *)
(* once the checkpoint is fully signed."  Once its checkpoint is frozen, a  *)
(* deposit is eventually paid.                                              *)
FrozenIsPaid ==
    \A d \in Deposits :
        (\E i \in Retained(queue) : queue.cps[i].status # "Building" /\ d \in PendingOf(i))
            ~> d \in Paid
=============================================================================
