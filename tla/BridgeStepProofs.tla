--------------------------- MODULE BridgeStepProofs ----------------------------
(***************************************************************************)
(* What a single step may never do, until the first checkpoint is pruned: a *)
(* frozen checkpoint keeps its transaction, transfers are paid from signed  *)
(* checkpoints only, and a frozen checkpoint has collected what it pays.    *)
(* And what the signers are told before they sign (change_rates), and that  *)
(* the end block does not fail while the height of the header queue only    *)
(* grows.                                                                   *)
(***************************************************************************)
EXTENDS BridgeProofs, CircuitBreaker

-----------------------------------------------------------------------------
(* Signatures.                                                              *)

(* The power of more signatories is not smaller.                            *)
LEMMA PowerGrows ==
    ASSUME NEW S, S \subseteq Signers, NEW U, U \subseteq S
    PROVE  /\ TotalPower(U) \in Nat /\ TotalPower(S) \in Nat
           /\ TotalPower(U) <= TotalPower(S)
<1>1. IsFiniteSet(S) /\ IsFiniteSet(U) /\ \A s \in S : Power[s] \in Nat
  BY FundsAssumption, FS_Subset
<1>2. ASSUME NEW V, V \subseteq S
      PROVE  TotalPower(V) = SumFunctionOnSet(Power, V)
  <2> DEFINE f == [s \in V |-> Power[s]]
  <2>1. IsFiniteSet(V)
    BY <1>1, <1>2, FS_Subset
  <2>2. TotalPower(V) = SumFunctionOnSet(f, V)
    BY DEF TotalPower, SumFunction
  <2>3. \A s \in V : f[s] = Power[s]
    OBVIOUS
  <2> HIDE DEF f
  <2>4. SumFunctionOnSet(f, V) = SumFunctionOnSet(Power, V)
    BY <2>1, <2>3, SumSame
  <2> QED BY <2>2, <2>4
<1>3. TotalPower(U) = SumFunctionOnSet(Power, U) /\ TotalPower(S) = SumFunctionOnSet(Power, S)
  BY <1>2
<1>4. SumFunctionOnSet(Power, U) \in Nat /\ SumFunctionOnSet(Power, S) \in Nat
  BY <1>1, SumNat
<1>5. SumFunctionOnSet(Power, U) <= SumFunctionOnSet(Power, S)
  BY <1>1, SumMonotone
<1> QED BY <1>3, <1>4, <1>5

(* A signed transaction stays signed when signatures are added.             *)
LEMMA StaysSigned ==
    ASSUME NEW ins \in Seq(Input), NEW A, NEW B, A \subseteq B, TxSigned(ins, A)
    PROVE  TxSigned(ins, B)
<1> SUFFICES ASSUME NEW k \in DOMAIN ins PROVE InputSigned(ins[k], B)
  BY DEF TxSigned
<1>1. ins[k] \in Input
  BY ElementOfSeq
<1> DEFINE S == ins[k].signatories
<1>2. S \subseteq Signers
  BY <1>1 DEF Input
<1>3. InputSigned(ins[k], A)
  BY DEF TxSigned
<1>4. S \cap A \subseteq S \cap B /\ S \cap B \subseteq Signers
  BY <1>2
<1>5. /\ TotalPower(S \cap A) \in Nat /\ TotalPower(S \cap B) \in Nat
      /\ TotalPower(S \cap A) <= TotalPower(S \cap B)
  BY <1>4, PowerGrows
<1>6. SignatureThreshold(S) \in Int
  <2>1. TotalPower(S) \in Nat
    BY <1>2, PowerGrows
  <2> QED BY <2>1 DEF SignatureThreshold
<1>7. TotalPower(S \cap A) > SignatureThreshold(S)
  BY <1>3 DEF InputSigned
<1> HIDE DEF S
<1>8. TotalPower(S \cap B) > SignatureThreshold(S)
  BY <1>5, <1>6, <1>7
<1> QED BY <1>8 DEF InputSigned, S

(* A complete checkpoint is signed.                                         *)
SignedOK(cp) == cp.status = "Complete" => TxSigned(cp.inputs, cp.sigs)

(* A frozen one has the output with the timestamp.                          *)
StampedOK(cp) == cp.status # "Building" => cp.outputs[2] = TimestampOutput

CompleteSigned(q) == \A i \in Retained(q) : SignedOK(q.cps[i])

-----------------------------------------------------------------------------
(* What a step may do to a checkpoint.                                      *)

KeptFrozen(new, old) ==
    old.status # "Building" =>
        /\ new.inputs = old.inputs
        /\ new.outputs = old.outputs
        /\ new.signatories = old.signatories
        /\ new.createTime = old.createTime
        /\ new.feesCollected = old.feesCollected
        /\ old.sigs \subseteq new.sigs
        /\ new.pending \in {old.pending, {}}
        /\ old.status = "Complete" => new.status = "Complete"
                                      /\ new.signedAt = old.signedAt
        /\ new.status # "Building"

Follows(new, old) ==
    /\ KeptFrozen(new, old)
    /\ SignedOK(old) => SignedOK(new)
    /\ StampedOK(old) => StampedOK(new)
    /\ new.createTime = old.createTime

(* ... and to the queue: a checkpoint that was not there is being built, on *)
(* top of one that is old enough.                                           *)
IsNew(t, q, i) ==
    /\ t.cps[i].status = "Building" /\ t.cps[i].createTime = now
    /\ i = t.index
    /\ i > 0 => /\ i - 1 = q.index /\ i - 1 \in Retained(q)
                /\ now - q.cps[i - 1].createTime >= MinInterval

QueueFollows(t, q) ==
    /\ \A i \in Retained(q) \cap Retained(t) : Follows(t.cps[i], q.cps[i])
    /\ \A i \in Retained(t) \ Retained(q) : IsNew(t, q, i)

(* A queue that follows keeps what is frozen, and completes what is signed. *)
LEMMA FollowsParts ==
    ASSUME QueueFollows(queue', queue)
    PROVE  FrozenStep /\ (CompleteSigned(queue) => CompleteSigned(queue'))
<1>1. Retained(queue)' = Retained(queue')
  BY DEF Retained, Start
<1>2. FrozenStep
  BY <1>1 DEF FrozenStep, QueueFollows, Follows, KeptFrozen
<1>3. ASSUME CompleteSigned(queue), NEW i \in Retained(queue') PROVE SignedOK(queue'.cps[i])
  BY <1>3 DEF CompleteSigned, QueueFollows, Follows, IsNew, SignedOK
<1> QED BY <1>2, <1>3 DEF CompleteSigned

(* An unchanged checkpoint follows itself.                                  *)
LEMMA FollowsItself ==
    ASSUME NEW cp
    PROVE  Follows(cp, cp)
  BY DEF Follows, KeptFrozen

(* So does one that is still being built.                                   *)
LEMMA FollowsBuilding ==
    ASSUME NEW new, NEW old, old.status = "Building", new.status # "Complete",
           StampedOK(new), new.createTime = old.createTime
    PROVE  Follows(new, old)
  BY DEF Follows, KeptFrozen, SignedOK

(* So does one whose transfers were taken.                                  *)
LEMMA FollowsUntaken ==
    ASSUME NEW new, NEW old, Untaken(new, old), new.pending \in {old.pending, {}}
    PROVE  Follows(new, old)
  BY DEF Follows, KeptFrozen, SignedOK, StampedOK, Untaken

(* The checkpoint being built, built on.                                    *)
LEMMA RebuiltFollows ==
    ASSUME NEW t, NEW q, NEW cp, Rebuilt(t, q, cp), cp.createTime = q.cps[q.index].createTime
    PROVE  QueueFollows(t, q)
<1>1. ASSUME NEW i \in Retained(q) PROVE Follows(t.cps[i], q.cps[i])
  <2>1. CASE i = q.index
    BY <2>1, FollowsBuilding DEF Rebuilt, StampedOK
  <2>2. CASE i # q.index
    <3>1. t.cps[i] = q.cps[i]
      BY <2>2 DEF Rebuilt
    <3> QED BY <3>1, FollowsItself
  <2> QED BY <2>1, <2>2
<1> QED BY <1>1 DEF QueueFollows, Rebuilt

(* relay_deposit and withdraw_to_bitcoin.                                   *)
LEMMA MessageFollows ==
    ASSUME Whole, TInv', queue.len > 0, NEW units, NEW q, q = GiveMinerFee(queue, units),
           NEW cp, cp.status = "Building", cp.createTime = Building(q).createTime,
           queue' = SetBuilding(q, cp)
    PROVE  QueueFollows(queue', queue)
<1>1. queue' = SetCheckpoint(queue, queue.index, cp)
  <2>1. queue' = SetCheckpoint(q, q.index, cp)
    BY DEF SetBuilding
  <2> QED BY <2>1, GiveMinerFeeFields
<1>2. Rebuilt(queue', queue, cp)
  BY <1>1, SetBuildingFunds
<1>3. cp.createTime = queue.cps[queue.index].createTime
  <2>1. Building(q) = WithFee(queue.cps[queue.index], units)
        /\ DOMAIN Building(q) = CheckpointFields
    BY GiveMinerFeeFields
  <2> QED BY <2>1 DEF WithFee, CheckpointFields
<1> QED BY <1>2, <1>3, RebuiltFollows

(* relay_deposit, in time.                                                  *)
LEMMA RelayDepositFollows ==
    ASSUME Whole, TInv', NEW d \in Deposits, NEW i \in Retained(queue), NEW h,
           RelayDeposit(d, i, h)
    PROVE  QueueFollows(queue', queue)
<1> DEFINE to   == queue.cps[i]
           fee  == UserFee(InputVsize(to.signatories), to.feeRate) * UnitsPerSat
           q    == GiveMinerFee(queue, fee)
           new  == [Building(q) EXCEPT
                !.inputs  = Append(@, NewInput(DepositOutpoint(d), to.signatories,
                                               DepositValue[d])),
                !.pending = @ \cup {[dep |-> d, amount |-> DepositValue[d] * UnitsPerSat - fee]}]
<1>1. queue' = SetBuilding(q, new)
  BY DEF RelayDeposit
<1>2. queue.len > 0
  BY WholeParts DEF QueueOK, Retained, Start
<1>3. DOMAIN Building(q) = CheckpointFields /\ Building(q).status = "Building"
  BY <1>2, GiveMinerFeeFields
<1> HIDE DEF q, fee, to
<1>4. new.status = "Building" /\ new.createTime = Building(q).createTime
  BY <1>3 DEF CheckpointFields
<1> HIDE DEF new
<1>5. q = GiveMinerFee(queue, fee)
  BY DEF q
<1> QED BY <1>1, <1>2, <1>4, <1>5, MessageFollows

(* withdraw_to_bitcoin                                                      *)
LEMMA WithdrawFollows ==
    ASSUME Whole, TInv', NEW w \in Withdrawals, WithdrawToBitcoin(w)
    PROVE  QueueFollows(queue', queue)
<1> DEFINE fee   == UserFee(OutVsize, Building(queue).feeRate) * UnitsPerSat
           value == (WithdrawalAmount[w] - fee) \div UnitsPerSat
           q     == GiveMinerFee(queue, fee)
           new   == [Building(q) EXCEPT !.outputs = Append(@, WithdrawalOutput(w, value))]
<1>1. queue' = SetBuilding(q, new) /\ queue.len > 0
  BY DEF WithdrawToBitcoin
<1>3. DOMAIN Building(q) = CheckpointFields /\ Building(q).status = "Building"
  BY <1>1, GiveMinerFeeFields
<1> HIDE DEF q, fee, value
<1>4. new.status = "Building" /\ new.createTime = Building(q).createTime
  BY <1>3 DEF CheckpointFields
<1> HIDE DEF new
<1>5. q = GiveMinerFee(queue, fee)
  BY DEF q
<1> QED BY <1>1, <1>4, <1>5, MessageFollows


(* submit_checkpoint_signature: a signature is added, and the height is     *)
(* recorded, and the checkpoint completed, when it is the one that was      *)
(* missing.                                                                 *)
LEMMA SignatureFollows ==
    ASSUME Whole, FundsInv, CompleteSigned(queue), NEW s \in Signers,
           NEW i \in Retained(queue), NEW h, SubmitCheckpointSignature(s, i, h)
    PROVE  QueueFollows(queue', queue)
<1> DEFINE cp  == queue.cps[i]
           at  == IF BecomesSigned(cp, s) THEN h ELSE cp.signedAt
           st  == IF cp.status = "Signing" /\ TxSigned(cp.inputs, cp.sigs \cup {s})
                  THEN "Complete" ELSE cp.status
           new == [cp EXCEPT !.sigs = cp.sigs \cup {s}, !.signedAt = at, !.status = st]
<1>1. cp.status # "Building"
  BY DEF SubmitCheckpointSignature
<1>2. QueueOK(queue, now) /\ (queue.len > 0 => Start(queue) = 0) /\ TxsOK(queue)
  BY WholeParts DEF FundsInv
<1>3. CheckpointOK(cp, now) /\ TxOK(cp) /\ SignedOK(cp)
  BY <1>2 DEF QueueOK, TxsOK, CompleteSigned
<1>4. DOMAIN cp = CheckpointFields /\ cp.status \in Statuses
  BY <1>3 DEF CheckpointOK
<1>5. queue' = SetCheckpoint(queue, i, new)
  <2>1. queue' = SetCheckpoint(queue, i,
                [cp EXCEPT !.sigs = cp.sigs \cup {s},
                           !.signedAt = IF BecomesSigned(cp, s) THEN h ELSE @,
                           !.status = IF @ = "Signing" /\ TxSigned(cp.inputs, cp.sigs \cup {s})
                                      THEN "Complete" ELSE @])
    BY DEF SubmitCheckpointSignature
  <2> QED BY <1>4, <2>1 DEF CheckpointFields
<1>6. /\ st # "Building"
      /\ cp.status = "Complete" => st = "Complete" /\ at = cp.signedAt
      /\ st = "Complete" => TxSigned(cp.inputs, cp.sigs \cup {s})
  <2>1. cp.inputs \in Seq(Input)
    BY <1>3 DEF TxOK
  <2>2. cp.status = "Complete" => /\ TxSigned(cp.inputs, cp.sigs)
                                  /\ TxSigned(cp.inputs, cp.sigs \cup {s})
    BY <1>3, <2>1, StaysSigned DEF SignedOK
  <2>3. cp.status = "Complete" => ~BecomesSigned(cp, s)
    BY <2>2 DEF BecomesSigned
  <2> QED BY <1>1, <1>4, <2>2, <2>3 DEF Statuses
<1> HIDE DEF cp, at, st
<1>7. /\ new.status = st /\ new.pending = cp.pending /\ new.signedAt = at
      /\ new.inputs = cp.inputs /\ new.outputs = cp.outputs
      /\ new.signatories = cp.signatories /\ new.createTime = cp.createTime
      /\ new.feesCollected = cp.feesCollected /\ new.sigs = cp.sigs \cup {s}
  BY <1>4 DEF CheckpointFields
<1> HIDE DEF new
<1>8. Follows(new, cp)
  <2>1. KeptFrozen(new, cp)
    BY <1>6, <1>7 DEF KeptFrozen
  <2>2. SignedOK(new)
    BY <1>6, <1>7 DEF SignedOK
  <2>3. StampedOK(cp) => StampedOK(new)
    BY <1>1, <1>7 DEF StampedOK, cp
  <2> QED BY <1>7, <2>1, <2>2, <2>3 DEF Follows
<1>9. Start(queue) = 0 /\ DOMAIN queue.cps = Retained(queue)
  BY <1>2 DEF QueueOK, Retained, Start
<1>10. /\ Retained(queue') = Retained(queue)
       /\ queue'.cps[i] = new
       /\ \A j \in Retained(queue) : j # i => queue'.cps[j] = queue.cps[j]
  BY <1>5, <1>9, SetFields
<1>11. ASSUME NEW j \in Retained(queue) PROVE Follows(queue'.cps[j], queue.cps[j])
  <2>1. CASE j = i
    BY <1>8, <1>10, <2>1 DEF cp
  <2>2. CASE j # i
    <3>1. queue'.cps[j] = queue.cps[j]
      BY <1>10, <2>2
    <3> QED BY <3>1, FollowsItself
  <2> QED BY <2>1, <2>2
<1> QED BY <1>10, <1>11 DEF QueueFollows

(* take_pending_completed                                                   *)
LEMMA TakeFollows ==
    ASSUME Whole, TInv, TakeSucceeds(queue), NEW q, q = AfterTake(queue)
    PROVE  /\ Retained(q) = Retained(queue)
           /\ \A j \in Retained(queue) : Follows(q.cps[j], queue.cps[j])
<1>1. /\ Retained(q) = Retained(queue)
      /\ \A j \in Retained(queue) : Untaken(q.cps[j], queue.cps[j])
      /\ \A j \in Retained(queue) :
           q.cps[j].pending = IF j \in TakenFrom(queue) THEN {} ELSE queue.cps[j].pending
  BY AfterTakeFields
<1>2. ASSUME NEW j \in Retained(queue) PROVE Follows(q.cps[j], queue.cps[j])
  <2>1. Untaken(q.cps[j], queue.cps[j]) /\ q.cps[j].pending \in {queue.cps[j].pending, {}}
    BY <1>1
  <2> QED BY <2>1, FollowsUntaken
<1> QED BY <1>1, <1>2

(* clock_end_block without a push.                                          *)
LEMMA QuietFollows ==
    ASSUME Whole, TInv, EndBlockQuiet
    PROVE  QueueFollows(queue', queue)
<1>1. TakeSucceeds(queue) /\ queue' = AfterTake(queue)
  BY DEF EndBlockQuiet, TakePendingCompleted
<1> QED BY <1>1, TakeFollows DEF QueueFollows

(* clock_end_block with a push.                                             *)
LEMMA PushFollows ==
    ASSUME TInv, NEW q, NEW b, NEW r, PushStep(q, b, r)
    PROVE  QueueFollows(queue', queue)
<1>1. /\ Whole /\ TakeSucceeds(queue) /\ q = AfterTake(queue)
      /\ PushedFunds(queue', q, FeesPaid(r)) /\ Shape(q)
      /\ QueueOK(q, now) /\ (q.len > 0 => Start(q) = 0) /\ MayPush(q)
  BY DEF PushStep, ShouldPush
<1>2. /\ Retained(q) = Retained(queue)
      /\ \A j \in Retained(queue) : Follows(q.cps[j], queue.cps[j])
      /\ \A j \in Retained(queue) : Untaken(q.cps[j], queue.cps[j])
  BY <1>1, TakeFollows, AfterTakeFields
<1> DEFINE t == queue'
           n == t.index
<1>3. /\ n \in Nat /\ Retained(t) = 0 .. n /\ Retained(q) = 0 .. (n - 1)
      /\ n > 0 => q.index = n - 1
      /\ \A j \in 0 .. (n - 2) : t.cps[j] = q.cps[j]
      /\ t.cps[n].status = "Building"
      /\ t.cps[n].createTime = now
      /\ n > 0 => /\ t.cps[n - 1].status = "Signing"
                  /\ t.cps[n - 1].createTime = q.cps[n - 1].createTime
                  /\ t.cps[n - 1].outputs[2] = TimestampOutput
  BY <1>1 DEF PushedFunds, AdvancedOK
<1> HIDE DEF t, n
<1>4. ASSUME NEW j \in Retained(queue) PROVE Follows(t.cps[j], queue.cps[j])
  <2>1. j \in 0 .. (n - 1) /\ n > 0
    BY <1>2, <1>3
  <2>2. CASE j = n - 1
    <3>1. q.cps[j].status = "Building"
      BY <1>1, <1>2, <1>3, <2>1, <2>2 DEF Shape
    <3>2. queue.cps[j].status = "Building" /\ q.cps[j].createTime = queue.cps[j].createTime
      BY <1>2, <3>1 DEF Untaken
    <3>3. t.cps[j].status = "Signing" /\ t.cps[j].createTime = queue.cps[j].createTime
          /\ StampedOK(t.cps[j])
      BY <1>3, <2>1, <2>2, <3>2 DEF StampedOK
    <3> QED BY <3>2, <3>3, FollowsBuilding
  <2>3. CASE j # n - 1
    <3>1. j \in 0 .. (n - 2)
      BY <1>3, <2>1, <2>3
    <3>2. t.cps[j] = q.cps[j]
      BY <1>3, <3>1
    <3> QED BY <1>2, <3>2
  <2> QED BY <2>2, <2>3
<1>5. ASSUME NEW j \in Retained(t) \ Retained(queue) PROVE IsNew(t, queue, j)
  <2>1. j = n /\ j = t.index
    BY <1>2, <1>3, <1>5 DEF n
  <2>2. ASSUME n > 0 PROVE /\ n - 1 = queue.index /\ n - 1 \in Retained(queue)
                           /\ now - queue.cps[n - 1].createTime >= MinInterval
    <3>1. n - 1 \in 0 .. (n - 1) /\ n - 1 \in Retained(queue) /\ q.index = n - 1
      BY <1>2, <1>3, <2>2
    <3>2. queue.index = n - 1
      BY <1>1, <3>1, TakeLength
    <3>3. q.len > 0
      <4>1. q.index \in Nat /\ q.len \in 0 .. (q.index + 1) /\ q.index \in Retained(q)
        BY <1>1, <1>2, <3>1 DEF QueueOK
      <4> QED BY <4>1 DEF Retained, Start
    <3>4. now - q.cps[n - 1].createTime >= MinInterval
      BY <1>1, <3>1, <3>3 DEF MayPush, Elapsed, Building
    <3>5. q.cps[n - 1].createTime = queue.cps[n - 1].createTime
      BY <1>2, <3>1 DEF Untaken
    <3> QED BY <3>1, <3>2, <3>4, <3>5
  <2> QED BY <1>3, <2>1, <2>2 DEF IsNew
<1>6. QueueFollows(t, queue)
  BY <1>4, <1>5 DEF QueueFollows
<1> QED BY <1>6 DEF t


-----------------------------------------------------------------------------
(* The inductive invariant: a complete checkpoint is signed.                *)
SInv == FInv /\ (Intact => CompleteSigned(queue))

(* An unchanged queue follows itself.                                       *)
LEMMA SameFollows ==
    ASSUME queue' = queue
    PROVE  QueueFollows(queue', queue)
  BY FollowsItself DEF QueueFollows

(* A step to an intact queue starts from an intact one, and does to its     *)
(* checkpoints only what it may.                                            *)
LEMMA NextFollows ==
    ASSUME SInv, [Next]_vars, Intact'
    PROVE  Intact /\ QueueFollows(queue', queue)
<1>1. TInv /\ TInv' /\ (Intact => Whole /\ FundsInv /\ CompleteSigned(queue))
  BY NextIInv DEF SInv, FInv, IInv
<1>2. ASSUME queue'.index = queue.index, queue'.len = queue.len
      PROVE  Intact /\ Whole /\ FundsInv /\ CompleteSigned(queue)
  BY <1>1, <1>2, IntactBefore
<1>3. ASSUME NEW d \in Deposits, NEW i \in Retained(queue), NEW h \in 0 .. height,
             RelayDeposit(d, i, h)
      PROVE  Intact /\ QueueFollows(queue', queue)
  <2>1. \E units, cp : queue' = SetBuilding(GiveMinerFee(queue, units), cp)
    BY <1>3 DEF RelayDeposit
  <2>2. Intact /\ Whole
    BY <1>2, <2>1, GiveMinerFeeLength
  <2> QED BY <1>1, <1>3, <2>2, RelayDepositFollows
<1>4. ASSUME NEW w \in Withdrawals, WithdrawToBitcoin(w)
      PROVE  Intact /\ QueueFollows(queue', queue)
  <2>1. \E units, cp : queue' = SetBuilding(GiveMinerFee(queue, units), cp)
    BY <1>4 DEF WithdrawToBitcoin
  <2>2. Intact /\ Whole
    BY <1>2, <2>1, GiveMinerFeeLength
  <2> QED BY <1>1, <1>4, <2>2, WithdrawFollows
<1>5. ASSUME NEW s \in Signers, NEW i \in Retained(queue), NEW h \in Heights,
             SubmitCheckpointSignature(s, i, h)
      PROVE  Intact /\ QueueFollows(queue', queue)
  <2>1. queue'.index = queue.index /\ queue'.len = queue.len
    BY <1>5, SetLength DEF SubmitCheckpointSignature
  <2> QED BY <1>2, <1>5, <2>1, SignatureFollows
<1>6. CASE EndBlockQuiet
  <2>1. queue'.index = queue.index /\ queue'.len = queue.len
    BY <1>6, TakeLength DEF EndBlockQuiet
  <2> QED BY <1>1, <1>2, <1>6, <2>1, QuietFollows
<1>7. CASE EndBlockPush
  <2>1. PICK q, b, r : PushStep(q, b, r)
    BY <1>1, <1>7, PushParts
  <2>2. Intact
    BY <2>1 DEF PushStep, Whole
  <2> QED BY <1>1, <2>1, <2>2, PushFollows
<1>8. ASSUME queue' = queue PROVE Intact /\ QueueFollows(queue', queue)
  BY <1>2, <1>8, SameFollows
<1>9. ASSUME \/ \E d \in Deposits, i \in Retained(queue), h \in 0 .. height :
                    RelayExpiredDeposit(d, i, h)
             \/ \E i \in Retained(queue), h \in 0 .. height : RelayCheckpoint(i, h)
             \/ \E S \in SUBSET Signers : AddValidators(S)
             \/ \E s \in Signers : SetSignatoryKey(s)
             \/ Tick \/ MineBlock \/ Reorg \/ UNCHANGED vars
      PROVE  Intact /\ QueueFollows(queue', queue)
  <2>1. queue' = queue
    BY <1>9
       DEF RelayExpiredDeposit, RelayCheckpoint, AddValidators, SetSignatoryKey, Tick,
           MineBlock, Reorg, vars, contractVars
  <2> QED BY <1>8, <2>1
<1> QED BY <1>3, <1>4, <1>5, <1>6, <1>7, <1>9 DEF Next, ClockEndBlock

(* Nothing is complete in the state that instantiate leaves.                *)
LEMMA InitSInv == Init => SInv
<1> SUFFICES ASSUME Init PROVE SInv
  OBVIOUS
<1>1. Retained(queue) = {}
  BY DEF Init, Retained, Start
<1> QED BY <1>1, InitFInv DEF SInv, CompleteSigned

(* Every step keeps the invariant.                                          *)
LEMMA NextSInv == SInv /\ [Next]_vars => SInv'
<1> SUFFICES ASSUME SInv, [Next]_vars PROVE SInv'
  OBVIOUS
<1>1. FInv'
  BY NextFInv DEF SInv
<1>2. ASSUME Intact' PROVE CompleteSigned(queue')
  <2>1. Intact /\ QueueFollows(queue', queue)
    BY <1>2, NextFollows
  <2> QED BY <2>1, FollowsParts DEF SInv
<1> QED BY <1>1, <1>2 DEF SInv, CompleteSigned

(* Every reachable queue that lost nothing yet holds the signatures of its  *)
(* complete checkpoints.                                                    *)
THEOREM SignedInvariantHolds == Spec => []SInv
  BY InitSInv, NextSInv, PTL DEF Spec

(* Until the first checkpoint is pruned, no step of any handler changes the *)
(* transaction, the fee data or the creation time of a frozen checkpoint,   *)
(* drops a signature of it, moves the height at which it was completed, or  *)
(* takes it back (BuildingCheckpoint::advance, Checkpoint::sign).           *)
THEOREM FrozenStaysFrozen == Spec /\ []Intact => Frozen
<1>1. SInv /\ Intact' /\ [Next]_vars => [FrozenStep]_vars
  BY NextFollows, FollowsParts
<1> QED BY <1>1, SignedInvariantHolds, PTL DEF Spec, Frozen


-----------------------------------------------------------------------------
(* Transfers.                                                               *)

(* A step that pays a transfer takes it from a signed checkpoint.           *)
PaidStep ==
    \A c \in credited' \ credited :
        \E i \in Retained(queue) :
            /\ c \in queue.cps[i].pending
            /\ TxSigned(queue.cps[i].inputs, queue.cps[i].sigs)

(* The checkpoints whose transfers the end block takes are complete.        *)
LEMMA TakenIsComplete ==
    ASSUME Whole, TakeSucceeds(queue), NEW j \in TakenFrom(queue)
    PROVE  j \in Retained(queue) /\ queue.cps[j].status = "Complete"
<1>1. /\ QueueOK(queue, now) /\ RestOK /\ Shape(queue) /\ ConfirmedIsCompleted
  BY WholeParts
<1>2. j \in Retained(queue)
  BY TakenRange
<1>3. /\ LastCompleted(queue) \in Int
      /\ queue.cps[j].status = "Complete" <=> j <= LastCompleted(queue)
  BY <1>1, <1>2, CompletedRange
<1>4. CASE j \in UnhandledConfirmed(queue)
  <2>1. j \in firstUnhandled .. confirmed /\ confirmed # None
    BY <1>4 DEF UnhandledConfirmed
  <2>2. confirmed \in Nat /\ firstUnhandled \in Nat /\ confirmed <= LastCompleted(queue)
    BY <1>1, <2>1 DEF RestOK, ConfirmedIsCompleted
  <2> QED BY <1>2, <1>3, <2>1, <2>2
<1>5. CASE j \in UnconfirmedCompleted(queue)
  <2>1. confirmed \in Int
    BY <1>1 DEF RestOK, None
  <2>2. j <= LastCompleted(queue)
    BY <1>3, <1>5, <2>1 DEF UnconfirmedCompleted, None
  <2> QED BY <1>2, <1>3, <2>2
<1> QED BY <1>4, <1>5 DEF TakenFrom

(* clock_end_block pays from signed checkpoints.                            *)
LEMMA TakePaid ==
    ASSUME Whole, TInv, CompleteSigned(queue), TakePendingCompleted
    PROVE  PaidStep
<1> SUFFICES ASSUME NEW c \in credited' \ credited
             PROVE  \E i \in Retained(queue) :
                        /\ c \in queue.cps[i].pending
                        /\ TxSigned(queue.cps[i].inputs, queue.cps[i].sigs)
  BY DEF PaidStep
<1>1. TakeSucceeds(queue) /\ c \in TakenTransfers(queue)
  BY DEF TakePendingCompleted
<1>2. PICK j \in TakenFrom(queue) : c \in queue.cps[j].pending
  BY <1>1, AfterTakeFields
<1>3. j \in Retained(queue) /\ queue.cps[j].status = "Complete"
  BY <1>1, TakenIsComplete
<1>4. TxSigned(queue.cps[j].inputs, queue.cps[j].sigs)
  BY <1>3 DEF CompleteSigned, SignedOK
<1> QED BY <1>2, <1>3, <1>4

(* No other step pays a transfer.                                           *)
LEMMA NextPaid ==
    ASSUME SInv, Intact, [Next]_vars
    PROVE  PaidStep
<1>1. TInv /\ Whole /\ CompleteSigned(queue)
  BY DEF SInv, FInv, IInv
<1>2. CASE ClockEndBlock
  BY <1>1, <1>2, TakePaid DEF ClockEndBlock, EndBlockQuiet, EndBlockPush
<1>3. ASSUME credited' = credited PROVE PaidStep
  BY <1>3 DEF PaidStep
<1>4. CASE ~ClockEndBlock
  <2>1. credited' = credited
    BY <1>4
       DEF Next, RelayDeposit, RelayExpiredDeposit, WithdrawToBitcoin, RelayCheckpoint,
           SubmitCheckpointSignature, AddValidators, SetSignatoryKey, Tick, MineBlock,
           Reorg, vars, contractVars
  <2> QED BY <1>3, <2>1
<1> QED BY <1>2, <1>4

(* Until the first checkpoint is pruned, every transfer that an end block   *)
(* pays belonged to a checkpoint whose every input more than two thirds of  *)
(* the voting power had signed (relay_deposit's "will be credited once the  *)
(* checkpoint is fully signed").                                            *)
THEOREM TransfersPaidFromSigned == Spec /\ []Intact => PaidFromSigned
<1>1. SInv /\ Intact /\ [Next]_vars => [PaidStep]_vars
  BY NextPaid
<1> QED BY <1>1, SignedInvariantHolds, PTL DEF Spec, PaidFromSigned, PaidStep

-----------------------------------------------------------------------------
(* Fees.                                                                    *)

(* r is q with a checkpoint to build pushed behind it; nothing was being    *)
(* signed.                                                                  *)
PushedOnce(r, q, m) ==
    /\ m \in Nat /\ q.index = m /\ q.len = m + 1 /\ r.index = m + 1 /\ r.len = m + 2
    /\ \A j \in 0 .. m : r.cps[j] = q.cps[j]
    /\ q.cps[m].status = "Building"
    /\ confirmed \in Nat \cup {None}
    /\ confirmed # None => confirmed <= m - 1

(* The first checkpoint that is not confirmed.                              *)
FirstOpen == IF confirmed = None THEN 0 ELSE confirmed + 1

CompleteFrom(q, a, i) == \A j \in a .. i : q.cps[j].status = "Complete"

(* The unconfirmed checkpoints are the same before and after the push.      *)
LEMMA SameUnconfirmed ==
    ASSUME NEW r, NEW q, NEW m, PushedOnce(r, q, m), ~HasSigning(q)
    PROVE  Unconfirmed(r) = Unconfirmed(q) /\ Unconfirmed(q) \subseteq 0 .. m
<1> DEFINE F == FirstOpen
           U == {i \in F .. (m - 1) : CompleteFrom(q, F, i)}
<1> USE DEF PushedOnce
<1>1. F \in Nat /\ F <= m
  BY DEF FirstOpen, None
<1>2. SigningOffset(q) = 0
  BY DEF SigningOffset
<1>3. SigningOffset(r) = 0
  <2>1. r.cps[m].status = "Building" /\ r.index - 1 = m
    OBVIOUS
  <2> QED BY <2>1 DEF SigningOffset, HasSigning
<1>4. LastCompleted(q) = m - 1 /\ LastCompleted(r) = m
  BY <1>2, <1>3 DEF LastCompleted
<1>5. NumUnconfirmed(r) = m + 1 - F /\ FirstUnconfirmed(r) = F
  <2>1. HasCompleted(r)
    BY <1>4 DEF HasCompleted
  <2>2. NumUnconfirmed(r) = m + 1 - F
    <3>1. CASE confirmed = None
      BY <1>3, <2>1, <3>1 DEF NumUnconfirmed, FirstOpen
    <3>2. CASE confirmed # None
      BY <1>3, <1>4, <2>1, <3>2 DEF NumUnconfirmed, FirstOpen
    <3> QED BY <3>1, <3>2
  <2> QED BY <1>1, <1>3, <2>2 DEF FirstUnconfirmed
<1>6. NumUnconfirmed(q) = m - F /\ FirstUnconfirmed(q) = F
  <2>1. NumUnconfirmed(q) = m - F
    <3>1. CASE m = 0
      <4>1. confirmed = None
        BY <3>1 DEF None
      <4>2. ~HasCompleted(q)
        BY <1>4, <3>1 DEF HasCompleted
      <4> QED BY <3>1, <4>1, <4>2 DEF NumUnconfirmed, FirstOpen
    <3>2. CASE m # 0
      <4>1. HasCompleted(q)
        BY <1>4, <3>2 DEF HasCompleted
      <4>2. CASE confirmed = None
        BY <1>2, <4>1, <4>2 DEF NumUnconfirmed, FirstOpen
      <4>3. CASE confirmed # None
        BY <1>4, <4>1, <4>3 DEF NumUnconfirmed, FirstOpen
      <4> QED BY <4>2, <4>3
    <3> QED BY <3>1, <3>2
  <2> QED BY <1>1, <1>2, <2>1 DEF FirstUnconfirmed
<1> HIDE DEF F
<1>7. ASSUME NEW i \in Int, i >= m PROVE ~CompleteFrom(q, F, i) /\ ~CompleteFrom(r, F, i)
  <2>1. m \in F .. i /\ q.cps[m].status = "Building" /\ r.cps[m].status = "Building"
    BY <1>1, <1>7
  <2> QED BY <2>1 DEF CompleteFrom
<1>8. ASSUME NEW i \in Int, i < m PROVE CompleteFrom(q, F, i) <=> CompleteFrom(r, F, i)
  <2>1. \A j \in F .. i : r.cps[j] = q.cps[j]
    BY <1>1, <1>8
  <2> QED BY <2>1 DEF CompleteFrom
<1>9. Unconfirmed(q) = U
  <2>1. CASE F = m
    <3>1. U = {} /\ Unconfirmed(q) = {}
      BY <1>6, <2>1 DEF Unconfirmed
    <3> QED BY <3>1
  <2>2. CASE F # m
    <3>1. Unconfirmed(q) = {i \in F .. m : CompleteFrom(q, F, i)}
      BY <1>1, <1>6, <2>2 DEF Unconfirmed, CompleteFrom
    <3>2. \A i \in F .. m : CompleteFrom(q, F, i) => i \in F .. (m - 1)
      BY <1>1, <1>7
    <3>3. \A i \in F .. (m - 1) : i \in F .. m
      BY <1>1
    <3> QED BY <3>1, <3>2, <3>3
  <2> QED BY <2>1, <2>2
<1>10. Unconfirmed(r) = U
  <2>1. Unconfirmed(r) = {i \in F .. (m + 1) : CompleteFrom(r, F, i)}
    BY <1>1, <1>5 DEF Unconfirmed, CompleteFrom
  <2>2. \A i \in F .. (m + 1) : CompleteFrom(r, F, i) => i \in F .. (m - 1) /\ CompleteFrom(q, F, i)
    BY <1>1, <1>7, <1>8
  <2>3. \A i \in F .. (m - 1) : i \in F .. (m + 1) /\ (CompleteFrom(q, F, i) => CompleteFrom(r, F, i))
    BY <1>1, <1>8
  <2> QED BY <2>1, <2>2, <2>3
<1>11. U \subseteq 0 .. m
  BY <1>1
<1> QED BY <1>9, <1>10, <1>11


(* So the fee calculated after the push is the one should_push compared.    *)
LEMMA SameFee ==
    ASSUME NEW r, NEW q, NEW m, PushedOnce(r, q, m), ~HasSigning(q)
    PROVE  CalcFee(r, m) = CalcFee(q, m)
<1>1. Unconfirmed(r) = Unconfirmed(q) /\ Unconfirmed(q) \subseteq 0 .. m
  BY SameUnconfirmed
<1>2. \A j \in 0 .. m : r.cps[j] = q.cps[j]
  BY DEF PushedOnce
<1>3. r.cps[m] = q.cps[m]
  BY <1>2 DEF PushedOnce
<1>4. /\ [i \in Unconfirmed(r) |-> EstVsize(r.cps[i])]
           = [i \in Unconfirmed(q) |-> EstVsize(q.cps[i])]
      /\ [i \in Unconfirmed(r) |-> MinerFees(r.cps[i])]
           = [i \in Unconfirmed(q) |-> MinerFees(q.cps[i])]
  BY <1>1, <1>2
<1>5. \A rate : FeeAdjustment(r, rate) = FeeAdjustment(q, rate)
  BY <1>4 DEF FeeAdjustment
<1> QED BY <1>3, <1>5 DEF CalcFee

(* What the frozen transaction pays, unless the maximum interval has passed.*)
PushPaidStep ==
    (queue'.index > queue.index /\ (Elapsed(queue) < MaxInterval \/ queue.index = 0))
        => MinerFees(queue'.cps[queue.index]) <= Building(queue).feesCollected

(* clock_end_block with a push: the frozen transaction pays the fee that    *)
(* should_push compared with what the checkpoint had collected.             *)
LEMMA PushPays ==
    ASSUME TInv, NEW q, NEW b, NEW r, PushStep(q, b, r)
    PROVE  PushPaidStep
<1> SUFFICES ASSUME queue'.index > queue.index,
                    Elapsed(queue) < MaxInterval \/ queue.index = 0
             PROVE  MinerFees(queue'.cps[queue.index]) <= Building(queue).feesCollected
  BY DEF PushPaidStep
<1>1. /\ Whole /\ TakeSucceeds(queue) /\ q = AfterTake(queue) /\ QueueOK(q, now) /\ RestOK
      /\ Shape(q) /\ (q.len > 0 => Start(q) = 0) /\ ShouldPush(q)
      /\ b \in BOOLEAN /\ r = PrunedFrom(Pushed(q, b), 0) /\ queue' = Stepped(r)
      /\ TxsOK(q) /\ PushedFunds(queue', q, FeesPaid(r))
  BY DEF PushStep
<1> DEFINE m == q.index
           p == Pushed(q, b)
<1>2. /\ m = queue.index /\ q.len = queue.len /\ Retained(q) = Retained(queue)
      /\ \A j \in Retained(queue) : Untaken(q.cps[j], queue.cps[j])
  BY <1>1, AfterTakeFields
<1>3. /\ p.index = NextIndex(q) /\ p.index \in Nat
      /\ p.index > 0 => p.index - 1 = q.index /\ q.len > 0
      /\ Start(p) = 0
      /\ Retained(q) = 0 .. (p.index - 1)
      /\ \A j \in Retained(q) : p.cps[j] = q.cps[j]
  BY <1>1, PushedFields
<1>4. QueueOK(p, now)
  BY <1>1, PushedType
<1>5. p = Pushed(q, b)
  OBVIOUS
<1> HIDE DEF p
<1>6. 0 \in Retained(p)
  BY <1>3 DEF Retained
<1>7. /\ QueueOK(r, now) /\ r.index = p.index /\ Start(r) = 0 /\ Retained(r) = 0 .. p.index
      /\ \A j \in 0 .. p.index : r.cps[j] = p.cps[j]
  <2>1. r = PrunedFrom(p, 0)
    BY <1>1, <1>5
  <2>2. /\ QueueOK(r, now) /\ r.index = p.index /\ Start(r) = 0 /\ Retained(r) = 0 .. p.index
    BY <1>4, <1>6, <2>1, PrunedType
  <2>3. \A j \in 0 .. p.index : r.cps[j] = p.cps[j]
    BY <2>1 DEF PrunedFrom
  <2> QED BY <2>2, <2>3
<1>8. queue'.index = r.index
  <2>1. r.len > 0
    BY <1>3, <1>7 DEF QueueOK, Start
  <2>2. r.index > 0 => r.index - 1 \in Retained(r)
    BY <1>3, <1>7
  <2> QED BY <1>1, <1>7, <2>1, <2>2, SteppedType
<1>9. /\ m \in Nat /\ p.index = m + 1 /\ q.len > 0 /\ m \in Retained(q)
  BY <1>1, <1>2, <1>3, <1>7, <1>8 DEF QueueOK, NextIndex
<1>10. q.len = m + 1 /\ r.len = m + 2
  BY <1>1, <1>7, <1>9 DEF QueueOK, Start
<1>11. q.cps[m].status = "Building"
  BY <1>1, <1>9 DEF Shape
<1>12. ~HasSigning(q) /\ CanPay(q)
  BY <1>1, <1>9 DEF ShouldPush, MayPush
<1>13. confirmed # None => confirmed <= m - 1
  <2>1. ConfirmedIsCompleted /\ QueueOK(queue, now) /\ Shape(queue)
    BY <1>1, WholeParts
  <2>2. LastCompleted(queue) \in Int /\ LastCompleted(queue) <= queue.index - 1
    BY <1>2, <1>9, <2>1, CompletedRange
  <2>3. confirmed \in Nat \cup {None}
    BY <1>1 DEF RestOK
  <2>4. queue.index = m /\ m \in Nat
    BY <1>2, <1>9
  <2> QED BY <2>1, <2>2, <2>3, <2>4 DEF ConfirmedIsCompleted, None
<1>14. PushedOnce(r, q, m)
  <2>1. \A j \in 0 .. m : r.cps[j] = q.cps[j]
    BY <1>3, <1>7, <1>9
  <2>2. confirmed \in Nat \cup {None}
    BY <1>1 DEF RestOK
  <2> QED BY <1>7, <1>9, <1>10, <1>11, <1>13, <2>1, <2>2 DEF PushedOnce
<1>15. CalcFee(r, m) = CalcFee(q, m)
  BY <1>12, <1>14, SameFee
<1>16. FeesPaid(r) = CalcFee(q, m)
  <2>1. r.index - 1 = m /\ r.index # 0
    BY <1>7, <1>9
  <2> QED BY <1>15, <2>1 DEF FeesPaid, StepFee
<1>17. MinerFees(queue'.cps[m]) = FeesPaid(r) /\ FeesPaid(r) \in Nat
  <2>1. queue'.index - 1 = m /\ queue'.index > 0
    BY <1>7, <1>8, <1>9
  <2> QED BY <1>1, <2>1 DEF PushedFunds, AdvancedOK
<1>18. Building(q).feesCollected >= CalcFee(q, m)
  <2>1. Elapsed(q) = Elapsed(queue)
    BY <1>2, <1>9 DEF Elapsed, Building, Untaken
  <2> QED BY <1>2, <1>12, <2>1 DEF CanPay
<1>19. Building(q).feesCollected = Building(queue).feesCollected
  BY <1>2, <1>9 DEF Building, Untaken
<1>20. Building(q).feesCollected \in Nat
  BY <1>1, <1>9 DEF TxsOK, TxOK, Building
<1> QED BY <1>2, <1>16, <1>17, <1>18, <1>19, <1>20

(* No other step freezes a checkpoint.                                      *)
LEMMA NextPays ==
    ASSUME SInv, [Next]_vars, Intact'
    PROVE  PushPaidStep
<1>1. TInv /\ TInv' /\ (Intact => Whole /\ FundsInv)
  BY NextIInv DEF SInv, FInv, IInv
<1>2. CASE EndBlockPush
  <2>1. PICK q, b, r : PushStep(q, b, r)
    BY <1>1, <1>2, PushParts
  <2> QED BY <1>1, <2>1, PushPays
<1>3. ASSUME queue'.index = queue.index PROVE PushPaidStep
  <2>1. ~(queue'.index > queue.index)
    BY <1>1, <1>3 DEF TInv, TypeOK
  <2> QED BY <2>1 DEF PushPaidStep
<1>4. CASE ~EndBlockPush
  <2>1. \/ queue' = queue
        \/ \E units, cp : queue' = SetBuilding(GiveMinerFee(queue, units), cp)
        \/ \E i, cp : queue' = SetCheckpoint(queue, i, cp)
        \/ queue' = AfterTake(queue)
    BY <1>4
       DEF Next, RelayDeposit, RelayExpiredDeposit, WithdrawToBitcoin, RelayCheckpoint,
           SubmitCheckpointSignature, AddValidators, SetSignatoryKey, Tick, MineBlock,
           Reorg, vars, contractVars, ClockEndBlock, EndBlockQuiet
  <2> QED BY <1>3, <2>1, GiveMinerFeeLength, SetLength, TakeLength
<1> QED BY <1>2, <1>4

(* Until the first checkpoint is pruned, a checkpoint frozen before the     *)
(* maximum interval has passed pays its miners no more than its users paid  *)
(* in fees: the fee should_push compared before the push is the one         *)
(* maybe_step pays after it.                                                *)
THEOREM PushIsPaidByFees == Spec /\ []Intact => PushPaidByFees
<1>1. SInv /\ Intact' /\ [Next]_vars => [PushPaidStep]_vars
  BY NextPays
<1> QED BY <1>1, SignedInvariantHolds, PTL DEF Spec, PushPaidByFees, PushPaidStep

-----------------------------------------------------------------------------
(* What the signers ask before they sign: change_rates.                     *)

(* Checkpoints are created at least the minimum interval apart.             *)
Spaced(q) ==
    \A i, j \in Retained(q) : i <= j =>
        q.cps[j].createTime - q.cps[i].createTime >= (j - i) * MinInterval

Stamped(q) == \A i \in Retained(q) : StampedOK(q.cps[i])

HInv == SInv /\ (Intact => Spaced(queue) /\ Stamped(queue))

(* A checkpoint is created only when the one before it is old enough.       *)
(* (should_push)                                                            *)
LEMMA FollowsSpaced ==
    ASSUME NEW t, NEW q, QueueFollows(t, q), QueueOK(q, now), Spaced(q),
           NEW u, QueueOK(t, u), now \in Int
    PROVE  Spaced(t)
<1>0. MinInterval \in Nat
  BY IntervalsAssumption
<1>2. \A k \in Retained(q) : q.cps[k].createTime \in Int
  BY DEF QueueOK, CheckpointOK
<1>3. \A k \in Retained(t) : t.cps[k].createTime \in Int /\ k \in Int
  BY DEF QueueOK, CheckpointOK, Retained, Start
<1>4. ASSUME NEW i \in Retained(t), NEW j \in Retained(t), i <= j
      PROVE  t.cps[j].createTime - t.cps[i].createTime >= (j - i) * MinInterval
  <2>1. CASE i = j
    BY <1>0, <1>3, <2>1
  <2>2. CASE i # j /\ j \in Retained(q)
    <3>1. i \in Retained(q)
      <4>1. ASSUME i \notin Retained(q) PROVE FALSE
        <5>1. i = t.index
          BY <4>1 DEF QueueFollows, IsNew
        <5>2. j <= t.index
          BY <1>3 DEF Retained, QueueOK
        <5> QED BY <1>3, <1>4, <2>2, <5>1, <5>2
      <4> QED BY <4>1
    <3>2. t.cps[j].createTime = q.cps[j].createTime /\ t.cps[i].createTime = q.cps[i].createTime
      BY <2>2, <3>1 DEF QueueFollows, Follows
    <3> QED BY <1>4, <2>2, <3>1, <3>2 DEF Spaced
  <2>3. CASE i # j /\ j \notin Retained(q)
    <3>1. IsNew(t, q, j)
      BY <2>3 DEF QueueFollows
    <3>2. j = t.index /\ t.cps[j].createTime = now
      BY <3>1 DEF IsNew
    <3>3. i < j /\ i \in Int /\ j \in Int
      BY <1>3, <1>4, <2>3
    <3>4. i \in Retained(q)
      <4>1. ASSUME i \notin Retained(q) PROVE FALSE
        <5>1. i = t.index
          BY <4>1 DEF QueueFollows, IsNew
        <5> QED BY <3>2, <3>3, <5>1
      <4> QED BY <4>1
    <3>5. t.cps[i].createTime = q.cps[i].createTime
      BY <3>4 DEF QueueFollows, Follows
    <3>6. i >= 0
      BY DEF Retained, Start, QueueOK
    <3>7. j - 1 \in Retained(q) /\ now - q.cps[j - 1].createTime >= MinInterval
      BY <3>1, <3>3, <3>6 DEF IsNew
    <3>8. q.cps[j - 1].createTime - q.cps[i].createTime >= ((j - 1) - i) * MinInterval
      BY <3>3, <3>4, <3>7 DEF Spaced
    <3> DEFINE a == q.cps[i].createTime
               b == q.cps[j - 1].createTime
               n == (j - 1) - i
    <3>9. a \in Int /\ b \in Int /\ n \in Nat /\ now \in Int /\ j - i = n + 1
      BY <1>2, <3>3, <3>4, <3>7
    <3> HIDE DEF a, b, n
    <3>10. (n + 1) * MinInterval = n * MinInterval + MinInterval /\ n * MinInterval \in Int
      BY <1>0, <3>9
    <3>11. now - b >= MinInterval /\ b - a >= n * MinInterval
      BY <3>7, <3>8 DEF a, b, n
    <3>12. now - a >= (n + 1) * MinInterval
      BY <1>0, <3>9, <3>10, <3>11
    <3> QED BY <3>2, <3>5, <3>9, <3>12 DEF a
  <2> QED BY <2>1, <2>2, <2>3
<1> QED BY <1>4 DEF Spaced

(* Nothing is created at first.                                             *)
LEMMA InitHInv == Init => HInv
<1> SUFFICES ASSUME Init PROVE HInv
  OBVIOUS
<1>1. Retained(queue) = {}
  BY DEF Init, Retained, Start
<1> QED BY <1>1, InitSInv DEF HInv, Spaced, Stamped

(* Every step keeps the distances and the timestamps.                       *)
LEMMA NextHInv == HInv /\ [Next]_vars => HInv'
<1> SUFFICES ASSUME HInv, [Next]_vars PROVE HInv'
  OBVIOUS
<1>1. SInv'
  BY NextSInv DEF HInv
<1>2. ASSUME Intact' PROVE Spaced(queue') /\ Stamped(queue')
  <2>1. Intact /\ QueueFollows(queue', queue)
    BY <1>2, NextFollows DEF HInv
  <2>2. TInv /\ TInv'
    BY <1>1 DEF HInv, SInv, FInv, IInv
  <2>3. QueueOK(queue, now) /\ QueueOK(queue', now') /\ now \in Int
    BY <2>2, TInvParts, TInvPartsNext DEF RestOK
  <2>4. Spaced(queue')
    BY <2>1, <2>3, FollowsSpaced DEF HInv
  <2>5. Stamped(queue')
    BY <2>1 DEF HInv, Stamped, QueueFollows, Follows, IsNew, StampedOK
  <2> QED BY <2>4, <2>5
<1> QED BY <1>1, <1>2 DEF HInv, Spaced, Stamped

(* A set of naturals with an upper bound: its maximum is one.               *)
LEMMA MaxIsMax ==
    ASSUME NEW b \in Nat, NEW U, U \subseteq 0 .. b, U # {}
    PROVE  Max(U) \in U /\ \A y \in U : Max(U) >= y
<1> DEFINE T == {n \in Nat : \E x \in U : n = b - x}
<1>1. T \in SUBSET Nat /\ T # {}
  <2>1. PICK x \in U : TRUE
    OBVIOUS
  <2>2. b - x \in T
    BY <2>1
  <2> QED BY <2>2
<1>2. PICK m \in T : \A k \in T : m <= k
  BY <1>1, LeastNat
<1>3. PICK x \in U : m = b - x
  OBVIOUS
<1>4. ASSUME NEW y \in U PROVE x >= y
  <2>1. x \in Int /\ y \in Int /\ b - y \in T
    OBVIOUS
  <2>2. m <= b - y
    BY <1>2, <2>1
  <2> QED BY <1>3, <2>1, <2>2
<1>5. x \in U /\ \A y \in U : x >= y
  BY <1>4
<1> QED BY <1>5 DEF Max

(* The minimum of an interval is its first number.                          *)
LEMMA MinInterv ==
    ASSUME NEW a \in Int, NEW b \in Int, a <= b
    PROVE  Min(a .. b) = a
<1>1. a \in a .. b /\ \A y \in a .. b : a <= y
  OBVIOUS
<1>2. Min(a .. b) \in a .. b /\ \A y \in a .. b : Min(a .. b) <= y
  BY <1>1 DEF Min
<1> QED BY <1>1, <1>2

(* What change_rates reads of an intact queue with a checkpoint to sign:    *)
(* the last of its completed checkpoints, which are all but the last two.   *)
Asking(n, lo, interval) ==
    /\ n \in Nat /\ n > 0 /\ lo \in Nat /\ lo <= n - 1
    /\ queue.index = n /\ Retained(queue) = 0 .. n
    /\ {i \in Retained(queue) : queue.cps[i].status = "Complete"} = 0 .. (n - 2)
    /\ Limit(interval) \in Nat /\ Limit(interval) > 0
    /\ lo = (n - 1) - AtMost(Limit(interval), n - 1)
    /\ Read(queue, interval) = lo .. (n - 2)
    /\ \A i \in 0 .. n : /\ queue.cps[i].createTime \in 0 .. now
                         /\ Age(queue, i) = now - queue.cps[i].createTime
                         /\ Age(queue, i) \in Nat

(* So it is in every reachable state.                                       *)
LEMMA AskingParts ==
    ASSUME HInv, Intact, NEW interval \in Intervals, Asked(queue, interval)
    PROVE  \E n, lo : Asking(n, lo, interval)
<1> DEFINE n == queue.index
           L == Limit(interval)
           lo == (n - 1) - AtMost(L, n - 1)
<1>1. /\ Whole /\ QueueOK(queue, now) /\ RestOK /\ Shape(queue)
      /\ (queue.len > 0 => Start(queue) = 0)
  BY WholeParts DEF HInv, SInv, FInv, IInv
<1>2. HasSigning(queue) /\ queue.len >= 2 /\ queue.cps[n - 1].status = "Signing"
  BY DEF Asked, HasSigning
<1>3. now \in Nat /\ n \in Nat /\ queue.len \in 0 .. (n + 1)
  BY <1>1 DEF QueueOK, RestOK
<1>4. queue.len = n + 1 /\ n > 0 /\ Retained(queue) = 0 .. n
  BY <1>1, <1>2, <1>3 DEF Start, Retained
<1>5. ASSUME NEW i \in 0 .. n
      PROVE  queue.cps[i].status = "Complete" <=> i \in 0 .. (n - 2)
  <2>1. queue.cps[i].status \in Statuses
    BY <1>1, <1>4 DEF QueueOK, CheckpointOK
  <2>2. /\ queue.cps[i].status = "Building" <=> i = n
        /\ queue.cps[i].status = "Signing" => i = n - 1
    BY <1>1, <1>4 DEF Shape
  <2> QED BY <1>2, <1>3, <2>1, <2>2 DEF Statuses
<1>6. {i \in Retained(queue) : queue.cps[i].status = "Complete"} = 0 .. (n - 2)
  BY <1>3, <1>4, <1>5
<1>7. L \in Nat /\ L > 0
  <2>1. MinInterval \in Nat /\ MinInterval > 0 /\ interval \in Nat
    BY IntervalsAssumption
  <2>2. interval \div MinInterval \in Nat
    BY <2>1
  <2> QED BY <2>2 DEF Limit
<1> HIDE DEF L
<1>8. lo \in Nat /\ lo <= n - 1
  BY <1>3, <1>4, <1>7 DEF AtMost
<1>9. Read(queue, interval) = lo .. (n - 2)
  <2>1. Max({n - 1, 0}) = n - 1
    <3>1. n - 1 \in Int /\ n - 1 >= 0
      BY <1>3, <1>4
    <3>2. Max({n - 1, 0}) = IF n - 1 > 0 THEN n - 1 ELSE 0
      BY <3>1, MaxZero
    <3> QED BY <3>1, <3>2
  <2>2. n - (2 - 1) = n - 1 /\ queue.len - 2 = n - 1 /\ (n - 1) - 1 = n - 2
    BY <1>3, <1>4
  <2>3. CompletedWindow(queue, L) =
          (Max({n - (2 - 1), 0}) - AtMost(L, queue.len - 2)) .. (Max({n - (2 - 1), 0}) - 1)
    BY <1>2 DEF CompletedWindow
  <2>4. CompletedWindow(queue, L) = ((n - 1) - AtMost(L, n - 1)) .. (n - 2)
    BY <2>1, <2>2, <2>3
  <2> QED BY <2>4 DEF Read, L
<1>10. ASSUME NEW i \in 0 .. n
       PROVE  /\ queue.cps[i].createTime \in 0 .. now
              /\ Age(queue, i) = now - queue.cps[i].createTime
              /\ Age(queue, i) \in Nat
  <2>1. /\ queue.cps[i].createTime \in 0 .. now
        /\ queue.cps[n - 1].createTime \in 0 .. now
    BY <1>1, <1>3, <1>4 DEF QueueOK, CheckpointOK
  <2>2. Max({Signing(queue).createTime, now}) = now
    <3>1. PICK c : c = queue.cps[n - 1].createTime
      OBVIOUS
    <3>2. c \in 0 .. now
      BY <2>1, <3>1
    <3>3. now \in {c, now} /\ \A y \in {c, now} : now >= y
      BY <1>3, <3>2
    <3>4. Max({c, now}) \in {c, now} /\ \A y \in {c, now} : Max({c, now}) >= y
      BY <3>3 DEF Max
    <3>5. Max({c, now}) = now
      BY <1>3, <3>2, <3>4
    <3> QED BY <3>1, <3>5 DEF Signing
  <2> QED BY <1>3, <2>1, <2>2 DEF Age
<1>11. Asking(n, lo, interval)
  BY <1>3, <1>4, <1>6, <1>7, <1>8, <1>9, <1>10 DEF Asking, L
<1> QED BY <1>11

(* Of the checkpoints read, the one compared with.                          *)
LEMMA ComparedIs ==
    ASSUME NEW n, NEW lo, NEW interval \in Intervals, Asking(n, lo, interval), lo <= n - 2
    PROVE  LET c == Compared(queue, interval)
           IN  /\ c \in lo .. (n - 2)
               /\ \A i \in lo .. (n - 2) : i > c => Age(queue, i) <= interval
               /\ \/ Age(queue, c) > interval
                  \/ c = lo /\ Age(queue, lo) <= interval
<1> DEFINE old == {i \in Read(queue, interval) : Age(queue, i) > interval}
           c == Compared(queue, interval)
<1>1. n \in Nat /\ lo \in Nat /\ Read(queue, interval) = lo .. (n - 2) /\ n - 2 \in Nat
  BY DEF Asking
<1>2. \A i \in lo .. (n - 2) : Age(queue, i) \in Nat
  BY <1>1 DEF Asking
<1>3. interval \in Nat
  BY IntervalsAssumption
<1>4. c = IF old # {} THEN Max(old) ELSE Min(Read(queue, interval))
  BY DEF Compared
<1> HIDE DEF c
<1>5. CASE old # {}
  <2>1. old \subseteq 0 .. (n - 2)
    BY <1>1
  <2>2. Max(old) \in old /\ \A y \in old : Max(old) >= y
    BY <1>1, <1>5, <2>1, MaxIsMax
  <2>3. c = Max(old)
    BY <1>4, <1>5
  <2>4. c \in lo .. (n - 2) /\ Age(queue, c) > interval
    BY <1>1, <2>2, <2>3
  <2>5. ASSUME NEW i \in lo .. (n - 2), i > c PROVE Age(queue, i) <= interval
    <3>1. ASSUME i \in old PROVE FALSE
      <4>1. PICK m : m = Max(old)
        OBVIOUS
      <4>2. m >= i
        BY <2>2, <3>1, <4>1
      <4>3. m = c
        BY <2>3, <4>1
      <4>4. c \in Int /\ i \in Int
        BY <1>1, <2>4
      <4> QED BY <2>5, <4>2, <4>3, <4>4
    <3> QED BY <1>1, <1>2, <1>3, <3>1
  <2> QED BY <2>4, <2>5 DEF c
<1>6. CASE old = {}
  <2>1. c = Min(lo .. (n - 2))
    BY <1>1, <1>4, <1>6
  <2>2. c = lo
    BY <1>1, <2>1, MinInterv
  <2>3. \A i \in lo .. (n - 2) : Age(queue, i) <= interval
    BY <1>1, <1>2, <1>3, <1>6
  <2>4. lo \in lo .. (n - 2)
    BY <1>1
  <2> QED BY <2>2, <2>3, <2>4 DEF c
<1> QED BY <1>5, <1>6

(* Until the first checkpoint is pruned, reading only as many checkpoints   *)
(* as could have been created in the interval hides none: the one compared  *)
(* with is the last of all that is older than the interval, or the first    *)
(* (change_rates, with should_push's minimum interval).                     *)
THEOREM LooksBackFarEnoughHolds == Spec => [](Intact => LooksBackFarEnough)
<1>1. HInv => (Intact => LooksBackFarEnough)
  <2> SUFFICES ASSUME HInv, Intact PROVE LooksBackFarEnough
    OBVIOUS
  <2> DEFINE completed == {i \in Retained(queue) : queue.cps[i].status = "Complete"}
  <2>1. ASSUME NEW interval \in Intervals, Asked(queue, interval), completed # {}
        PROVE  LET c == Compared(queue, interval)
               IN  /\ c \in completed
                   /\ \A i \in completed : i > c => Age(queue, i) <= interval
                   /\ Age(queue, c) > interval \/ c = Min(completed)
    <3>1. PICK n, lo : Asking(n, lo, interval)
      BY <2>1, AskingParts
    <3>2. /\ n \in Nat /\ n > 0 /\ lo \in Nat /\ Retained(queue) = 0 .. n
          /\ completed = 0 .. (n - 2)
          /\ Limit(interval) \in Nat /\ Limit(interval) > 0
          /\ lo = (n - 1) - AtMost(Limit(interval), n - 1)
      BY <3>1 DEF Asking
    <3>3. lo <= n - 2 /\ n - 2 >= 0
      BY <2>1, <3>2 DEF AtMost
    <3> DEFINE c == Compared(queue, interval)
    <3>4. /\ c \in lo .. (n - 2)
          /\ \A i \in lo .. (n - 2) : i > c => Age(queue, i) <= interval
          /\ \/ Age(queue, c) > interval
             \/ c = lo /\ Age(queue, lo) <= interval
      BY <3>1, <3>3, ComparedIs
    <3> HIDE DEF c, completed
    <3>5. c \in completed
      BY <3>2, <3>4
    <3>6. \A i \in completed : i > c => Age(queue, i) <= interval
      BY <3>2, <3>4
    <3>7. ASSUME c = lo, Age(queue, lo) <= interval PROVE c = Min(completed)
      <4>1. CASE lo = 0
        <5>1. Min(0 .. (n - 2)) = 0
          BY <3>2, <3>3, MinInterv
        <5> QED BY <3>2, <3>7, <4>1, <5>1
      <4>2. CASE lo # 0
        <5> DEFINE L == Limit(interval)
        <5>1. L = (n - 1) - lo
          BY <3>2, <4>2 DEF AtMost
        <5>2. /\ lo \in 0 .. n /\ n - 1 \in 0 .. n /\ lo <= n - 1
          BY <3>2, <3>3
        <5>3. queue.cps[n - 1].createTime - queue.cps[lo].createTime >= L * MinInterval
          BY <3>2, <5>1, <5>2 DEF HInv, Spaced
        <5>4. /\ queue.cps[n - 1].createTime \in 0 .. now
              /\ queue.cps[lo].createTime \in 0 .. now
              /\ Age(queue, lo) = now - queue.cps[lo].createTime
          BY <3>1, <5>2 DEF Asking
        <5>5. now \in Nat
          BY WholeParts DEF HInv, SInv, FInv, IInv, RestOK
        <5>6. interval < L * MinInterval /\ L * MinInterval \in Int /\ interval \in Nat
          <6>1. MinInterval \in Nat /\ MinInterval > 0 /\ interval \in Nat
            BY IntervalsAssumption
          <6>2. PICK d \in Nat : d = interval \div MinInterval
            BY <6>1
          <6>3. interval < MinInterval * (d + 1)
            BY <6>1, <6>2
          <6>4. L = d + 1
            BY <6>2 DEF Limit
          <6>5. MinInterval * (d + 1) = (d + 1) * MinInterval /\ (d + 1) * MinInterval \in Int
            BY <6>1, <6>2
          <6> QED BY <6>1, <6>3, <6>4, <6>5
        <5> QED BY <3>7, <5>3, <5>4, <5>5, <5>6
      <4> QED BY <4>1, <4>2
    <3>8. Age(queue, c) > interval \/ c = Min(completed)
      BY <3>4, <3>7
    <3> QED BY <3>5, <3>6, <3>8 DEF c
  <2> QED BY <2>1 DEF LooksBackFarEnough
<1> QED BY <1>1, InitHInv, NextHInv, PTL DEF Spec

-----------------------------------------------------------------------------
(* What flows out of the reserve.                                           *)

(* The first input spends the reserve, the others deposits.                 *)
Inflow(s) ==
    /\ s \in Seq(Input) /\ Len(s) >= 1
    /\ s[1].prevout[1] = "reserve"
    /\ \A k \in 2 .. Len(s) : s[k].prevout[1] = "deposit"

(* Then the total is what the reserve had, and the deposits.                *)
LEMMA InflowTotal ==
    ASSUME NEW cp, Inflow(cp.inputs)
    PROVE  /\ TotalIn(cp.inputs) = cp.inputs[1].amount + DepositsIn(cp)
           /\ cp.inputs[1].amount \in Int /\ DepositsIn(cp) \in Int
<1>1. PICK s : s = cp.inputs
  OBVIOUS
<1> DEFINE f == Amounts(s)
           D == {k \in DOMAIN s : s[k].prevout[1] = "deposit"}
<1>2. /\ s \in Seq(Input) /\ Len(s) >= 1 /\ Len(s) \in Nat
      /\ s[1].prevout[1] = "reserve"
      /\ \A k \in 2 .. Len(s) : s[k].prevout[1] = "deposit"
  BY <1>1, LenProperties DEF Inflow
<1>3. /\ TotalIn(s) = SumFunctionOnSet(f, 1 .. Len(s))
      /\ \A k \in 1 .. Len(s) : f[k] = s[k].amount /\ f[k] \in Nat
  BY <1>2, TotalInType
<1>4. DOMAIN s = 1 .. Len(s) /\ 1 \in 1 .. Len(s)
  BY <1>2
<1>5. DepositsIn(cp) = SumFunctionOnSet(f, D)
  BY <1>1 DEF DepositsIn, Amounts
<1>6. D = (1 .. Len(s)) \ {1}
  <2>1. "reserve" # "deposit"
    OBVIOUS
  <2>2. 1 \notin D
    BY <1>2, <2>1
  <2>3. \A k \in (1 .. Len(s)) \ {1} : k \in 2 .. Len(s)
    BY <1>2
  <2> QED BY <1>2, <1>4, <2>2, <2>3
<1> HIDE DEF f, D
<1>7. IsFiniteSet(1 .. Len(s)) /\ \A k \in 1 .. Len(s) : f[k] \in Int
  <2>1. IsFiniteSet(1 .. Len(s))
    BY <1>2, FS_Interval
  <2>2. \A k \in 1 .. Len(s) : f[k] \in Int
    BY <1>3
  <2> QED BY <2>1, <2>2
<1>8. SumFunctionOnSet(f, 1 .. Len(s)) = f[1] + SumFunctionOnSet(f, (1 .. Len(s)) \ {1})
  BY <1>4, <1>7, SumRemove
<1>9. SumFunctionOnSet(f, D) = SumFunctionOnSet(f, (1 .. Len(s)) \ {1})
  BY <1>6, Zenon
<1>10. SumFunctionOnSet(f, D) \in Int
  <2>1. IsFiniteSet(D) /\ \A k \in D : f[k] \in Int
    BY <1>6, <1>7, FS_Subset
  <2> QED BY <2>1, SumInt
<1> QED BY <1>1, <1>3, <1>4, <1>5, <1>8, <1>9, <1>10

(* The first output is the reserve, the second the timestamp, the others    *)
(* pay withdrawals.                                                         *)
Paying(s) ==
    /\ s \in Seq(Output) /\ Len(s) >= 2
    /\ s[1].to[1] = "reserve"
    /\ s[2].to[1] = "timestamp" /\ s[2].value = 0
    /\ \A k \in 3 .. Len(s) : s[k].to[1] = "withdrawal"

(* Then the total is what the reserve gets, and what is paid out.           *)
LEMMA PayingTotal ==
    ASSUME NEW cp, Paying(cp.outputs)
    PROVE  /\ TotalOut(cp.outputs) = ReserveOf(cp) + PaidOut(cp)
           /\ ReserveOf(cp) \in Nat /\ PaidOut(cp) \in Int
<1>1. PICK s : s = cp.outputs
  OBVIOUS
<1> DEFINE f == Values(s)
           W == {k \in DOMAIN s : s[k].to[1] = "withdrawal"}
           I == 1 .. Len(s)
<1>2. /\ s \in Seq(Output) /\ Len(s) >= 2 /\ Len(s) \in Nat
      /\ s[1].to[1] = "reserve"
      /\ s[2].to[1] = "timestamp" /\ s[2].value = 0
      /\ \A k \in 3 .. Len(s) : s[k].to[1] = "withdrawal"
  BY <1>1, LenProperties DEF Paying
<1>3. /\ TotalOut(s) = SumFunctionOnSet(f, I)
      /\ \A k \in I : f[k] = s[k].value /\ f[k] \in Nat
  BY <1>2, TotalOutType
<1>4. DOMAIN s = I /\ 1 \in I /\ 2 \in I \ {1}
  BY <1>2
<1>5. PaidOut(cp) = SumFunctionOnSet(f, W)
  BY <1>1 DEF PaidOut, Values
<1>6. W = (I \ {1}) \ {2}
  <2>1. "reserve" # "withdrawal" /\ "timestamp" # "withdrawal"
    OBVIOUS
  <2>2. 1 \notin W /\ 2 \notin W
    BY <1>2, <2>1
  <2>3. \A k \in (I \ {1}) \ {2} : k \in 3 .. Len(s)
    BY <1>2
  <2>4. \A k \in I : k # 1 /\ k # 2 => k \in W
    BY <1>2, <1>4, <2>3
  <2>5. W \subseteq I
    BY <1>4
  <2> QED BY <2>2, <2>4, <2>5
<1>7. IsFiniteSet(I)
  BY <1>2, FS_Interval
<1> HIDE DEF f, W, I
<1>8. IsFiniteSet(I \ {1}) /\ IsFiniteSet((I \ {1}) \ {2}) /\ \A k \in I : f[k] \in Int
  BY <1>3, <1>7, FS_Subset
<1>9. SumFunctionOnSet(f, I) = f[1] + SumFunctionOnSet(f, I \ {1})
  BY <1>4, <1>7, <1>8, SumRemove
<1>10. PICK J : J = I \ {1}
  OBVIOUS
<1>11. IsFiniteSet(J) /\ 2 \in J /\ \A k \in J : f[k] \in Int
  BY <1>4, <1>8, <1>10
<1>12. SumFunctionOnSet(f, J) = f[2] + SumFunctionOnSet(f, J \ {2})
  BY <1>11, SumRemove
<1>13. W = J \ {2}
  BY <1>6, <1>10
<1>14. SumFunctionOnSet(f, W) = SumFunctionOnSet(f, J \ {2})
  BY <1>13, Zenon
<1>15. SumFunctionOnSet(f, W) \in Int
  <2>1. IsFiniteSet(W) /\ \A k \in W : f[k] \in Int
    BY <1>6, <1>8
  <2> QED BY <2>1, SumInt
<1>16. f[2] = 0 /\ f[1] = ReserveOf(cp) /\ f[1] \in Nat
  BY <1>1, <1>2, <1>3, <1>4 DEF ReserveOf
<1>17. SumFunctionOnSet(f, I) = f[1] + SumFunctionOnSet(f, J)
  BY <1>9, <1>10, Zenon
<1> QED BY <1>1, <1>3, <1>5, <1>12, <1>14, <1>15, <1>16, <1>17

(* What a frozen checkpoint lets flow out is what the reserve loses.        *)
LEMMA OutflowIsLoss ==
    ASSUME HInv, Intact, NEW i \in Retained(queue), i < queue.index
    PROVE  /\ ReserveOf(queue.cps[i]) \in Nat
           /\ i > 0 => Outflow(queue.cps[i]) = ReserveOf(queue.cps[i - 1]) - ReserveOf(queue.cps[i])
<1> DEFINE cp == queue.cps[i]
<1>1. /\ QueueOK(queue, now) /\ Shape(queue) /\ Stamped(queue) /\ FundsInv
      /\ (queue.len > 0 => Start(queue) = 0)
  BY WholeParts DEF HInv, SInv, FInv, IInv
<1>2. /\ queue.index \in Nat /\ queue.len \in 0 .. (queue.index + 1)
      /\ i \in Start(queue) .. queue.index
  BY <1>1 DEF QueueOK, Retained
<1>3. queue.len > 0 /\ i \in 0 .. queue.index /\ Retained(queue) = 0 .. queue.index
  BY <1>1, <1>2 DEF Start, Retained
<1>4. /\ TxOK(cp) /\ Chained(queue) /\ HasExtras(queue)
      /\ Sourced(queue, processed) /\ Destined(queue, requested)
  BY <1>1 DEF FundsInv, TxsOK, Ledger
<1>5. cp.outputs[2] = TimestampOutput
  <2>1. cp.status # "Building"
    BY <1>1, <1>2, <1>3 DEF Shape
  <2> QED BY <1>1, <2>1 DEF Stamped, StampedOK
<1>6. PICK s : s = cp.outputs
  OBVIOUS
<1>7. s \in Seq(Output) /\ Len(s) >= 2 /\ Len(s) \in Nat
  BY <1>4, <1>6, LenProperties DEF TxOK, HasExtras, Outs
<1>8. \A k \in 1 .. Len(s) : PaysExtra(queue, i, k) \/ PaysWithdrawal(queue, i, k, requested)
  BY <1>4, <1>6 DEF Destined, Outs
<1>9. s[1].to[1] = "reserve"
  <2>1. s[1].to = <<"reserve">>
    <3>1. PaysExtra(queue, i, 1)
      BY <1>7, <1>8 DEF PaysWithdrawal, IsExtra
    <3> QED BY <1>6, <3>1 DEF PaysExtra, Outs
  <2> QED BY <2>1
<1>10. s[2].to[1] = "timestamp" /\ s[2].value = 0
  BY <1>5, <1>6 DEF TimestampOutput
<1>11. ASSUME NEW k \in 3 .. Len(s) PROVE s[k].to[1] = "withdrawal"
  <2>1. k \in 1 .. Len(s) /\ ~(k <= 2)
    BY <1>7
  <2>2. PaysWithdrawal(queue, i, k, requested)
    BY <1>8, <2>1 DEF PaysExtra, IsExtra
  <2>3. PICK w \in requested : s[k].to = <<"withdrawal", w>>
    BY <1>6, <2>2 DEF PaysWithdrawal, Outs
  <2> QED BY <2>3
<1>12. Paying(cp.outputs)
  BY <1>6, <1>7, <1>9, <1>10, <1>11 DEF Paying
<1>13. /\ TotalOut(cp.outputs) = ReserveOf(cp) + PaidOut(cp)
       /\ ReserveOf(cp) \in Nat /\ PaidOut(cp) \in Int
  BY <1>12, PayingTotal
<1>14. ASSUME i > 0
       PROVE  Outflow(cp) = ReserveOf(queue.cps[i - 1]) - ReserveOf(cp)
  <2>1. i - 1 \in Retained(queue)
    BY <1>2, <1>3, <1>14
  <2>2. PICK u : u = cp.inputs
    OBVIOUS
  <2>3. /\ Len(u) >= 1 /\ u[1].prevout = ReserveOutpoint(i - 1)
        /\ u[1].amount = ReserveOf(queue.cps[i - 1])
    BY <1>4, <2>1, <2>2 DEF Chained, Ins, Outs, ReserveOf
  <2>4. u \in Seq(Input) /\ Len(u) \in Nat
    BY <1>4, <2>2, LenProperties DEF TxOK
  <2>5. u[1].prevout[1] = "reserve"
    BY <2>3 DEF ReserveOutpoint
  <2>6. ASSUME NEW k \in 2 .. Len(u) PROVE u[k].prevout[1] = "deposit"
    <3>1. k \in 1 .. Len(u) /\ k # 1
      BY <2>4
    <3>2. SpendsDeposit(queue, i, k, processed)
      BY <1>4, <2>2, <3>1 DEF Sourced, Ins, SpendsReserve
    <3>3. PICK d : u[k].prevout = DepositOutpoint(d)
      BY <2>2, <3>2 DEF SpendsDeposit, Ins
    <3> QED BY <3>3 DEF DepositOutpoint
  <2>7. Inflow(cp.inputs)
    BY <2>2, <2>3, <2>4, <2>5, <2>6 DEF Inflow
  <2>8. /\ TotalIn(cp.inputs) = cp.inputs[1].amount + DepositsIn(cp)
        /\ cp.inputs[1].amount \in Int /\ DepositsIn(cp) \in Int
    BY <2>7, InflowTotal
  <2>9. cp.inputs[1].amount = ReserveOf(queue.cps[i - 1])
    BY <2>2, <2>3
  <2> HIDE DEF cp
  <2> QED BY <1>13, <2>8, <2>9 DEF Outflow, MinerFees
<1> QED BY <1>13, <1>14

(* The rate of a flow, in 1/10000 of the reserve.                           *)
RateOf(flow, reserve) == (Max({flow, 0}) * 10000) \div reserve

(* Until the first checkpoint is pruned, the rate the signers are told is   *)
(* that of what flowed out of the reserve from the checkpoint compared with *)
(* on: payments and miners' fees, less the deposits (change_rates,          *)
(* reserve_output).                                                         *)
THEOREM RateIsOutflowHolds == Spec => [](Intact => RateIsOutflow)
<1>1. HInv => (Intact => RateIsOutflow)
  <2> SUFFICES ASSUME HInv, Intact PROVE RateIsOutflow
    OBVIOUS
  <2>1. ASSUME NEW interval \in Intervals, Asked(queue, interval), Read(queue, interval) # {}
        PROVE  LET i == Compared(queue, interval)
                   f == [j \in (i + 1) .. (queue.index - 1) |-> Outflow(queue.cps[j])]
               IN  SumFunction(f) = ReserveOf(queue.cps[i]) - ReserveOf(Signing(queue))
    <3>1. PICK n, lo : Asking(n, lo, interval)
      BY <2>1, AskingParts
    <3>2. /\ n \in Nat /\ n > 0 /\ lo \in Nat /\ Retained(queue) = 0 .. n
          /\ n = queue.index /\ Read(queue, interval) = lo .. (n - 2)
      BY <3>1 DEF Asking
    <3>3. lo <= n - 2
      BY <2>1, <3>2
    <3>4. PICK i : i = Compared(queue, interval)
      OBVIOUS
    <3>5. i \in lo .. (n - 2)
      BY <3>1, <3>3, <3>4, ComparedIs
    <3> DEFINE b == n - 1
               f == [j \in (i + 1) .. b |-> Outflow(queue.cps[j])]
               R == [j \in i .. b |-> ReserveOf(queue.cps[j])]
    <3>6. i \in Nat /\ b \in Nat /\ i <= b
      BY <3>2, <3>5
    <3>7. ASSUME NEW j \in i .. b
          PROVE  /\ j \in Retained(queue) /\ j < queue.index
                 /\ R[j] = ReserveOf(queue.cps[j])
      BY <3>2, <3>6
    <3>8. \A j \in i .. b : R[j] \in Int
      BY <3>7, OutflowIsLoss
    <3>9. ASSUME NEW j \in (i + 1) .. b PROVE f[j] = R[j - 1] - R[j]
      <4>1. j \in i .. b /\ j - 1 \in i .. b /\ j > 0
        BY <3>6
      <4>2. Outflow(queue.cps[j]) = ReserveOf(queue.cps[j - 1]) - ReserveOf(queue.cps[j])
        BY <3>7, <4>1, OutflowIsLoss
      <4> QED BY <3>7, <4>1, <4>2
    <3>10. DOMAIN f = (i + 1) .. b
      OBVIOUS
    <3>11. R[i] = ReserveOf(queue.cps[i]) /\ R[b] = ReserveOf(Signing(queue))
      <4>1. i \in i .. b /\ b \in i .. b
        BY <3>6
      <4> QED BY <3>2, <3>7, <4>1 DEF Signing
    <3>12. f = [j \in (i + 1) .. (queue.index - 1) |-> Outflow(queue.cps[j])]
      BY <3>2
    <3> HIDE DEF f, R, b
    <3>13. Telescoping(f, R, i, b)
      BY <3>6, <3>8, <3>9 DEF Telescoping
    <3>14. SumFunctionOnSet(f, (i + 1) .. b) = R[i] - R[b]
      BY <3>13, SumTelescope
    <3>15. SumFunction(f) = R[i] - R[b]
      BY <3>10, <3>14, Zenon DEF SumFunction
    <3> QED BY <3>4, <3>11, <3>12, <3>15, Zenon
  <2>2. ASSUME NEW interval \in Intervals, Asked(queue, interval), Read(queue, interval) # {}
        PROVE  LET i    == Compared(queue, interval)
                   flow == SumFunction([j \in (i + 1) .. (queue.index - 1) |->
                                          Outflow(queue.cps[j])])
               IN  WithdrawalRate(queue.cps[i], Signing(queue)) = RateOf(flow, ReserveOf(queue.cps[i]))
    <3>1. PICK i : i = Compared(queue, interval)
      OBVIOUS
    <3>2. PICK flow : flow = SumFunction([j \in (i + 1) .. (queue.index - 1) |->
                                            Outflow(queue.cps[j])])
      OBVIOUS
    <3>3. flow = ReserveOf(queue.cps[i]) - ReserveOf(Signing(queue))
      BY <2>1, <2>2, <3>1, <3>2, Zenon
    <3>4. WithdrawalRate(queue.cps[i], Signing(queue))
            = RateOf(ReserveOf(queue.cps[i]) - ReserveOf(Signing(queue)), ReserveOf(queue.cps[i]))
      BY DEF WithdrawalRate, RateOf
    <3> QED BY <3>1, <3>2, <3>3, <3>4, Zenon
  <2>3. RateIsOutflow <=>
          \A interval \in Intervals :
            Asked(queue, interval) /\ Read(queue, interval) # {} =>
              LET i    == Compared(queue, interval)
                  flow == SumFunction([j \in (i + 1) .. (queue.index - 1) |->
                                         Outflow(queue.cps[j])])
              IN  ReserveOf(queue.cps[i]) > 0 =>
                    WithdrawalRate(queue.cps[i], Signing(queue)) = RateOf(flow, ReserveOf(queue.cps[i]))
    BY DEF RateIsOutflow, RateOf
  <2> QED BY <2>2, <2>3, Zenon
<1> QED BY <1>1, InitHInv, NextHInv, PTL DEF Spec
-----------------------------------------------------------------------------
(* The end block returns no error.                                          *)

(* A signer claims the height at which a checkpoint completes, and it may   *)
(* be ahead of the headers.  The next one is only pushed once the headers   *)
(* have reached it, so what lies before the last completed one is reached.  *)
HeightsReached(q, h) ==
    \A i \in Retained(q) : i < q.index - 1 => q.cps[i].signedAt <= h

EInv == HInv /\ (Intact => HeightsReached(queue, height))

(* No push: the complete checkpoints keep their heights.                    *)
LEMMA QuietHeights ==
    ASSUME HInv, Intact, HeightsReached(queue, height), QueueFollows(queue', queue),
           RestOK', height' >= height,
           queue'.index = queue.index, queue'.len = queue.len
    PROVE  HeightsReached(queue', height')
<1>1. QueueOK(queue, now) /\ RestOK /\ Shape(queue)
  BY WholeParts DEF HInv, SInv, FInv, IInv
<1>2. Retained(queue') = Retained(queue)
  BY DEF Retained, Start
<1> SUFFICES ASSUME NEW i \in Retained(queue), i < queue.index - 1
             PROVE  queue'.cps[i].signedAt <= height'
  BY <1>2 DEF HeightsReached
<1>3. queue.cps[i].status = "Complete"
  <2>1. queue.cps[i].status \in Statuses /\ queue.index \in Nat /\ i \in Int
    BY <1>1 DEF QueueOK, CheckpointOK, Retained, Start
  <2>2. /\ queue.cps[i].status = "Building" <=> i = queue.index
        /\ queue.cps[i].status = "Signing" => i = queue.index - 1
    BY <1>1 DEF Shape
  <2> QED BY <2>1, <2>2 DEF Statuses
<1>4. queue'.cps[i].signedAt = queue.cps[i].signedAt
  BY <1>2, <1>3 DEF QueueFollows, Follows, KeptFrozen
<1>5. queue.cps[i].signedAt <= height
  BY DEF HeightsReached
<1>6. queue.cps[i].signedAt \in Nat /\ height \in Nat /\ height' \in Nat
  BY <1>1 DEF QueueOK, CheckpointOK, RestOK
<1> QED BY <1>4, <1>5, <1>6

(* A push: should_push has compared the height of the last completed one.   *)
LEMMA PushHeights ==
    ASSUME TInv, HeightsReached(queue, height), NEW q, NEW b, NEW r, PushStep(q, b, r)
    PROVE  HeightsReached(queue', height)
<1>1. /\ Whole /\ TakeSucceeds(queue) /\ q = AfterTake(queue) /\ QueueOK(q, now)
      /\ (q.len > 0 => Start(q) = 0) /\ MayPush(q)
      /\ PushedFunds(queue', q, FeesPaid(r))
  BY DEF PushStep, ShouldPush
<1>2. /\ q.index = queue.index /\ Retained(q) = Retained(queue)
      /\ \A j \in Retained(queue) : Untaken(q.cps[j], queue.cps[j])
  BY <1>1, AfterTakeFields
<1> DEFINE n == queue'.index
<1>3. /\ n \in Nat /\ Retained(queue') = 0 .. n /\ Retained(q) = 0 .. (n - 1)
      /\ n > 0 => q.index = n - 1
      /\ \A j \in 0 .. (n - 2) : queue'.cps[j] = q.cps[j]
  BY <1>1 DEF PushedFunds
<1> SUFFICES ASSUME NEW i \in 0 .. n, i < n - 1
             PROVE  queue'.cps[i].signedAt <= height
  BY <1>3 DEF HeightsReached
<1>4. i \in Retained(q) /\ queue'.cps[i] = q.cps[i] /\ q.index = n - 1
  BY <1>3
<1>5. q.cps[i].signedAt = queue.cps[i].signedAt
  BY <1>2, <1>4 DEF Untaken
<1>6. CASE i < n - 2
  <2>1. i < queue.index - 1
    BY <1>2, <1>3, <1>4, <1>6
  <2> QED BY <1>2, <1>4, <1>5, <2>1 DEF HeightsReached
<1>7. CASE i = n - 2
  <2>1. ~HasSigning(q)
    BY <1>1 DEF MayPush
  <2>2. LastCompleted(q) = i
    BY <1>3, <1>4, <1>7, <2>1 DEF LastCompleted, SigningOffset
  <2>3. q.len > 0
    BY <1>1, <1>3, <1>4 DEF QueueOK, Retained, Start
  <2>4. height >= q.cps[i].signedAt
    BY <1>1, <2>2, <2>3 DEF MayPush, HasCompleted
  <2>5. q.cps[i].signedAt \in Nat /\ height \in Nat
    BY <1>1, <1>4, TInvParts DEF QueueOK, CheckpointOK, RestOK
  <2> QED BY <1>4, <2>4, <2>5
<1> QED BY <1>3, <1>6, <1>7

(* Every step that does not lower the height.                               *)
LEMMA NextHeights ==
    ASSUME HInv, Intact => HeightsReached(queue, height), [Next]_vars, Intact',
           height' >= height
    PROVE  HeightsReached(queue', height')
<1>1. TInv /\ TInv' /\ (Intact => Whole /\ FundsInv)
  BY NextIInv DEF HInv, SInv, FInv, IInv
<1>2. Intact /\ QueueFollows(queue', queue)
  BY NextFollows DEF HInv
<1>3. CASE EndBlockPush
  <2>1. PICK q, b, r : PushStep(q, b, r)
    BY <1>1, <1>3, PushParts
  <2>2. HeightsReached(queue', height)
    BY <1>1, <1>2, <2>1, PushHeights
  <2>3. height' = height
    BY <1>3 DEF EndBlockPush
  <2> QED BY <2>2, <2>3
<1>4. CASE ~EndBlockPush
  <2>1. \/ queue' = queue
        \/ \E units, cp : queue' = SetBuilding(GiveMinerFee(queue, units), cp)
        \/ \E i, cp : queue' = SetCheckpoint(queue, i, cp)
        \/ queue' = AfterTake(queue)
    BY <1>4
       DEF Next, RelayDeposit, RelayExpiredDeposit, WithdrawToBitcoin, RelayCheckpoint,
           SubmitCheckpointSignature, AddValidators, SetSignatoryKey, Tick, MineBlock,
           Reorg, vars, contractVars, ClockEndBlock, EndBlockQuiet
  <2>2. queue'.index = queue.index /\ queue'.len = queue.len
    BY <2>1, GiveMinerFeeLength, SetLength, TakeLength
  <2>3. RestOK'
    BY <1>1, TInvPartsNext
  <2> QED BY <1>2, <2>2, <2>3, QuietHeights
<1> QED BY <1>3, <1>4

(* The invariant, as long as no reorganisation lowers the height.           *)
LEMMA NextEInv == EInv /\ [Next]_vars /\ [height' >= height]_vars => EInv'
<1> SUFFICES ASSUME EInv, [Next]_vars, [height' >= height]_vars PROVE EInv'
  OBVIOUS
<1>1. HInv'
  BY NextHInv DEF EInv
<1>2. TInv
  BY DEF EInv, HInv, SInv, FInv, IInv
<1>3. height' >= height
  <2>1. height \in Nat
    BY <1>2, TInvParts DEF RestOK
  <2> QED BY <2>1 DEF vars
<1>4. ASSUME Intact' PROVE HeightsReached(queue', height')
  BY <1>3, <1>4, NextHeights DEF EInv
<1>5. HeightsReached(queue, height)' = HeightsReached(queue', height')
  BY DEF HeightsReached, Retained, Start
<1> QED BY <1>1, <1>4, <1>5 DEF EInv

(* take_pending_completed reads no pruned checkpoint.                       *)
LEMMA TakeAlways ==
    ASSUME Whole
    PROVE  TakeSucceeds(queue)
<1>1. /\ QueueOK(queue, now) /\ RestOK /\ (queue.len > 0 => Start(queue) = 0)
      /\ ConfirmedIsCompleted
  BY WholeParts
<1> DEFINE r == AfterConfirmed(queue)
<1>2. /\ r.index = queue.index /\ r.len = queue.len
      /\ \A j \in Retained(queue) : r.cps[j].status = queue.cps[j].status
  BY <1>1, ClearFields DEF AfterConfirmed
<1> HIDE DEF r
<1>3. UnconfirmedCompleted(r) = UnconfirmedCompleted(queue)
  BY <1>1, <1>2, SameLast
<1>4. /\ LastCompleted(queue) \in Int /\ LastCompleted(queue) <= queue.index - 1
      /\ queue.index \in Nat /\ confirmed \in Nat \cup {None}
  BY <1>1 DEF QueueOK, RestOK, LastCompleted, SigningOffset
<1>5. CASE queue.len > 0
  <2>1. Retained(queue) = 0 .. queue.index
    BY <1>1, <1>5 DEF Retained
  <2>2. UnconfirmedCompleted(queue) \subseteq 0 .. queue.index
    BY <1>4 DEF UnconfirmedCompleted
  <2> QED BY <1>3, <2>1, <2>2 DEF TakeSucceeds, r
<1>6. CASE queue.len = 0
  <2>1. LastCompleted(queue) = -1
    BY <1>1, <1>6 DEF QueueOK, LastCompleted, SigningOffset, HasSigning
  <2>2. confirmed = None
    BY <1>1, <1>4, <2>1 DEF ConfirmedIsCompleted
  <2>3. UnconfirmedCompleted(queue) = {}
    BY <2>1, <2>2 DEF UnconfirmedCompleted
  <2> QED BY <1>3, <2>3 DEF TakeSucceeds, r
<1> QED BY <1>1, <1>5, <1>6 DEF QueueOK

(* In an intact queue the unconfirmed checkpoints start right after the     *)
(* confirmed one, and none of them was pruned.                              *)
LEMMA IntactReadable ==
    ASSUME RestOK, NEW q, q.index \in Nat, q.len \in Nat, q.len = 0 => q.index = 0,
           q.len > 0 => Start(q) = 0,
           confirmed # None => confirmed <= LastCompleted(q)
    PROVE  /\ UnconfirmedReadable(q)
           /\ NumUnconfirmed(q) > 0 => /\ FirstUnconfirmed(q) \in 0 .. LastCompleted(q)
                                       /\ LastCompleted(q) \in 0 .. (q.index - 1)
<1>1. /\ q.index \in Nat /\ q.len \in Nat /\ (q.len = 0 => q.index = 0)
      /\ confirmed \in Nat \cup {None} /\ SigningOffset(q) \in {0, 1}
  BY DEF RestOK, SigningOffset
<1>2. LastCompleted(q) = q.index - 1 - SigningOffset(q)
  BY DEF LastCompleted
<1>3. CASE ~HasCompleted(q)
  <2>1. NumUnconfirmed(q) = 0
    BY <1>3 DEF NumUnconfirmed
  <2> QED BY <2>1 DEF UnconfirmedReadable
<1>4. CASE HasCompleted(q)
  <2>1. LastCompleted(q) >= 0
    BY <1>4 DEF HasCompleted
  <2>2. q.index > 0
    BY <1>1, <1>2, <2>1
  <2>3. q.len = q.index + 1 /\ Retained(q) = 0 .. q.index
    BY <1>1, <2>2 DEF Start, Retained
  <2>4. NumUnconfirmed(q) = LastCompleted(q) + 1 - FirstOpen
    <3>1. CASE confirmed = None
      BY <1>1, <1>2, <1>4, <2>3, <3>1 DEF NumUnconfirmed, FirstOpen
    <3>2. CASE confirmed # None
      BY <1>1, <1>2, <1>4, <3>2 DEF NumUnconfirmed, FirstOpen
    <3> QED BY <3>1, <3>2
  <2>5. FirstOpen \in Nat /\ FirstOpen <= LastCompleted(q) + 1
    BY <1>1, <1>2, <2>1 DEF FirstOpen, None
  <2>6. FirstUnconfirmed(q) = FirstOpen
    BY <1>1, <1>2, <2>4, <2>5 DEF FirstUnconfirmed
  <2> QED BY <1>1, <1>2, <2>1, <2>3, <2>4, <2>5, <2>6 DEF UnconfirmedReadable
<1> QED BY <1>3, <1>4

(* should_push subtracts as many of the outputs as maybe_step keeps, before *)
(* the two additional ones are put in front: the reserve is not smaller.    *)
LEMMA ReserveIsEnough ==
    ASSUME NEW cp, TxOK(cp), NEW fee \in Nat, ReserveCovers(cp, fee)
    PROVE  ReserveValue(cp, fee) >= 0
<1> DEFINE F == Extended(cp)
           K == Kept(F, MaxOutputs)
           E == Excess(F, MaxOutputs)
           O == Kept(cp.outputs, MaxOutputs)
           X == Excess(cp.outputs, MaxOutputs)
           I == Kept(cp.inputs, MaxInputs)
<1>1. /\ cp.inputs \in Seq(Input) /\ cp.outputs \in Seq(Output)
      /\ MaxInputs \in Nat /\ MaxOutputs \in Nat
  BY LimitsAssumption DEF TxOK
<1>2. /\ F \in Seq(Output) /\ Len(F) = Len(cp.outputs) + 2
      /\ \A k \in 1 .. Len(cp.outputs) : F[k + 2] = cp.outputs[k]
      /\ TotalOut(F) = TotalOut(cp.outputs)
  BY ExtendedParts
<1>3. ReserveValue(cp, fee) = TotalIn(I) - TotalOut(K) - fee
  BY DEF ReserveValue, FrozenInputs, FrozenOutputs, Extended
<1>4. TotalIn(I) >= TotalOut(O) + fee
  BY DEF ReserveCovers
<1> HIDE DEF F
<1>5. /\ K \in Seq(Output) /\ Len(K) = AtMost(Len(F), MaxOutputs)
      /\ E \in Seq(Output) /\ Len(E) = Len(F) - Len(K)
      /\ \A k \in 1 .. Len(E) : E[k] = F[Len(F) + 1 - k]
      /\ IsJoin(F, K, E)
  BY <1>1, <1>2, CutParts
<1>6. /\ O \in Seq(Output) /\ Len(O) = AtMost(Len(cp.outputs), MaxOutputs)
      /\ X \in Seq(Output) /\ Len(X) = Len(cp.outputs) - Len(O)
      /\ \A k \in 1 .. Len(X) : X[k] = cp.outputs[Len(cp.outputs) + 1 - k]
      /\ IsJoin(cp.outputs, O, X)
  <2>1. PICK s \in Seq(Output) : s = cp.outputs
    BY <1>1
  <2>2. /\ Kept(s, MaxOutputs) \in Seq(Output)
        /\ Len(Kept(s, MaxOutputs)) = AtMost(Len(s), MaxOutputs)
        /\ Excess(s, MaxOutputs) \in Seq(Output)
        /\ Len(Excess(s, MaxOutputs)) = Len(s) - Len(Kept(s, MaxOutputs))
        /\ \A k \in 1 .. Len(Excess(s, MaxOutputs)) :
             Excess(s, MaxOutputs)[k] = s[Len(s) + 1 - k]
        /\ IsJoin(s, Kept(s, MaxOutputs), Excess(s, MaxOutputs))
    BY <1>1, CutParts
  <2> QED BY <2>1, <2>2
<1>7. I \in Seq(Input)
  BY <1>1, CutParts
<1> HIDE DEF K, E, O, X, I
<1>8. /\ TotalOut(F) = TotalOut(K) + TotalOut(E)
      /\ TotalOut(cp.outputs) = TotalOut(O) + TotalOut(X)
  BY <1>1, <1>2, <1>5, <1>6, TotalOutJoin
<1>9. /\ TotalOut(K) \in Nat /\ TotalOut(E) \in Nat /\ TotalOut(O) \in Nat
      /\ TotalOut(X) \in Nat /\ TotalIn(I) \in Nat
      /\ Len(cp.outputs) \in Nat /\ Len(X) \in Nat /\ Len(E) \in Nat
  BY <1>1, <1>5, <1>6, <1>7, TotalInType, TotalOutType
<1>10. Len(X) <= Len(E)
  <2>1. PICK l \in Nat, m \in Nat : l = Len(cp.outputs) /\ m = MaxOutputs
    BY <1>1, <1>9
  <2>2. Len(X) = l - AtMost(l, m) /\ Len(E) = (l + 2) - AtMost(l + 2, m)
    BY <1>2, <1>5, <1>6, <2>1
  <2>3. l - AtMost(l, m) <= (l + 2) - AtMost(l + 2, m)
    BY DEF AtMost
  <2> QED BY <2>2, <2>3
<1> DEFINE n == Len(X)
           A == Kept(E, n)
           B == Excess(E, n)
<1>11. /\ A \in Seq(Output) /\ Len(A) = AtMost(Len(E), n)
       /\ \A k \in 1 .. Len(A) : A[k] = E[k]
       /\ B \in Seq(Output) /\ IsJoin(E, A, B)
  BY <1>5, <1>9, CutParts
<1> HIDE DEF A, B
<1>12. Len(A) = Len(X)
  BY <1>9, <1>10, <1>11 DEF AtMost
<1>13. ASSUME NEW k \in 1 .. Len(X) PROVE A[k] = X[k]
  <2>4. k \in 1 .. Len(A) /\ k \in 1 .. Len(E)
    BY <1>9, <1>10, <1>12
  <2>1. A[k] = F[Len(F) + 1 - k]
    BY <1>5, <1>11, <2>4
  <2>2. Len(cp.outputs) + 1 - k \in 1 .. Len(cp.outputs)
    BY <1>1, <1>6, <1>9 DEF AtMost
  <2>3. (Len(cp.outputs) + 1 - k) + 2 = Len(F) + 1 - k
    BY <1>2, <1>9
  <2> QED BY <1>2, <1>6, <2>1, <2>2, <2>3
<1>14. A = X
  BY <1>6, <1>11, <1>12, <1>13, SeqEqual
<1>15. TotalOut(E) = TotalOut(X) + TotalOut(B) /\ TotalOut(B) \in Nat
  BY <1>5, <1>11, <1>14, TotalOutJoin, TotalOutType
<1>16. TotalOut(K) <= TotalOut(O)
  <2>1. TotalOut(K) + TotalOut(E) = TotalOut(O) + TotalOut(X)
    BY <1>2, <1>8
  <2>2. TotalOut(X) <= TotalOut(E)
    BY <1>9, <1>15
  <2> QED BY <1>9, <2>1, <2>2
<1> QED BY <1>3, <1>4, <1>9, <1>16

(* A quorum of a voting power of two or more is not empty.                  *)
LEMMA QuorumNotEmpty ==
    ASSUME RestOK, HasQuorum, TotalPower(validators) # 1
    PROVE  Sigset # {}
<1> SUFFICES ASSUME Sigset = {} PROVE FALSE
  OBVIOUS
<1>1. TotalPower({}) = 0
  <2>1. TotalPower({}) = SumFunctionOnSet([s \in {} |-> Power[s]], {})
    BY DEF TotalPower, SumFunction
  <2> QED BY <2>1, SumEmpty
<1>2. TotalPower(validators) \in Nat
  BY PowerGrows DEF RestOK
<1>3. TotalPower(validators) > 0 /\ 0 >= TotalPower(validators) \div 2
  BY <1>1, Zenon DEF HasQuorum
<1>4. TotalPower(validators) >= 2
  BY <1>2, <1>3
<1> QED BY <1>2, <1>3, <1>4

(* Behind an intact queue that nothing is signed of, a push puts a          *)
(* checkpoint to build, and prune from 0 on leaves it at that.              *)
LEMMA PushIsOnce ==
    ASSUME Whole, TInv, TakeSucceeds(queue), NEW q, q = AfterTake(queue),
           NEW b \in BOOLEAN, NEW r, r = PrunedFrom(Pushed(q, b), 0), r.index # 0
    PROVE  /\ PushedOnce(r, q, q.index) /\ Start(r) = 0
           /\ Retained(r) = 0 .. r.index /\ DOMAIN r.cps = Retained(r)
           /\ DOMAIN r.cps[q.index] = CheckpointFields
<1>1. /\ RestOK /\ QueueOK(queue, now) /\ (queue.len > 0 => Start(queue) = 0)
      /\ ConfirmedIsCompleted
  BY WholeParts
<1>2. /\ q.index = queue.index /\ q.len = queue.len /\ Retained(q) = Retained(queue)
  BY AfterTakeFields
<1>3. Shape(q) /\ LastCompleted(q) = LastCompleted(queue)
  BY AfterTakeInv
<1>4. QueueOK(q, now)
  BY <1>1, TakeType
<1>5. q.len > 0 => Start(q) = 0
  BY <1>1, <1>2 DEF Start
<1> DEFINE p == Pushed(q, b)
           m == q.index
<1>6. /\ p.index = NextIndex(q) /\ p.index \in Nat
      /\ p.index > 0 => p.index - 1 = q.index /\ q.len > 0
      /\ Start(p) = 0
      /\ Retained(q) = 0 .. (p.index - 1)
      /\ \A j \in Retained(q) : p.cps[j] = q.cps[j]
  BY <1>1, <1>4, <1>5, PushedFields
<1>7. QueueOK(p, now)
  BY <1>1, <1>4, PushedType
<1>8. r = PrunedFrom(p, 0)
  OBVIOUS
<1> HIDE DEF p
<1>9. 0 \in Retained(p)
  BY <1>6 DEF Retained
<1>10. /\ QueueOK(r, now) /\ r.index = p.index /\ Start(r) = 0 /\ Retained(r) = 0 .. p.index
  BY <1>7, <1>8, <1>9, PrunedType
<1>11. \A j \in 0 .. p.index : r.cps[j] = p.cps[j]
  BY <1>8 DEF PrunedFrom
<1>12. m \in Nat /\ p.index = m + 1 /\ q.len > 0 /\ m \in Retained(q)
  BY <1>4, <1>6, <1>10 DEF QueueOK
<1>13. q.len = m + 1 /\ r.len = m + 2
  BY <1>4, <1>5, <1>10, <1>12 DEF QueueOK, Start
<1>14. q.cps[m].status = "Building"
  BY <1>3, <1>12 DEF Shape
<1>15. confirmed # None => confirmed <= m - 1
  <2>1. LastCompleted(q) \in Int /\ LastCompleted(q) <= m - 1
    BY <1>3, <1>4, <1>12, CompletedRange
  <2> QED BY <1>1, <1>3, <1>12, <2>1 DEF ConfirmedIsCompleted, RestOK, None
<1>16. \A j \in 0 .. m : r.cps[j] = q.cps[j]
  BY <1>6, <1>11, <1>12
<1>17. PushedOnce(r, q, m)
  BY <1>1, <1>10, <1>12, <1>13, <1>14, <1>15, <1>16 DEF PushedOnce, RestOK
<1>18. DOMAIN r.cps[m] = CheckpointFields
  BY <1>10, <1>12 DEF QueueOK, CheckpointOK
<1> QED BY <1>10, <1>17, <1>18 DEF QueueOK

(* When a checkpoint may be pushed, the headers have reached the heights    *)
(* claimed for all completed ones.                                          *)
LEMMA PushReached ==
    ASSUME Whole, TInv, TakeSucceeds(queue), NEW q, q = AfterTake(queue),
           HeightsReached(queue, height), MayPush(q), q.len > 0
    PROVE  \A j \in 0 .. (q.index - 1) : height - q.cps[j].signedAt >= 0
<1>1. RestOK /\ QueueOK(queue, now) /\ (queue.len > 0 => Start(queue) = 0)
  BY WholeParts
<1>2. /\ q.index = queue.index /\ q.len = queue.len
      /\ \A j \in Retained(queue) : Untaken(q.cps[j], queue.cps[j])
  BY AfterTakeFields
<1>3. queue.index \in Nat /\ Retained(queue) = 0 .. queue.index /\ height \in Nat
  BY <1>1, <1>2 DEF QueueOK, RestOK, Retained
<1> SUFFICES ASSUME NEW j \in 0 .. (queue.index - 1)
             PROVE  height - q.cps[j].signedAt >= 0
  BY <1>2
<1>4. /\ j \in Retained(queue) /\ q.cps[j].signedAt = queue.cps[j].signedAt
      /\ queue.cps[j].signedAt \in Nat
  <2>1. j \in Retained(queue) /\ j \in Int
    BY <1>3
  <2>2. Untaken(q.cps[j], queue.cps[j])
    BY <1>2, <2>1
  <2>3. CheckpointOK(queue.cps[j], now)
    BY <1>1, <2>1 DEF QueueOK
  <2>4. q.cps[j].signedAt = queue.cps[j].signedAt
    BY <2>2 DEF Untaken
  <2>5. queue.cps[j].signedAt \in Nat
    BY <2>3 DEF CheckpointOK
  <2> QED BY <2>1, <2>4, <2>5
<1>5. CASE j < queue.index - 1
  BY <1>3, <1>4, <1>5 DEF HeightsReached
<1>6. CASE j = queue.index - 1
  <2>1. LastCompleted(q) = j
    BY <1>2, <1>3, <1>6 DEF MayPush, LastCompleted, SigningOffset
  <2>2. height >= q.cps[j].signedAt
    BY <2>1 DEF MayPush, HasCompleted
  <2> QED BY <1>3, <1>4, <2>2
<1> QED BY <1>3, <1>5, <1>6

(* The queue w, in which the checkpoint before the last is frozen.          *)
LEMMA SigningFields ==
    ASSUME NEW r, NEW q, NEW m, PushedOnce(r, q, m), Start(r) = 0,
           Retained(r) = 0 .. r.index, DOMAIN r.cps = Retained(r),
           DOMAIN r.cps[m] = CheckpointFields, NEW w, w = WithSigning(r)
    PROVE  /\ w.index = r.index /\ w.len = r.len /\ Start(w) = 0
           /\ LastCompleted(w) = m - 1
           /\ \A j \in 0 .. (m - 1) : w.cps[j] = q.cps[j]
<1> DEFINE a == Advanced(Prev(r), StepFee(r))
<1>1. m \in Nat /\ r.index = m + 1 /\ r.len = m + 2 /\ \A j \in 0 .. m : r.cps[j] = q.cps[j]
  BY DEF PushedOnce
<1>2. Prev(r) = r.cps[m]
  BY <1>1 DEF Prev
<1>3. a.status = "Signing"
  BY <1>2 DEF Advanced, CheckpointFields
<1>4. w = SetCheckpoint(r, m, a)
  BY <1>1 DEF WithSigning
<1> HIDE DEF a
<1>5. m \in Retained(r) /\ DOMAIN r.cps = Retained(r) /\ Start(r) = 0
  BY <1>1
<1>6. /\ w.index = r.index /\ w.len = r.len /\ Start(w) = 0
      /\ Retained(w) = Retained(r) /\ DOMAIN w.cps = Retained(w)
      /\ w.cps[m] = a
      /\ \A j \in Retained(r) : j # m => w.cps[j] = r.cps[j]
  <2>1. m \in Retained(r)
    BY <1>5
  <2>2. /\ w.index = r.index /\ w.len = r.len
        /\ Start(w) = 0
        /\ Retained(w) = Retained(r)
        /\ DOMAIN w.cps = Retained(w)
        /\ w.cps[m] = a
        /\ \A j \in Retained(r) : j # m => w.cps[j] = r.cps[j]
    BY ONLY <2>1, <1>4, <1>5, SetFields
  <2> QED BY <2>2
<1>7. HasSigning(w)
  BY <1>1, <1>3, <1>6 DEF HasSigning
<1>8. LastCompleted(w) = m - 1
  BY <1>1, <1>6, <1>7 DEF LastCompleted, SigningOffset
<1>9. \A j \in 0 .. (m - 1) : w.cps[j] = q.cps[j]
  BY <1>1, <1>6
<1> QED BY <1>6, <1>8, <1>9

(* maybe_step returns no error after a push that prunes nothing.            *)
LEMMA StepAlways ==
    ASSUME Whole, TInv, FundsInv, HeightsReached(queue, height), TakeSucceeds(queue),
           NEW q, q = AfterTake(queue), ShouldPush(q), UnconfirmedReadable(q),
           NEW b \in BOOLEAN, NEW r, r = PrunedFrom(Pushed(q, b), 0)
    PROVE  StepSucceeds(r)
<1> SUFFICES ASSUME r.index > 0
             PROVE  /\ UnconfirmedReadable(r)
                    /\ ReserveValue(Prev(r), StepFee(r)) >= 0
                    /\ \A w \in {WithSigning(r)} :
                          UnconfirmedReadable(w) /\ (NumUnconfirmed(w) > 0 =>
                                /\ BlocksSinceSigned(w, FirstUnconfirmed(w)) >= 0
                                /\ BlocksSinceSigned(w, LastCompleted(w)) >= 0)
  BY DEF StepSucceeds
<1> DEFINE m == q.index
<1>1. /\ PushedOnce(r, q, m) /\ Start(r) = 0
      /\ Retained(r) = 0 .. r.index /\ DOMAIN r.cps = Retained(r)
      /\ DOMAIN r.cps[m] = CheckpointFields
  BY PushIsOnce
<1>2. /\ m \in Nat /\ q.len = m + 1 /\ r.index = m + 1 /\ r.len = m + 2
      /\ \A j \in 0 .. m : r.cps[j] = q.cps[j]
      /\ q.cps[m].status = "Building"
      /\ confirmed # None => confirmed <= m - 1
      /\ confirmed \in Nat \cup {None}
  BY <1>1 DEF PushedOnce
<1>3. RestOK /\ QueueOK(queue, now) /\ (queue.len > 0 => Start(queue) = 0)
  BY WholeParts
<1>4. QueueOK(q, now) /\ q.index = queue.index /\ q.len = queue.len
  BY <1>3, TakeType
<1>5. TxsOK(q)
  BY TakeFunds
<1>6. MayPush(q) /\ ~HasSigning(q) /\ CanPay(q)
  BY <1>2 DEF ShouldPush, MayPush
<1>7. m \in Retained(q)
  BY <1>2 DEF Retained, Start
<1> HIDE DEF m
<1>8. UnconfirmedReadable(r)
  <2>1. r.cps[m].status = "Building" /\ r.index - 1 = m
    BY <1>2
  <2>2. LastCompleted(r) = m
    BY <1>2, <2>1 DEF LastCompleted, SigningOffset, HasSigning
  <2>3. confirmed # None => confirmed <= LastCompleted(r)
    BY <1>2, <2>2 DEF None
  <2>4. r.index \in Nat /\ r.len \in Nat /\ (r.len = 0 => r.index = 0)
    BY <1>2
  <2> QED BY <1>1, <1>3, <2>3, <2>4, IntactReadable
<1>9. ReserveValue(Prev(r), StepFee(r)) >= 0
  <2>1. Prev(r) = q.cps[m] /\ StepFee(r) = CalcFee(r, m)
    BY <1>2 DEF Prev, StepFee
  <2>2. CalcFee(r, m) = CalcFee(q, m)
    BY <1>1, <1>6, SameFee
  <2>3. CalcFee(q, m) \in Nat
    BY <1>3, <1>4, <1>5, <1>7, CalcFeeType
  <2>4. ReserveCovers(q.cps[m], CalcFee(q, m))
    BY <1>6 DEF CanPay, Building, m
  <2>5. TxOK(q.cps[m])
    BY <1>5, <1>7 DEF TxsOK
  <2>6. ReserveValue(q.cps[m], CalcFee(q, m)) >= 0
    BY <2>3, <2>4, <2>5, ReserveIsEnough
  <2> QED BY <2>1, <2>2, <2>6
<1>10. ASSUME NEW w, w = WithSigning(r)
       PROVE  UnconfirmedReadable(w) /\ (NumUnconfirmed(w) > 0 =>
                    /\ BlocksSinceSigned(w, FirstUnconfirmed(w)) >= 0
                    /\ BlocksSinceSigned(w, LastCompleted(w)) >= 0)
  <2>1. /\ w.index = r.index /\ w.len = r.len /\ Start(w) = 0
        /\ LastCompleted(w) = m - 1
        /\ \A j \in 0 .. (m - 1) : w.cps[j] = q.cps[j]
    BY <1>1, <1>10, SigningFields
  <2>2. w.index \in Nat /\ w.len \in Nat /\ (w.len = 0 => w.index = 0)
    BY <1>2, <2>1
  <2>3. confirmed # None => confirmed <= LastCompleted(w)
    BY <1>2, <2>1
  <2>4. /\ UnconfirmedReadable(w)
        /\ NumUnconfirmed(w) > 0 => /\ FirstUnconfirmed(w) \in 0 .. LastCompleted(w)
                                    /\ LastCompleted(w) \in 0 .. (w.index - 1)
    BY <1>3, <2>1, <2>2, <2>3, IntactReadable
  <2>5. \A j \in 0 .. (m - 1) : height - q.cps[j].signedAt >= 0
    <3>1. q.len > 0
      BY <1>2
    <3> QED BY <1>6, <3>1, PushReached DEF m
  <2>6. \A j \in 0 .. (m - 1) : BlocksSinceSigned(w, j) >= 0
    BY <2>1, <2>5 DEF BlocksSinceSigned
  <2>7. ASSUME NumUnconfirmed(w) > 0
        PROVE  FirstUnconfirmed(w) \in 0 .. (m - 1) /\ LastCompleted(w) \in 0 .. (m - 1)
    BY <1>2, <2>1, <2>4, <2>7
  <2> QED BY <2>4, <2>6, <2>7
<1> QED BY <1>8, <1>9, <1>10

(* Were a checkpoint pushed now, prune would remove none.                   *)
PrunesNothing ==
    /\ Intact
    /\ queue.len > 0 => \/ queue.index + 2 <= MinCheckpoints
                        \/ now - queue.cps[0].createTime <= MaxAge

(* Then prune stops at once.                                                *)
LEMMA NothingPruned ==
    ASSUME Whole, TInv, TakeSucceeds(queue), PrunesNothing, NEW q, q = AfterTake(queue),
           NEW b \in BOOLEAN, NEW p, p = Pushed(q, b),
           NEW i \in Retained(p), IsPrunedStart(p, i)
    PROVE  i = 0
<1>1. RestOK /\ QueueOK(queue, now) /\ (queue.len > 0 => Start(queue) = 0)
  BY WholeParts
<1>2. /\ q.index = queue.index /\ q.len = queue.len /\ Retained(q) = Retained(queue)
      /\ \A j \in Retained(queue) : Untaken(q.cps[j], queue.cps[j])
  BY AfterTakeFields
<1>3. QueueOK(q, now) /\ (q.len > 0 => Start(q) = 0)
  BY <1>1, <1>2, TakeType DEF Start
<1>4. /\ p.index = NextIndex(q) /\ p.index \in Nat
      /\ p.index > 0 => p.index - 1 = q.index /\ q.len > 0
      /\ Start(p) = 0
      /\ Retained(q) = 0 .. (p.index - 1)
      /\ \A j \in Retained(q) : p.cps[j] = q.cps[j]
      /\ p.cps[p.index] = Newest(b)
  BY <1>1, <1>3, PushedFields
<1>5. i \in 0 .. p.index
  BY <1>4 DEF Retained
<1> SUFFICES ASSUME i > 0 PROVE FALSE
  BY <1>5
<1>6. p.index > 0 /\ 0 \in Start(p) .. (i - 1) /\ 0 \in Retained(q)
  BY <1>4, <1>5
<1>7. ~PruneStops(p, 0)
  BY <1>6 DEF IsPrunedStart
<1>8. Building(p).createTime = now
  BY <1>1, <1>4, NewestTx DEF Building
<1>9. p.cps[0].createTime = queue.cps[0].createTime
  BY <1>2, <1>4, <1>6 DEF Untaken
<1>10. p.index + 1 - 0 = queue.index + 2 /\ queue.len > 0
  <2>1. queue.index \in Nat /\ p.index - 1 = queue.index
    BY <1>1, <1>2, <1>4, <1>6 DEF QueueOK
  <2> QED BY <1>2, <1>4, <1>6, <2>1
<1> QED BY <1>7, <1>8, <1>9, <1>10 DEF PruneStops, PrunesNothing

(* The end block succeeds in every state of the invariant.                  *)
LEMMA EndBlockAlways ==
    ASSUME EInv, PrunesNothing, TotalPower(validators) # 1
    PROVE  EndBlockSucceeds
<1>1. /\ Whole /\ TInv /\ FundsInv /\ HeightsReached(queue, height)
  BY DEF EInv, HInv, SInv, FInv, IInv, PrunesNothing
<1>2. /\ RestOK /\ QueueOK(queue, now) /\ (queue.len > 0 => Start(queue) = 0)
      /\ ConfirmedIsCompleted
  BY <1>1, WholeParts
<1>3. TakeSucceeds(queue)
  BY <1>1, TakeAlways
<1> DEFINE q == AfterTake(queue)
           b == ~ReachedCapacity(q)
           p == Pushed(q, b)
<1>4. q = AfterTake(queue) /\ b \in BOOLEAN /\ p = Pushed(q, b)
  OBVIOUS
<1> HIDE DEF q, b, p
<1>5. /\ q.index = queue.index /\ q.len = queue.len /\ Retained(q) = Retained(queue)
      /\ \A j \in Retained(queue) : Untaken(q.cps[j], queue.cps[j])
  BY <1>1, <1>3, <1>4, AfterTakeFields
<1>6. LastCompleted(q) = LastCompleted(queue)
  BY <1>1, <1>3, <1>4, AfterTakeInv
<1>7. q.index \in Nat /\ q.len \in Nat /\ (q.len = 0 => q.index = 0)
  BY <1>2, <1>5 DEF QueueOK
<1>8. UnconfirmedReadable(q)
  <2>1. q.len > 0 => Start(q) = 0
    BY <1>2, <1>5 DEF Start
  <2>2. confirmed # None => confirmed <= LastCompleted(q)
    BY <1>2, <1>6 DEF ConfirmedIsCompleted
  <2> QED BY <1>2, <1>7, <2>1, <2>2, IntactReadable
<1>9. ValueLockedSucceeds(q)
  <2> SUFFICES ASSUME HasCompleted(q) PROVE q.cps[LastCompleted(q)].outputs # <<>>
    BY DEF ValueLockedSucceeds
  <2> DEFINE l == LastCompleted(q)
  <2>1. l >= 0 /\ l \in Int /\ l <= q.index - 1
    BY <1>7 DEF HasCompleted, LastCompleted, SigningOffset
  <2>2. l \in Retained(queue) /\ l < queue.index
    BY <1>2, <1>5, <1>7, <2>1 DEF Retained
  <2> HIDE DEF l
  <2>3. Len(queue.cps[l].outputs) >= 2
    BY <1>1, <2>2 DEF FundsInv, Ledger, HasExtras, Outs
  <2>4. q.cps[l].outputs = queue.cps[l].outputs
    BY <1>5, <2>2 DEF Untaken
  <2>5. Len(<<>>) = 0
    OBVIOUS
  <2>6. q.cps[l].outputs # <<>>
    BY <2>3, <2>4, <2>5
  <2> QED BY <2>6 DEF l
<1>10. ShouldPushSucceeds(q)
  BY <1>8 DEF ShouldPushSucceeds
<1>11. ASSUME ShouldPush(q) PROVE Sigset # {}
  BY <1>2, <1>11, QuorumNotEmpty DEF ShouldPush
<1>12. ASSUME ShouldPush(q), NEW i \in Retained(p), IsPrunedStart(p, i)
       PROVE  StepSucceeds(PrunedFrom(p, i))
  <2>1. i = 0
    BY <1>1, <1>3, <1>4, <1>12, NothingPruned
  <2>2. \A r : r = PrunedFrom(Pushed(q, b), 0) => StepSucceeds(r)
    BY <1>1, <1>3, <1>4, <1>8, <1>12, StepAlways
  <2> QED BY <1>4, <2>1, <2>2
<1> QED BY <1>3, <1>9, <1>10, <1>11, <1>12 DEF EndBlockSucceeds, q, b, p

(* begin_block_step: as long as no reorganisation lowers the height, nothing *)
(* was pruned and this block's push would prune nothing, the end block      *)
(* returns no error and does not panic: take_pending_completed and          *)
(* num_unconfirmed read checkpoints that are there, value_locked finds an   *)
(* output, the reserve covers the frozen transaction, and no claimed height *)
(* is subtracted before the headers have reached it.  (With a total voting  *)
(* power of one a quorum may be empty, and offline_signers panics.)         *)
THEOREM EndBlockNeverFails ==
    Spec /\ [][height' >= height]_vars
        => [](PrunesNothing /\ TotalPower(validators) # 1 => EndBlockSucceeds)
<1>1. Init => EInv
  <2> SUFFICES ASSUME Init PROVE EInv
    OBVIOUS
  <2>1. Retained(queue) = {}
    BY DEF Init, Retained, Start
  <2> QED BY <2>1, InitHInv DEF EInv, HeightsReached
<1>2. EInv => (PrunesNothing /\ TotalPower(validators) # 1 => EndBlockSucceeds)
  BY EndBlockAlways
<1> QED BY <1>1, <1>2, NextEInv, PTL DEF Spec

===============================================================================
