----------------------------- MODULE BridgeProofs -----------------------------
(***************************************************************************)
(* Type correctness of Bridge, in every reachable state: also once          *)
(* checkpoints were pruned and DequeExtension::set writes to the wrong      *)
(* ones, what is written is still a checkpoint, and it is still written     *)
(* inside the deque.                                                        *)
(*                                                                         *)
(* And what Bridge guarantees until the first checkpoint is pruned, for     *)
(* every number of deposits, withdrawals, signers and checkpoints, and for  *)
(* every value of the configuration.                                        *)
(*                                                                         *)
(* The invariant is the conjunction of the type invariant and of four       *)
(* invariants that none is inductive alone, claimed of an intact queue.     *)
(* The end block is the one hard step: it composes AfterTake, Pushed,       *)
(* PrunedFrom and Stepped, and the lemmas below describe what each of them  *)
(* does to a queue.                                                         *)
(*                                                                         *)
(* The second half is about the checkpoint transactions and the money in    *)
(* them, also until the first checkpoint is pruned: what a transaction      *)
(* spends and pays as its parts are added and moved over the limits, and    *)
(* the balance over all checkpoints.                                        *)
(***************************************************************************)
EXTENDS Bridge, SequenceTheorems, SumTheorems, WellFoundedInduction

-----------------------------------------------------------------------------
(* Type correctness.                                                        *)

(* The part of TypeOK that speaks of the queue, for any queue q and time t. *)

CheckpointOK(cp, t) ==
    /\ DOMAIN cp = CheckpointFields
    /\ cp.status \in Statuses
    /\ cp.createTime \in 0 .. t
    /\ cp.signedAt \in Nat
    /\ cp.depositsEnabled \in BOOLEAN
    /\ \A p \in cp.pending : p.dep \in Deposits

QueueOK(q, t) ==
    /\ q.index \in Nat
    /\ q.len \in 0 .. (q.index + 1)
    /\ q.len = 0 => q.index = 0
    /\ DOMAIN q.cps = Retained(q)
    /\ \A i \in Retained(q) : CheckpointOK(q.cps[i], t)

(* TypeOK without its conjuncts on the queue.                               *)
RestOK ==
    /\ confirmed \in Nat \cup {None}
    /\ firstUnhandled \in Nat
    /\ processed \subseteq Deposits
    /\ \A r \in recovery : r.dep \in Deposits
    /\ validators \subseteq Signers
    /\ keys \subseteq Signers
    /\ height \in Nat
    /\ now \in Nat
    /\ requested \subseteq Withdrawals
    /\ \A c \in credited : c.dep \in Deposits

(* TypeOK is the typing of the queue and of the other variables.            *)
LEMMA TypeOKParts == TypeOK <=> QueueOK(queue, now) /\ RestOK
  BY DEF TypeOK, QueueOK, CheckpointOK, RestOK

(* relay_checkpoint confirms a checkpoint of the queue, and the index of    *)
(* the one being built never falls.                                         *)
ConfirmedKnown == confirmed # None => confirmed <= queue.index

(* The inductive invariant: take_pending_confirmed reads the checkpoints up *)
(* to confirmed_index, so TypeOK alone is not enough.                       *)
TInv == TypeOK /\ ConfirmedKnown

(* The invariant in terms of its parts, now and next.                       *)
LEMMA TInvParts == TInv <=> QueueOK(queue, now) /\ RestOK /\ ConfirmedKnown
  BY TypeOKParts DEF TInv

(* The same of the next state.                                              *)
LEMMA TInvPartsNext ==
    TInv' <=> QueueOK(queue', now') /\ RestOK' /\ ConfirmedKnown'
<1>1. (TInv <=> QueueOK(queue, now) /\ RestOK /\ ConfirmedKnown)'
  BY TInvParts, PTL
<1> QED BY <1>1

-----------------------------------------------------------------------------
(* A nonempty set of naturals with an upper bound has a maximum.            *)
LEMMA MaxMember ==
    ASSUME NEW b \in Nat, NEW U, U \subseteq 0 .. b, U # {}
    PROVE  Max(U) \in U
<1> DEFINE T == {n \in Nat : \E x \in U : n = b - x}
<1>1. T \subseteq Nat /\ T # {}
  <2>1. PICK x \in U : TRUE
    OBVIOUS
  <2>2. b - x \in T
    BY <2>1
  <2> QED BY <2>2
<1> DEFINE R == {ss \in Nat \X Nat : ss[1] < ss[2]}
<1>2. IsWellFoundedOn(R, Nat)
  BY NatLessThanWellFounded DEF OpToRel
<1>3. PICK m \in T : \A y \in T : ~(<<y, m>> \in R)
  <2> HIDE DEF T, R
  <2> QED BY <1>1, <1>2, WFMin
<1>4. PICK x \in U : m = b - x
  OBVIOUS
<1>5. ASSUME NEW y \in U PROVE x >= y
  <2>1. x \in Int /\ y \in Int /\ b - y \in T /\ m \in Nat
    OBVIOUS
  <2>2. ~(<<b - y, m>> \in R)
    BY <1>3, <2>1
  <2>3. ~(b - y < m)
    BY <2>1, <2>2
  <2> QED BY <1>4, <2>1, <2>3
<1> QED BY <1>5 DEF Max

-----------------------------------------------------------------------------
(* What set and the loops of take_pending_* write is inside the deque.      *)

(* SetCheckpoint keeps a queue a queue, wherever it writes.                 *)
LEMMA SetType ==
    ASSUME NEW q, NEW u, QueueOK(q, u), NEW i, NEW cp, CheckpointOK(cp, u),
           NEW t, t = SetCheckpoint(q, i, cp)
    PROVE  /\ QueueOK(t, u)
           /\ t.index = q.index /\ t.len = q.len
           /\ Retained(t) = Retained(q)
<1>1. /\ t.index = q.index /\ t.len = q.len
      /\ t.cps = [j \in DOMAIN q.cps |-> IF j = i - Start(q) THEN cp ELSE q.cps[j]]
  BY DEF SetCheckpoint
<1>2. Retained(t) = Retained(q)
  BY <1>1 DEF Retained, Start
<1>3. DOMAIN q.cps = Retained(q) /\ DOMAIN t.cps = Retained(q)
  BY <1>1 DEF QueueOK
<1>4. \A j \in Retained(q) : CheckpointOK(t.cps[j], u)
  <2> TAKE j \in Retained(q)
  <2>1. t.cps[j] = IF j = i - Start(q) THEN cp ELSE q.cps[j]
    BY <1>1, <1>3
  <2> QED BY <2>1 DEF QueueOK
<1> QED BY <1>1, <1>2, <1>3, <1>4 DEF QueueOK

(* ClearPending keeps a queue a queue when the checkpoints S can be read.   *)
LEMMA ClearType ==
    ASSUME NEW q, NEW u, QueueOK(q, u), NEW S, S \subseteq Retained(q),
           NEW t, t = ClearPending(q, S)
    PROVE  /\ QueueOK(t, u)
           /\ t.index = q.index /\ t.len = q.len
           /\ Retained(t) = Retained(q)
<1>1. /\ t.index = q.index /\ t.len = q.len
      /\ t.cps = [j \in DOMAIN q.cps |->
                    IF j + Start(q) \in S
                    THEN [q.cps[j + Start(q)] EXCEPT !.pending = {}]
                    ELSE q.cps[j]]
  BY DEF ClearPending
<1>2. Retained(t) = Retained(q)
  BY <1>1 DEF Retained, Start
<1>3. DOMAIN q.cps = Retained(q) /\ DOMAIN t.cps = Retained(q)
  BY <1>1 DEF QueueOK
<1>4. \A k \in S : CheckpointOK([q.cps[k] EXCEPT !.pending = {}], u)
  <2> TAKE k \in S
  <2>1. CheckpointOK(q.cps[k], u)
    BY DEF QueueOK
  <2> QED BY <2>1 DEF CheckpointOK, CheckpointFields
<1>5. \A j \in Retained(q) : CheckpointOK(t.cps[j], u)
  <2> TAKE j \in Retained(q)
  <2>1. t.cps[j] = IF j + Start(q) \in S
                   THEN [q.cps[j + Start(q)] EXCEPT !.pending = {}]
                   ELSE q.cps[j]
    BY <1>1, <1>3
  <2>2. CASE j + Start(q) \in S
    BY <2>1, <2>2, <1>4
  <2>3. CASE j + Start(q) \notin S
    BY <2>1, <2>3 DEF QueueOK
  <2> QED BY <2>2, <2>3
<1> QED BY <1>1, <1>2, <1>3, <1>5 DEF QueueOK

(* take_pending_confirmed reads only checkpoints of the queue: an index     *)
(* that was pruned is caught, and none is above confirmed_index.            *)
LEMMA UnhandledType ==
    ASSUME TInv
    PROVE  /\ UnhandledConfirmed(queue) \subseteq Retained(queue)
           /\ UnhandledConfirmed(queue) # {} => Max(UnhandledConfirmed(queue)) \in Nat
<1> DEFINE U == UnhandledConfirmed(queue)
<1>1. QueueOK(queue, now) /\ RestOK /\ ConfirmedKnown
  BY TInvParts
<1>2. CASE confirmed = None \/ firstUnhandled < Start(queue)
  BY <1>2 DEF UnhandledConfirmed
<1>3. CASE ~(confirmed = None \/ firstUnhandled < Start(queue))
  <2>1. /\ confirmed \in Nat /\ confirmed <= queue.index
        /\ firstUnhandled \in Nat /\ Start(queue) <= firstUnhandled
        /\ Start(queue) \in Int /\ queue.index \in Nat
    BY <1>1, <1>3 DEF RestOK, ConfirmedKnown, QueueOK, Start, None
  <2>2. U \subseteq firstUnhandled .. confirmed
    BY <1>3 DEF UnhandledConfirmed
  <2>3. U \subseteq Retained(queue)
    BY <2>1, <2>2 DEF Retained
  <2>4. U \subseteq 0 .. confirmed
    BY <2>1, <2>2
  <2>5. U # {} => Max(U) \in Nat
    BY <2>1, <2>4, MaxMember
  <2> QED BY <2>3, <2>5
<1> QED BY <1>2, <1>3

(* take_pending_completed leaves a queue, and takes transfers of deposits.  *)
LEMMA TakeType ==
    ASSUME TInv, TakeSucceeds(queue)
    PROVE  /\ QueueOK(AfterTake(queue), now)
           /\ AfterTake(queue).index = queue.index
           /\ AfterTake(queue).len = queue.len
           /\ \A c \in TakenTransfers(queue) : c.dep \in Deposits
<1> DEFINE r == AfterConfirmed(queue)
<1>1. QueueOK(queue, now)
  BY TInvParts
<1>2. UnhandledConfirmed(queue) \subseteq Retained(queue)
  BY UnhandledType
<1>3. /\ QueueOK(r, now) /\ Retained(r) = Retained(queue)
      /\ r.index = queue.index /\ r.len = queue.len
  BY <1>1, <1>2, ClearType DEF AfterConfirmed
<1>4. UnconfirmedCompleted(r) \subseteq Retained(queue)
  BY DEF TakeSucceeds
<1>5. AfterTake(queue) = ClearPending(r, UnconfirmedCompleted(r))
  BY DEF AfterTake
<1> HIDE DEF r
<1>6. /\ QueueOK(AfterTake(queue), now)
      /\ AfterTake(queue).index = queue.index
      /\ AfterTake(queue).len = queue.len
  BY <1>3, <1>4, <1>5, ClearType
<1>7. \A S : S \subseteq Retained(queue) =>
        \A c \in Transfers(queue, S) : c.dep \in Deposits
  BY <1>1 DEF Transfers, QueueOK, CheckpointOK
<1>8. \A c \in Transfers(r, UnconfirmedCompleted(r)) : c.dep \in Deposits
  BY <1>3, <1>4 DEF Transfers, QueueOK, CheckpointOK
<1>9. TakenTransfers(queue) \subseteq
        Transfers(queue, UnhandledConfirmed(queue)) \cup Transfers(r, UnconfirmedCompleted(r))
  BY DEF TakenTransfers, r
<1> QED BY <1>2, <1>6, <1>7, <1>8, <1>9

-----------------------------------------------------------------------------
(* maybe_push, prune and maybe_step.                                        *)

(* prune keeps the checkpoint before the one being built: it stops at       *)
(* MinCheckpoints.                                                          *)
LEMMA PruneKeeps ==
    ASSUME NEW p, p.index \in Nat, p.len \in 2 .. (p.index + 1),
           NEW i \in Retained(p), IsPrunedStart(p, i)
    PROVE  i \in Nat /\ i <= p.index - 1
<1>1. i \in Nat /\ Start(p) \in Nat /\ Start(p) <= p.index - 1 /\ i <= p.index
  BY DEF Retained, Start
<1>2. SUFFICES ASSUME i = p.index PROVE FALSE
  BY <1>1
<1>3. p.index - 1 \in Start(p) .. (i - 1)
  BY <1>1, <1>2
<1>4. PruneStops(p, p.index - 1)
  BY QueueAssumption DEF PruneStops
<1> QED BY <1>3, <1>4 DEF IsPrunedStart

(* Checkpoint::new is a checkpoint of the current time.                     *)
LEMMA NewCheckpointOK ==
    ASSUME RestOK, NEW b \in BOOLEAN
    PROVE  /\ CheckpointOK(NewCheckpoint, now)
           /\ CheckpointOK([NewCheckpoint EXCEPT !.depositsEnabled = b], now)
  BY DEF CheckpointOK, CheckpointFields, Statuses, NewCheckpoint, RestOK

(* The queue after push_back.                                               *)
LEMMA PushBackFields ==
    ASSUME NEW q, NEW u, QueueOK(q, u), NEW cp, NEW p, p = PushBack(q, cp)
    PROVE  /\ p.index = NextIndex(q) /\ p.len = q.len + 1
           /\ p.index \in Nat /\ p.len \in 1 .. (p.index + 1)
           /\ p.index > 0 => q.len > 0 /\ p.index - 1 = q.index
           /\ p.index = 0 => q.len = 0
           /\ q.len > 0 => Start(p) = Start(q)
           /\ Retained(p) = Retained(q) \cup {p.index}
           /\ p.index \notin Retained(q)
           /\ p.cps = [j \in Retained(p) |-> IF j = p.index THEN cp ELSE q.cps[j]]
<1> DEFINE n == NextIndex(q)
<1>1. /\ q.index \in Nat /\ q.len \in 0 .. (q.index + 1)
      /\ q.len = 0 => q.index = 0
  BY DEF QueueOK
<1>2. /\ p.index = n /\ p.len = q.len + 1
      /\ p.cps = [j \in Retained(q) \cup {n} |-> IF j = n THEN cp ELSE q.cps[j]]
  BY DEF PushBack
<1>3. /\ n \in Nat
      /\ n > 0 => q.len > 0 /\ n - 1 = q.index
      /\ n = 0 => q.len = 0
  BY <1>1 DEF NextIndex
<1>4. Retained(p) = (n + 1 - (q.len + 1)) .. n
  BY <1>2 DEF Retained, Start
<1>5. Retained(q) = (q.index + 1 - q.len) .. q.index
  BY DEF Retained, Start
<1>6. Retained(p) = Retained(q) \cup {n} /\ n \notin Retained(q)
  <2>1. CASE q.len = 0
    <3>1. n = 0 /\ q.index = 0
      BY <1>1, <2>1 DEF NextIndex
    <3>2. Retained(p) = 0 .. 0 /\ Retained(q) = 1 .. 0
      BY <1>4, <1>5, <2>1, <3>1
    <3> QED BY <3>1, <3>2
  <2>2. CASE q.len > 0
    <3>1. n = q.index + 1
      BY <1>1, <2>2 DEF NextIndex
    <3>2. n + 1 - (q.len + 1) = q.index + 1 - q.len
      BY <1>1, <3>1
    <3>3. Retained(p) = (q.index + 1 - q.len) .. (q.index + 1)
      BY <1>4, <3>1, <3>2
    <3>4. q.index + 1 - q.len \in Int /\ q.index + 1 - q.len <= q.index + 1
      BY <1>1
    <3>5. \A a, b \in Int : a <= b + 1 => /\ a .. (b + 1) = a .. b \cup {b + 1}
                                         /\ b + 1 \notin a .. b
      OBVIOUS
    <3>6. q.index \in Int
      BY <1>1
    <3> HIDE DEF n
    <3> QED BY <1>5, <3>1, <3>3, <3>4, <3>5, <3>6
  <2> QED BY <1>1, <2>1, <2>2
<1>7. q.len > 0 => Start(p) = Start(q)
  BY <1>1, <1>2 DEF Start, NextIndex
<1>8. p.len \in 1 .. (p.index + 1)
  BY <1>1, <1>2, <1>3
<1> HIDE DEF n
<1>9. p.cps = [j \in Retained(p) |-> IF j = p.index THEN cp ELSE q.cps[j]]
  BY <1>2, <1>6
<1> QED BY <1>2, <1>3, <1>6, <1>7, <1>8, <1>9 DEF n

(* push_back of a new checkpoint leaves a queue.                            *)
LEMMA PushBackType ==
    ASSUME RestOK, NEW q, QueueOK(q, now), NEW k, k = PushBack(q, NewCheckpoint)
    PROVE  QueueOK(k, now) /\ Building(k) = NewCheckpoint
<1>1. /\ k.index \in Nat /\ k.len \in 1 .. (k.index + 1)
      /\ Retained(k) = Retained(q) \cup {k.index}
      /\ k.cps = [j \in Retained(k) |-> IF j = k.index THEN NewCheckpoint ELSE q.cps[j]]
  BY PushBackFields
<1>2. ASSUME NEW j \in Retained(k) PROVE CheckpointOK(k.cps[j], now)
  <2>1. k.cps[j] = IF j = k.index THEN NewCheckpoint ELSE q.cps[j]
    BY <1>1
  <2>2. CASE j = k.index
    BY <2>1, <2>2, NewCheckpointOK
  <2>3. CASE j # k.index
    BY <2>1, <2>3, <1>1 DEF QueueOK
  <2> QED BY <2>2, <2>3
<1>3. QueueOK(k, now)
  <2>1. DOMAIN k.cps = Retained(k)
    BY <1>1
  <2>2. k.index \in Nat /\ k.len \in 0 .. (k.index + 1) /\ k.len # 0
    BY <1>1
  <2> QED BY <1>2, <2>1, <2>2 DEF QueueOK
<1>4. Building(k) = NewCheckpoint
  BY <1>1 DEF Building
<1> QED BY <1>3, <1>4

(* maybe_push leaves a queue.                                               *)
LEMMA PushedType ==
    ASSUME RestOK, NEW q, QueueOK(q, now), NEW b \in BOOLEAN, NEW p, p = Pushed(q, b)
    PROVE  /\ QueueOK(p, now)
           /\ p.index = NextIndex(q) /\ p.len = q.len + 1
           /\ p.index > 0 => q.len > 0 /\ p.index - 1 = q.index
<1> DEFINE k == PushBack(q, NewCheckpoint)
<1>1. /\ k.index = NextIndex(q) /\ k.len = q.len + 1
      /\ k.index > 0 => q.len > 0 /\ k.index - 1 = q.index
  BY PushBackFields
<1>2. p = SetCheckpoint(k, k.index, [Building(k) EXCEPT !.depositsEnabled = b])
  BY DEF Pushed, SetBuilding
<1>3. QueueOK(k, now) /\ Building(k) = NewCheckpoint
  BY PushBackType
<1> HIDE DEF k
<1>4. CheckpointOK([Building(k) EXCEPT !.depositsEnabled = b], now)
  BY <1>3, NewCheckpointOK
<1>5. QueueOK(p, now) /\ p.index = k.index /\ p.len = k.len
  BY <1>2, <1>3, <1>4, SetType
<1> QED BY <1>1, <1>5

(* prune leaves a queue that starts at the first checkpoint it keeps.       *)
LEMMA PrunedType ==
    ASSUME NEW p, NEW u, QueueOK(p, u), NEW i \in Retained(p),
           NEW r, r = PrunedFrom(p, i)
    PROVE  /\ QueueOK(r, u)
           /\ r.index = p.index /\ Start(r) = i
           /\ Retained(r) = i .. p.index
<1>1. /\ p.index \in Nat /\ i \in Nat /\ i <= p.index
      /\ Start(p) \in Int /\ Start(p) <= i
  BY DEF QueueOK, Retained, Start
<1>2. /\ r.index = p.index /\ r.len = p.index + 1 - i
      /\ r.cps = [j \in i .. p.index |-> p.cps[j]]
  BY DEF PrunedFrom
<1>3. Start(r) = i
  BY <1>1, <1>2 DEF Start
<1>4. Retained(r) = i .. p.index
  BY <1>2, <1>3 DEF Retained
<1>5. i .. p.index \subseteq Retained(p)
  BY <1>1 DEF Retained
<1>6. \A j \in i .. p.index : CheckpointOK(r.cps[j], u)
  BY <1>2, <1>5 DEF QueueOK
<1>7. r.len \in 1 .. (r.index + 1) /\ DOMAIN r.cps = i .. p.index
  BY <1>1, <1>2
<1> QED BY <1>1, <1>2, <1>3, <1>4, <1>6, <1>7 DEF QueueOK

(* maybe_step leaves a queue when the checkpoint before the last is there.  *)
LEMMA SteppedType ==
    ASSUME NEW r, NEW u, QueueOK(r, u), r.len > 0,
           r.index > 0 => r.index - 1 \in Retained(r),
           NEW t, t = Stepped(r)
    PROVE  QueueOK(t, u) /\ t.index = r.index /\ t.len = r.len
<1>1. CASE r.index = 0
  BY <1>1 DEF Stepped
<1>2. CASE r.index # 0
  <2> DEFINE w   == WithSigning(r)
             adv == Advanced(Prev(r), StepFee(r))
             rate == NextFeeRate(w, Prev(r).feeRate)
             ins  == Building(w).inputs \o NextInputs(r)
             outs == Building(w).outputs \o ExcessOutputs(Prev(r))
             bld == [Building(w) EXCEPT !.feeRate = rate, !.inputs = ins, !.outputs = outs]
  <2>1. r.index \in Nat /\ r.index - 1 \in Retained(r)
    BY <1>2 DEF QueueOK
  <2>2. CheckpointOK(Prev(r), u)
    BY <2>1 DEF QueueOK, Prev
  <2>3. CheckpointOK(adv, u)
    BY <2>2 DEF CheckpointOK, CheckpointFields, Statuses, Advanced
  <2>4. w = SetCheckpoint(r, r.index - 1, adv)
    BY DEF WithSigning
  <2>5. t = SetCheckpoint(w, w.index, bld)
    BY <1>2 DEF Stepped, SetBuilding
  <2> HIDE DEF w, adv, rate, ins, outs
  <2>6. /\ QueueOK(w, u) /\ w.index = r.index /\ w.len = r.len
        /\ Retained(w) = Retained(r)
    BY <2>3, <2>4, SetType
  <2>7. w.index \in Retained(w)
    BY <2>1, <2>6 DEF Retained, Start, QueueOK
  <2>8. CheckpointOK(Building(w), u)
    BY <2>6, <2>7 DEF QueueOK, Building
  <2>9. CheckpointOK(bld, u)
    BY <2>8 DEF CheckpointOK, CheckpointFields
  <2> HIDE DEF bld
  <2>10. QueueOK(t, u) /\ t.index = w.index /\ t.len = w.len
    BY <2>5, <2>6, <2>9, SetType
  <2> QED BY <2>6, <2>10
<1> QED BY <1>1, <1>2

(* The three together.                                                      *)
LEMMA PushType ==
    ASSUME RestOK, NEW q, QueueOK(q, now), NEW b \in BOOLEAN,
           NEW p, p = Pushed(q, b), NEW i \in Retained(p), IsPrunedStart(p, i),
           NEW t, t = Stepped(PrunedFrom(p, i))
    PROVE  /\ QueueOK(t, now)
           /\ t.index = NextIndex(q) /\ t.len > 0 /\ Start(t) = i
<1> DEFINE r == PrunedFrom(p, i)
<1>1. /\ QueueOK(p, now)
      /\ p.index = NextIndex(q) /\ p.len = q.len + 1
      /\ p.index > 0 => q.len > 0 /\ p.index - 1 = q.index
  BY PushedType
<1>2. /\ QueueOK(r, now)
      /\ r.index = p.index /\ Start(r) = i
      /\ Retained(r) = i .. p.index
  BY <1>1, PrunedType
<1>3. p.index \in Nat /\ p.len \in 1 .. (p.index + 1) /\ q.len \in Nat
  BY <1>1 DEF QueueOK
<1>4. i \in Nat /\ i <= p.index
  BY <1>3 DEF Retained, Start
<1>5. ASSUME p.index > 0 PROVE i <= p.index - 1
  <2>1. p.len \in 2 .. (p.index + 1)
    BY <1>1, <1>3, <1>5
  <2> QED BY <1>3, <2>1, PruneKeeps
<1>6. r.index > 0 => r.index - 1 \in Retained(r)
  BY <1>2, <1>3, <1>4, <1>5
<1>7. r.len > 0
  BY <1>2, <1>3, <1>4 DEF QueueOK, Start
<1>8. t = Stepped(r)
  OBVIOUS
<1> HIDE DEF r
<1>9. QueueOK(t, now) /\ t.index = r.index /\ t.len = r.len
  BY <1>2, <1>6, <1>7, <1>8, SteppedType
<1> QED BY <1>1, <1>2, <1>7, <1>9 DEF Start

-----------------------------------------------------------------------------
(* One lemma for each message and step.                                     *)

(* A step that leaves confirmed_index alone, and the queue a queue.         *)
LEMMA TypeStep ==
    ASSUME TInv, QueueOK(queue', now'), RestOK', queue'.index >= queue.index,
           UNCHANGED confirmed
    PROVE  TInv'
<1>1. ConfirmedKnown'
  <2>1. QueueOK(queue, now) /\ RestOK /\ ConfirmedKnown
    BY TInvParts
  <2>2. /\ queue.index \in Nat /\ queue'.index \in Nat
        /\ confirmed # None => confirmed \in Nat
    BY <2>1 DEF QueueOK, RestOK
  <2> QED BY <2>1, <2>2 DEF ConfirmedKnown
<1> QED BY <1>1, TInvPartsNext

(* A step that leaves the queue alone, while time does not go back.         *)
LEMMA QuietType ==
    ASSUME TInv, RestOK', now' >= now, UNCHANGED <<queue, confirmed>>
    PROVE  TInv'
<1>1. QueueOK(queue, now) /\ RestOK
  BY TInvParts
<1>2. now \in Nat /\ now' \in Nat
  BY <1>1 DEF RestOK
<1>3. \A cp : CheckpointOK(cp, now) => CheckpointOK(cp, now')
  BY <1>2 DEF CheckpointOK
<1>4. QueueOK(queue', now')
  <2>1. QueueOK(queue, now')
    BY <1>1, <1>3 DEF QueueOK
  <2> QED BY <2>1
<1>5. queue'.index >= queue.index
  BY <1>1 DEF QueueOK
<1> QED BY <1>4, <1>5, TypeStep

(* give_miner_fee writes a checkpoint.                                      *)
LEMMA GiveMinerFeeType ==
    ASSUME TInv, queue.len > 0, NEW units, NEW q, q = GiveMinerFee(queue, units)
    PROVE  /\ QueueOK(q, now) /\ q.index = queue.index /\ q.len = queue.len
           /\ CheckpointOK(Building(q), now)
<1> DEFINE fees == Building(queue).feesCollected + units \div UnitsPerSat
           new  == [Building(queue) EXCEPT !.feesCollected = fees]
<1>1. QueueOK(queue, now)
  BY TInvParts
<1>2. queue.index \in Retained(queue)
  BY <1>1 DEF QueueOK, Retained, Start
<1>3. CheckpointOK(Building(queue), now)
  BY <1>1, <1>2 DEF QueueOK, Building
<1>4. q = SetCheckpoint(queue, queue.index, new)
  BY DEF GiveMinerFee, SetBuilding
<1> HIDE DEF fees
<1>5. CheckpointOK(new, now)
  BY <1>3 DEF CheckpointOK, CheckpointFields
<1> HIDE DEF new
<1>6. /\ QueueOK(q, now) /\ q.index = queue.index /\ q.len = queue.len
      /\ Retained(q) = Retained(queue)
  BY <1>1, <1>4, <1>5, SetType
<1> QED BY <1>2, <1>6 DEF QueueOK, Building

(* relay_deposit, in time                                                   *)
LEMMA RelayDepositType ==
    ASSUME TInv, NEW d \in Deposits, NEW i \in Retained(queue), NEW h,
           RelayDeposit(d, i, h)
    PROVE  TInv'
<1> DEFINE to  == queue.cps[i]
           fee == UserFee(InputVsize(to.signatories), to.feeRate) * UnitsPerSat
           q   == GiveMinerFee(queue, fee)
           tr  == [dep |-> d, amount |-> DepositValue[d] * UnitsPerSat - fee]
           ins == Append(Building(q).inputs,
                         NewInput(DepositOutpoint(d), to.signatories, DepositValue[d]))
           new == [Building(q) EXCEPT !.inputs = ins, !.pending = @ \cup {tr}]
<1>1. /\ queue' = SetCheckpoint(q, q.index, new)
      /\ processed' = processed \cup {d}
      /\ UNCHANGED <<confirmed, firstUnhandled, recovery, validators, keys,
                     height, now, requested, credited>>
  BY DEF RelayDeposit, SetBuilding
<1>2. QueueOK(queue, now) /\ RestOK
  BY TInvParts
<1>3. queue.len > 0
  BY <1>2 DEF QueueOK, Retained, Start
<1>4. /\ QueueOK(q, now) /\ q.index = queue.index
      /\ CheckpointOK(Building(q), now)
  BY <1>3, GiveMinerFeeType
<1>5. tr.dep = d
  OBVIOUS
<1> HIDE DEF q, tr, ins, to, fee
<1>6. CheckpointOK(new, now)
  BY <1>4, <1>5 DEF CheckpointOK, CheckpointFields
<1> HIDE DEF new
<1>7. QueueOK(queue', now) /\ queue'.index = queue.index
  BY <1>1, <1>4, <1>6, SetType
<1>8. RestOK'
  BY <1>1, <1>2 DEF RestOK
<1>9. queue'.index >= queue.index
  BY <1>2, <1>7 DEF QueueOK
<1> QED BY <1>1, <1>7, <1>8, <1>9, TypeStep

(* relay_deposit, expired                                                   *)
LEMMA RelayExpiredType ==
    ASSUME TInv, NEW d \in Deposits, NEW i \in Retained(queue), NEW h,
           RelayExpiredDeposit(d, i, h)
    PROVE  TInv'
<1> DEFINE rc == [dep |-> d, old |-> queue.cps[i].signatories,
                new |-> Building(queue).signatories]
<1>1. /\ recovery' = recovery \cup {rc}
      /\ processed' = processed \cup {d}
      /\ UNCHANGED <<queue, confirmed, firstUnhandled, validators, keys,
                     height, now, requested, credited>>
  BY DEF RelayExpiredDeposit
<1>2. RestOK
  BY TInvParts
<1>3. rc.dep = d
  OBVIOUS
<1> HIDE DEF rc
<1>4. RestOK'
  BY <1>1, <1>2, <1>3 DEF RestOK
<1>5. now' >= now
  BY <1>1, <1>2 DEF RestOK
<1> QED BY <1>1, <1>4, <1>5, QuietType

(* withdraw_to_bitcoin                                                      *)
LEMMA WithdrawType ==
    ASSUME TInv, NEW w \in Withdrawals, WithdrawToBitcoin(w)
    PROVE  TInv'
<1> DEFINE fee   == UserFee(OutVsize, Building(queue).feeRate) * UnitsPerSat
           value == (WithdrawalAmount[w] - fee) \div UnitsPerSat
           q     == GiveMinerFee(queue, fee)
           outs  == Append(Building(q).outputs, WithdrawalOutput(w, value))
           new   == [Building(q) EXCEPT !.outputs = outs]
<1>1. /\ queue.len > 0
      /\ queue' = SetCheckpoint(q, q.index, new)
      /\ requested' = requested \cup {w}
      /\ UNCHANGED <<confirmed, firstUnhandled, processed, recovery, validators,
                     keys, height, now, credited>>
  BY DEF WithdrawToBitcoin, SetBuilding
<1>2. QueueOK(queue, now) /\ RestOK
  BY TInvParts
<1>3. /\ QueueOK(q, now) /\ q.index = queue.index
      /\ CheckpointOK(Building(q), now)
  BY <1>1, GiveMinerFeeType
<1> HIDE DEF q, outs, fee, value
<1>4. CheckpointOK(new, now)
  BY <1>3 DEF CheckpointOK, CheckpointFields
<1> HIDE DEF new
<1>5. QueueOK(queue', now) /\ queue'.index = queue.index
  BY <1>1, <1>3, <1>4, SetType
<1>6. RestOK'
  BY <1>1, <1>2 DEF RestOK
<1>7. queue'.index >= queue.index
  BY <1>2, <1>5 DEF QueueOK
<1> QED BY <1>1, <1>5, <1>6, <1>7, TypeStep

(* relay_checkpoint                                                         *)
LEMMA RelayCheckpointType ==
    ASSUME TInv, NEW i \in Retained(queue), NEW h, RelayCheckpoint(i, h)
    PROVE  TInv'
<1>1. /\ confirmed' = i
      /\ UNCHANGED <<queue, firstUnhandled, processed, recovery, validators, keys,
                     height, now, requested, credited>>
  BY DEF RelayCheckpoint
<1>2. QueueOK(queue, now) /\ RestOK
  BY TInvParts
<1>3. i \in Nat /\ i <= queue.index
  BY <1>2 DEF QueueOK, Retained, Start
<1>4. RestOK' /\ ConfirmedKnown'
  BY <1>1, <1>2, <1>3 DEF RestOK, ConfirmedKnown
<1>5. QueueOK(queue', now')
  BY <1>1, <1>2
<1> QED BY <1>4, <1>5, TInvPartsNext

(* submit_checkpoint_signature                                              *)
LEMMA SignatureType ==
    ASSUME TInv, NEW s \in Signers, NEW i \in Retained(queue), NEW h \in Heights,
           SubmitCheckpointSignature(s, i, h)
    PROVE  TInv'
<1> DEFINE cp  == queue.cps[i]
           at  == IF BecomesSigned(cp, s) THEN h ELSE cp.signedAt
           st  == IF cp.status = "Signing" /\ TxSigned(cp.inputs, cp.sigs \cup {s})
                  THEN "Complete" ELSE cp.status
           new == [cp EXCEPT !.sigs = cp.sigs \cup {s}, !.signedAt = at, !.status = st]
<1>1. UNCHANGED <<confirmed, firstUnhandled, processed, recovery,
                  validators, keys, height, now, requested, credited>>
  BY DEF SubmitCheckpointSignature
<1>2. QueueOK(queue, now) /\ RestOK
  BY TInvParts
<1>3. CheckpointOK(cp, now)
  BY <1>2 DEF QueueOK
<1>4. queue' = SetCheckpoint(queue, i, new)
  BY DEF SubmitCheckpointSignature
<1>5. at \in Nat /\ st \in Statuses
  BY <1>3, QueueAssumption DEF Heights, CheckpointOK, Statuses
<1> HIDE DEF cp, at, st
<1>6. CheckpointOK(new, now)
  BY <1>3, <1>5 DEF CheckpointOK, CheckpointFields
<1> HIDE DEF new
<1>7. QueueOK(queue', now) /\ queue'.index = queue.index
  BY <1>2, <1>4, <1>6, SetType
<1>8. RestOK'
  BY <1>1, <1>2 DEF RestOK
<1>9. queue'.index >= queue.index
  BY <1>2, <1>7 DEF QueueOK
<1> QED BY <1>1, <1>7, <1>8, <1>9, TypeStep

(* take_pending_completed, on the variables other than the queue.           *)
LEMMA TakeRestType ==
    ASSUME TInv, TakePendingCompleted
    PROVE  /\ TakeSucceeds(queue)
           /\ firstUnhandled' \in Nat
           /\ \A c \in credited' : c.dep \in Deposits
<1>1. /\ TakeSucceeds(queue)
      /\ credited' = credited \cup TakenTransfers(queue)
      /\ firstUnhandled' = IF UnhandledConfirmed(queue) = {}
                           THEN firstUnhandled
                           ELSE Max(UnhandledConfirmed(queue)) + 1
  BY DEF TakePendingCompleted
<1>2. RestOK
  BY TInvParts
<1>3. firstUnhandled' \in Nat
  BY <1>1, <1>2, UnhandledType DEF RestOK
<1>4. \A c \in TakenTransfers(queue) : c.dep \in Deposits
  BY <1>1, TakeType
<1> QED BY <1>1, <1>2, <1>3, <1>4 DEF RestOK

(* clock_end_block without a push                                           *)
LEMMA EndBlockQuietType ==
    ASSUME TInv, EndBlockQuiet
    PROVE  TInv'
<1>1. /\ TakePendingCompleted
      /\ queue' = AfterTake(queue)
      /\ UNCHANGED <<confirmed, processed, recovery, validators, keys,
                     height, now, requested>>
  BY DEF EndBlockQuiet
<1>2. /\ TakeSucceeds(queue)
      /\ firstUnhandled' \in Nat
      /\ \A c \in credited' : c.dep \in Deposits
  BY <1>1, TakeRestType
<1>3. QueueOK(queue, now) /\ RestOK
  BY TInvParts
<1>4. QueueOK(queue', now) /\ queue'.index = queue.index
  BY <1>1, <1>2, TakeType
<1>5. RestOK'
  BY <1>1, <1>2, <1>3 DEF RestOK
<1>6. queue'.index >= queue.index
  BY <1>3, <1>4 DEF QueueOK
<1> QED BY <1>1, <1>4, <1>5, <1>6, TypeStep

(* clock_end_block with a push                                              *)
LEMMA EndBlockPushType ==
    ASSUME TInv, EndBlockPush
    PROVE  TInv'
<1> DEFINE q == AfterTake(queue)
           b == ~ReachedCapacity(q)
           p == Pushed(q, b)
<1>1. PICK i \in Retained(p) :
        /\ IsPrunedStart(p, i)
        /\ queue' = Stepped(PrunedFrom(p, i))
        /\ validators' \subseteq validators
        /\ keys' \subseteq keys
  BY DEF EndBlockPush
<1>2. /\ TakePendingCompleted
      /\ UNCHANGED <<confirmed, processed, recovery, height, now, requested>>
  BY DEF EndBlockPush
<1>3. /\ TakeSucceeds(queue)
      /\ firstUnhandled' \in Nat
      /\ \A c \in credited' : c.dep \in Deposits
  BY <1>2, TakeRestType
<1>4. QueueOK(queue, now) /\ RestOK
  BY TInvParts
<1>5. QueueOK(q, now) /\ q.index = queue.index
  BY <1>3, TakeType
<1>6. b \in BOOLEAN
  OBVIOUS
<1> HIDE DEF q, b
<1>7. QueueOK(queue', now) /\ queue'.index = NextIndex(q)
  BY <1>1, <1>4, <1>5, <1>6, PushType
<1>8. queue'.index >= queue.index
  BY <1>4, <1>5, <1>7 DEF NextIndex, QueueOK
<1>9. RestOK'
  BY <1>1, <1>2, <1>3, <1>4 DEF RestOK
<1> QED BY <1>2, <1>7, <1>8, <1>9, TypeStep

-----------------------------------------------------------------------------
(* The state that instantiate leaves is well typed.                         *)
LEMMA InitTInv == Init => TInv
<1> SUFFICES ASSUME Init PROVE TInv
  OBVIOUS
<1>1. queue.index = 0 /\ queue.len = 0 /\ DOMAIN queue.cps = {}
  BY DEF Init
<1>2. Retained(queue) = {}
  BY <1>1 DEF Retained, Start
<1>3. QueueOK(queue, now)
  BY <1>1, <1>2 DEF QueueOK
<1>4. RestOK /\ ConfirmedKnown
  BY DEF Init, RestOK, ConfirmedKnown
<1> QED BY <1>3, <1>4, TInvParts

(* Every message, every end block and every step of the outside keeps it.   *)
LEMMA NextTInv == TInv /\ [Next]_vars => TInv'
<1> SUFFICES ASSUME TInv, [Next]_vars PROVE TInv'
  OBVIOUS
<1>0. RestOK
  BY TInvParts
<1>1. ASSUME NEW d \in Deposits, NEW i \in Retained(queue), NEW h \in 0 .. height,
             RelayDeposit(d, i, h) \/ RelayExpiredDeposit(d, i, h)
      PROVE  TInv'
  BY <1>1, RelayDepositType, RelayExpiredType
<1>2. ASSUME NEW w \in Withdrawals, WithdrawToBitcoin(w) PROVE TInv'
  BY <1>2, WithdrawType
<1>3. ASSUME NEW i \in Retained(queue), NEW h \in 0 .. height, RelayCheckpoint(i, h)
      PROVE  TInv'
  BY <1>3, RelayCheckpointType
<1>4. ASSUME NEW s \in Signers, NEW i \in Retained(queue), NEW h \in Heights,
             SubmitCheckpointSignature(s, i, h)
      PROVE  TInv'
  BY <1>4, SignatureType
<1>5. ASSUME NEW S \in SUBSET Signers, AddValidators(S) PROVE TInv'
  <2>1. RestOK'
    BY <1>0, <1>5 DEF AddValidators, RestOK
  <2> QED BY <1>0, <1>5, <2>1, QuietType DEF AddValidators, RestOK
<1>6. ASSUME NEW s \in Signers, SetSignatoryKey(s) PROVE TInv'
  <2>1. RestOK'
    BY <1>0, <1>6 DEF SetSignatoryKey, RestOK
  <2> QED BY <1>0, <1>6, <2>1, QuietType DEF SetSignatoryKey, RestOK
<1>7. CASE ClockEndBlock
  BY <1>7, EndBlockQuietType, EndBlockPushType DEF ClockEndBlock
<1>8. CASE Tick
  <2>1. RestOK'
    BY <1>0, <1>8 DEF Tick, contractVars, RestOK
  <2> QED BY <1>0, <1>8, <2>1, QuietType DEF Tick, contractVars, RestOK
<1>9. CASE MineBlock
  <2>1. RestOK'
    BY <1>0, <1>9 DEF MineBlock, contractVars, RestOK
  <2> QED BY <1>0, <1>9, <2>1, QuietType DEF MineBlock, contractVars, RestOK
<1>10. CASE Reorg
  <2>1. RestOK'
    BY <1>0, <1>10 DEF Reorg, contractVars, RestOK
  <2> QED BY <1>0, <1>10, <2>1, QuietType DEF Reorg, contractVars, RestOK
<1>11. CASE UNCHANGED vars
  <2>1. RestOK'
    BY <1>0, <1>11 DEF vars, contractVars, RestOK
  <2> QED BY <1>0, <1>11, <2>1, QuietType DEF vars, contractVars, RestOK
<1> QED
  BY <1>1, <1>2, <1>3, <1>4, <1>5, <1>6, <1>7, <1>8, <1>9, <1>10, <1>11 DEF Next

(* The inductive invariant of the types holds in every reachable state.     *)
THEOREM TypeInvariantHolds == Spec => []TInv
  BY InitTInv, NextTInv, PTL DEF Spec

(* Type correctness: the deque of checkpoints always holds consecutive      *)
(* indexes ending at BUILDING_INDEX, prune and set included, and every      *)
(* field keeps its type.                                                    *)
THEOREM TypeCorrect == Spec => []TypeOK
<1>1. TInv => TypeOK
  BY DEF TInv
<1> QED BY <1>1, TypeInvariantHolds, PTL

-----------------------------------------------------------------------------
(* An intact queue.                                                         *)

(* The parts of the invariant that speak of a queue, for any queue q.       *)

Shape(q) ==
    \A i \in Retained(q) :
        /\ q.cps[i].status = "Building" <=> i = q.index
        /\ q.cps[i].status = "Signing" => i = q.index - 1

Emptied(q) ==
    \A i \in Retained(q) : i < q.index - 1 => q.cps[i].pending = {}

(* DepositInOnePlace with its sets of deposits spelled out: proc are the    *)
(* relayed deposits, cr the transfers paid and rec the recoveries.          *)
OnePlace(q, proc, cr, rec) ==
    /\ \A d : d \in proc <=>
            \/ \E c \in cr : c.dep = d
            \/ \E r \in rec : r.dep = d
            \/ \E i \in Retained(q) : \E p \in q.cps[i].pending : p.dep = d
    /\ \A c \in cr, r \in rec : c.dep # r.dep
    /\ \A i \in Retained(q) : \A p \in q.cps[i].pending :
        /\ \A c \in cr : p.dep # c.dep
        /\ \A r \in rec : p.dep # r.dep
        /\ \A j \in Retained(q) : \A p2 \in q.cps[j].pending :
              p.dep = p2.dep => i = j /\ p = p2
    /\ \A c1, c2 \in cr : c1.dep = c2.dep => c1 = c2

(* take_pending_completed takes from these, as long as the queue is intact. *)
TakenFrom(q) == UnhandledConfirmed(q) \cup UnconfirmedCompleted(q)

(* An intact queue is in order.                                             *)
Whole ==
    /\ TypeOK
    /\ Intact
    /\ QueueShape
    /\ ConfirmedIsCompleted
    /\ NothingStranded
    /\ DepositInOnePlace

(* The inductive invariant.                                                 *)
IInv == TInv /\ (Intact => Whole)

-----------------------------------------------------------------------------
(* OnePlace says of the state what DepositInOnePlace says.                  *)
LEMMA OnePlaceParts ==
    DepositInOnePlace <=> OnePlace(queue, processed, credited, recovery)
<1>1. \A i, d : d \in PendingOf(i) <=> \E p \in queue.cps[i].pending : p.dep = d
  BY DEF PendingOf
<1>2. \A d : d \in Paid <=> \E c \in credited : c.dep = d
  BY DEF Paid
<1>3. \A d : d \in Recovered <=> \E r \in recovery : r.dep = d
  BY DEF Recovered
<1>4. ASSUME DepositInOnePlace
      PROVE  OnePlace(queue, processed, credited, recovery)
  <2>1. \A d : d \in processed <=>
            \/ \E c \in credited : c.dep = d
            \/ \E r \in recovery : r.dep = d
            \/ \E i \in Retained(queue) : \E p \in queue.cps[i].pending : p.dep = d
    BY <1>1, <1>2, <1>3, <1>4 DEF DepositInOnePlace
  <2>2. \A c \in credited, r \in recovery : c.dep # r.dep
    BY <1>2, <1>3, <1>4 DEF DepositInOnePlace
  <2>3. ASSUME NEW i \in Retained(queue), NEW p \in queue.cps[i].pending
        PROVE  /\ \A c \in credited : p.dep # c.dep
               /\ \A r \in recovery : p.dep # r.dep
               /\ \A j \in Retained(queue) : \A p2 \in queue.cps[j].pending :
                     p.dep = p2.dep => i = j /\ p = p2
    <3>1. p.dep \in PendingOf(i)
      BY <1>1
    <3>2. p.dep \notin Paid \cup Recovered
      BY <3>1, <1>4 DEF DepositInOnePlace
    <3>3. ASSUME NEW j \in Retained(queue), NEW p2 \in queue.cps[j].pending, p.dep = p2.dep
          PROVE  i = j /\ p = p2
      <4>1. p.dep \in PendingOf(j)
        BY <1>1, <3>3
      <4>2. i = j
        BY <3>1, <4>1, <1>4 DEF DepositInOnePlace
      <4> QED BY <4>2, <3>3, <1>4 DEF DepositInOnePlace
    <3> QED BY <3>2, <3>3, <1>2, <1>3
  <2>4. \A c1, c2 \in credited : c1.dep = c2.dep => c1 = c2
    BY <1>4 DEF DepositInOnePlace
  <2> QED BY <2>1, <2>2, <2>3, <2>4 DEF OnePlace
<1>5. ASSUME OnePlace(queue, processed, credited, recovery)
      PROVE  DepositInOnePlace
  <2>1. processed = Paid \cup Recovered \cup UNION {PendingOf(i) : i \in Retained(queue)}
    BY <1>1, <1>2, <1>3, <1>5 DEF OnePlace
  <2>2. Paid \cap Recovered = {}
    BY <1>2, <1>3, <1>5 DEF OnePlace
  <2>3. ASSUME NEW i \in Retained(queue)
        PROVE  /\ PendingOf(i) \cap (Paid \cup Recovered) = {}
               /\ \A j \in Retained(queue) \ {i} : PendingOf(i) \cap PendingOf(j) = {}
               /\ \A p1, p2 \in queue.cps[i].pending : p1.dep = p2.dep => p1 = p2
    BY <1>1, <1>2, <1>3, <1>5 DEF OnePlace
  <2>4. \A c1, c2 \in credited : c1.dep = c2.dep => c1 = c2
    BY <1>5 DEF OnePlace
  <2> QED BY <2>1, <2>2, <2>3, <2>4 DEF DepositInOnePlace
<1> QED BY <1>4, <1>5

-----------------------------------------------------------------------------
(* In a well-shaped queue the completed checkpoints are those up to         *)
(* last_completed_index.                                                    *)
LEMMA CompletedRange ==
    ASSUME NEW q, NEW t, QueueOK(q, t), Shape(q), NEW i \in Retained(q)
    PROVE  /\ LastCompleted(q) \in Int
           /\ LastCompleted(q) <= q.index - 1
           /\ q.cps[i].status = "Complete" <=> i <= LastCompleted(q)
<1>1. q.index \in Nat /\ q.len \in Nat /\ i \in Int /\ i <= q.index /\ i >= q.index + 1 - q.len
  BY DEF QueueOK, Retained, Start
<1>2. q.cps[i].status \in Statuses
  BY DEF QueueOK, CheckpointOK
<1>3. CASE HasSigning(q)
  <2>1. LastCompleted(q) = q.index - 2
    BY <1>1, <1>3 DEF LastCompleted, SigningOffset
  <2>2. /\ q.index - 1 \in Retained(q)
        /\ q.cps[q.index - 1].status = "Signing"
    BY <1>1, <1>3 DEF HasSigning, Retained, Start
  <2> QED BY <1>1, <1>2, <2>1, <2>2 DEF Shape, Statuses
<1>4. CASE ~HasSigning(q)
  <2>1. LastCompleted(q) = q.index - 1
    BY <1>1, <1>4 DEF LastCompleted, SigningOffset
  <2>2. q.cps[i].status # "Signing"
    <3>1. SUFFICES ASSUME q.cps[i].status = "Signing" PROVE FALSE
      OBVIOUS
    <3>2. i = q.index - 1
      BY <3>1 DEF Shape
    <3> QED BY <1>1, <1>4, <3>1, <3>2 DEF HasSigning
  <2> QED BY <1>1, <1>2, <2>1, <2>2 DEF Shape, Statuses
<1> QED BY <1>3, <1>4

(* take_pending_confirmed: in a well-shaped queue whose confirmed_index is  *)
(* completed, either nothing is left unhandled, or everything up to         *)
(* confirmed_index is.                                                      *)
LEMMA UnhandledRange ==
    ASSUME RestOK, QueueOK(queue, now), Shape(queue), ConfirmedIsCompleted
    PROVE  /\ UnhandledConfirmed(queue) \subseteq Retained(queue)
           /\ UnhandledConfirmed(queue) # {} =>
                /\ confirmed \in Nat
                /\ Max(UnhandledConfirmed(queue)) = confirmed
<1> DEFINE U == UnhandledConfirmed(queue)
<1>1. CASE confirmed = None \/ firstUnhandled < Start(queue)
  BY <1>1 DEF UnhandledConfirmed
<1>2. CASE ~(confirmed = None \/ firstUnhandled < Start(queue))
  <2>1. /\ confirmed \in Nat
        /\ firstUnhandled \in Nat
        /\ Start(queue) \in Int
        /\ queue.index \in Nat
        /\ queue.len \in Nat
        /\ Start(queue) <= firstUnhandled
    BY <1>2 DEF RestOK, QueueOK, Start, None
  <2>2. confirmed <= LastCompleted(queue)
    BY <1>2 DEF ConfirmedIsCompleted
  <2>3. LastCompleted(queue) \in Int /\ LastCompleted(queue) <= queue.index - 1
    BY <2>1 DEF LastCompleted, SigningOffset
  <2>4. firstUnhandled .. confirmed \subseteq Retained(queue)
    BY <2>1, <2>2, <2>3 DEF Retained
  <2>5. \A j \in firstUnhandled .. confirmed : queue.cps[j].status = "Complete"
    <3> TAKE j \in firstUnhandled .. confirmed
    <3>1. j \in Retained(queue) /\ j <= LastCompleted(queue)
      BY <2>1, <2>2, <2>3, <2>4
    <3> QED BY <3>1, CompletedRange
  <2>6. U = firstUnhandled .. confirmed
    <3>1. U = {i \in firstUnhandled .. confirmed :
                 \A j \in firstUnhandled .. i : queue.cps[j].status = "Complete"}
      BY <1>2 DEF UnhandledConfirmed
    <3>2. \A i \in firstUnhandled .. confirmed :
             firstUnhandled .. i \subseteq firstUnhandled .. confirmed
      BY <2>1
    <3> QED BY <3>1, <3>2, <2>5
  <2>7. ASSUME U # {} PROVE Max(U) = confirmed
    <3>1. confirmed \in U /\ \A y \in U : y \in Int /\ confirmed >= y
      BY <2>1, <2>6, <2>7
    <3>2. Max(U) = CHOOSE x \in U : \A y \in U : x >= y
      BY DEF Max
    <3>3. \A x \in U : (\A y \in U : x >= y) => x = confirmed
      BY <3>1, <2>1
    <3> QED BY <3>1, <3>2, <3>3
  <2> QED BY <2>1, <2>4, <2>6, <2>7
<1> QED BY <1>1, <1>2

-----------------------------------------------------------------------------
(* An intact queue in terms of the parts the lemmas speak of.               *)
LEMMA WholeParts ==
    ASSUME Whole
    PROVE  /\ QueueOK(queue, now)
           /\ RestOK
           /\ queue.len > 0 => Start(queue) = 0
           /\ Shape(queue)
           /\ ConfirmedIsCompleted
           /\ Emptied(queue)
           /\ OnePlace(queue, processed, credited, recovery)
  BY TypeOKParts, OnePlaceParts
     DEF Whole, Intact, QueueShape, Shape, NothingStranded, Emptied

(* Shape says of the state what QueueShape says.                            *)
LEMMA ShapeParts == QueueShape <=> Shape(queue)
  BY DEF QueueShape, Shape

(* Emptied says of the state what NothingStranded says.                     *)
LEMMA EmptiedParts == NothingStranded <=> Emptied(queue)
  BY DEF NothingStranded, Emptied

(* The same the other way, for the next state.                              *)
LEMMA WholeNext ==
    ASSUME TInv', Intact', Shape(queue'), ConfirmedIsCompleted', Emptied(queue'),
           OnePlace(queue', processed', credited', recovery')
    PROVE  Whole'
<1>1. (DepositInOnePlace <=> OnePlace(queue, processed, credited, recovery))'
  BY OnePlaceParts, PTL
<1>2. (QueueShape <=> Shape(queue))'
  BY ShapeParts, PTL
<1>3. (NothingStranded <=> Emptied(queue))'
  BY EmptiedParts, PTL
<1> QED BY <1>1, <1>2, <1>3 DEF Whole, TInv

(* last_completed_index depends on the statuses only.                       *)
LEMMA SameLast ==
    ASSUME NEW q, NEW u, QueueOK(q, u), NEW t, t.index = q.index, t.len = q.len,
           \A j \in Retained(q) : t.cps[j].status = q.cps[j].status
    PROVE  /\ HasSigning(t) <=> HasSigning(q)
           /\ LastCompleted(t) = LastCompleted(q)
           /\ UnconfirmedCompleted(t) = UnconfirmedCompleted(q)
<1>1. q.len >= 2 => q.index - 1 \in Retained(q)
  BY DEF QueueOK, Retained, Start
<1>2. HasSigning(t) <=> HasSigning(q)
  BY <1>1 DEF HasSigning
<1>3. LastCompleted(t) = LastCompleted(q)
  BY <1>2 DEF LastCompleted, SigningOffset
<1> QED BY <1>2, <1>3 DEF UnconfirmedCompleted

-----------------------------------------------------------------------------
(* In an intact queue, set and the loops of take_pending_* write where they *)
(* read.                                                                    *)

(* SetCheckpoint replaces one checkpoint.                                   *)
LEMMA SetFields ==
    ASSUME NEW q, DOMAIN q.cps = Retained(q), Start(q) = 0,
           NEW i \in Retained(q), NEW cp, NEW t, t = SetCheckpoint(q, i, cp)
    PROVE  /\ t.index = q.index /\ t.len = q.len
           /\ Start(t) = 0
           /\ Retained(t) = Retained(q)
           /\ DOMAIN t.cps = Retained(t)
           /\ t.cps[i] = cp
           /\ \A j \in Retained(q) : j # i => t.cps[j] = q.cps[j]
<1>1. i - Start(q) = i
  BY DEF Retained
<1>2. /\ t.index = q.index /\ t.len = q.len
      /\ t.cps = [j \in DOMAIN q.cps |-> IF j = i THEN cp ELSE q.cps[j]]
  BY <1>1 DEF SetCheckpoint
<1>3. Retained(t) = Retained(q) /\ Start(t) = 0
  BY <1>2 DEF Retained, Start
<1>4. DOMAIN t.cps = Retained(t)
  BY <1>2, <1>3
<1>5. t.cps[i] = cp /\ \A j \in Retained(q) : j # i => t.cps[j] = q.cps[j]
  BY <1>2
<1> QED BY <1>2, <1>3, <1>4, <1>5

(* The second of two writes to a checkpoint is the one that counts.         *)
LEMMA SetTwice ==
    ASSUME NEW q, NEW i, NEW c1, NEW c2
    PROVE  SetCheckpoint(SetCheckpoint(q, i, c1), i, c2) = SetCheckpoint(q, i, c2)
<1> DEFINE t == SetCheckpoint(q, i, c1)
           k == i - Start(q)
<1>1. /\ t.index = q.index /\ t.len = q.len
      /\ t.cps = [j \in DOMAIN q.cps |-> IF j = k THEN c1 ELSE q.cps[j]]
  BY DEF SetCheckpoint
<1>2. i - Start(t) = k
  BY <1>1 DEF Start
<1>3. SetCheckpoint(t, i, c2) =
        [cps |-> [j \in DOMAIN t.cps |-> IF j = k THEN c2 ELSE t.cps[j]],
         index |-> t.index, len |-> t.len]
  BY <1>2 DEF SetCheckpoint
<1>4. SetCheckpoint(q, i, c2) =
        [cps |-> [j \in DOMAIN q.cps |-> IF j = k THEN c2 ELSE q.cps[j]],
         index |-> q.index, len |-> q.len]
  BY DEF SetCheckpoint
<1> HIDE DEF t, k
<1>5. [j \in DOMAIN t.cps |-> IF j = k THEN c2 ELSE t.cps[j]]
        = [j \in DOMAIN q.cps |-> IF j = k THEN c2 ELSE q.cps[j]]
  BY <1>1
<1>6. SetCheckpoint(t, i, c2) = SetCheckpoint(q, i, c2)
  BY <1>1, <1>3, <1>4, <1>5
<1> QED BY <1>6 DEF t

(* Two checkpoints that differ in their transfers at most.                  *)
Untaken(new, old) ==
    /\ new.status = old.status /\ new.createTime = old.createTime
    /\ new.signatories = old.signatories /\ new.feeRate = old.feeRate
    /\ new.signedAt = old.signedAt /\ new.depositsEnabled = old.depositsEnabled
    /\ new.feesCollected = old.feesCollected
    /\ new.inputs = old.inputs /\ new.outputs = old.outputs /\ new.sigs = old.sigs

(* ClearPending empties the checkpoints S.                                  *)
LEMMA ClearFields ==
    ASSUME NEW q, NEW u, QueueOK(q, u), q.len > 0 => Start(q) = 0, NEW S,
           NEW t, t = ClearPending(q, S)
    PROVE  /\ t.index = q.index /\ t.len = q.len
           /\ Retained(t) = Retained(q)
           /\ \A j \in Retained(q) :
                /\ Untaken(t.cps[j], q.cps[j])
                /\ t.cps[j].status = q.cps[j].status
                /\ t.cps[j].pending = IF j \in S THEN {} ELSE q.cps[j].pending
<1>1. /\ t.index = q.index /\ t.len = q.len
      /\ t.cps = [j \in DOMAIN q.cps |->
                    IF j + Start(q) \in S
                    THEN [q.cps[j + Start(q)] EXCEPT !.pending = {}]
                    ELSE q.cps[j]]
  BY DEF ClearPending
<1>2. Retained(t) = Retained(q)
  BY <1>1 DEF Retained, Start
<1>3. ASSUME NEW j \in Retained(q)
      PROVE  /\ Untaken(t.cps[j], q.cps[j])
             /\ t.cps[j].status = q.cps[j].status
             /\ t.cps[j].pending = IF j \in S THEN {} ELSE q.cps[j].pending
  <2>1. j \in Int /\ Start(q) = 0
    BY DEF QueueOK, Retained, Start
  <2>2. j + Start(q) = j
    BY <2>1
  <2>3. j \in DOMAIN q.cps /\ DOMAIN q.cps[j] = CheckpointFields
    BY DEF QueueOK, CheckpointOK
  <2>4. t.cps[j] = IF j \in S THEN [q.cps[j] EXCEPT !.pending = {}] ELSE q.cps[j]
    BY <1>1, <2>2, <2>3
  <2>5. Untaken(t.cps[j], q.cps[j])
    BY <2>3, <2>4 DEF CheckpointFields, Untaken
  <2> QED BY <2>3, <2>4, <2>5 DEF CheckpointFields
<1> QED BY <1>1, <1>2, <1>3

-----------------------------------------------------------------------------
(* take_pending_completed takes from retained checkpoints only, and with no *)
(* completed checkpoint from none: the early return drops nothing.          *)
LEMMA TakenRange ==
    ASSUME Whole, TakeSucceeds(queue)
    PROVE  /\ TakenFrom(queue) \subseteq Retained(queue)
           /\ ~HasCompleted(queue) => TakenFrom(queue) = {}
           /\ UnconfirmedCompleted(AfterConfirmed(queue)) = UnconfirmedCompleted(queue)
           /\ LastCompleted(AfterConfirmed(queue)) = LastCompleted(queue)
<1>1. /\ QueueOK(queue, now) /\ RestOK /\ (queue.len > 0 => Start(queue) = 0)
      /\ Shape(queue) /\ ConfirmedIsCompleted
  BY WholeParts
<1>2. UnhandledConfirmed(queue) \subseteq Retained(queue)
  BY <1>1, UnhandledRange
<1>3. /\ UnconfirmedCompleted(AfterConfirmed(queue)) = UnconfirmedCompleted(queue)
      /\ LastCompleted(AfterConfirmed(queue)) = LastCompleted(queue)
  <2> DEFINE r == AfterConfirmed(queue)
  <2>1. /\ r.index = queue.index /\ r.len = queue.len
        /\ \A j \in Retained(queue) : r.cps[j].status = queue.cps[j].status
    BY <1>1, ClearFields DEF AfterConfirmed
  <2> HIDE DEF r
  <2>2. /\ UnconfirmedCompleted(r) = UnconfirmedCompleted(queue)
        /\ LastCompleted(r) = LastCompleted(queue)
    BY <1>1, <2>1, SameLast
  <2> QED BY <2>2 DEF r
<1>4. UnconfirmedCompleted(queue) \subseteq Retained(queue)
  BY <1>3 DEF TakeSucceeds
<1>5. ASSUME ~HasCompleted(queue) PROVE TakenFrom(queue) = {}
  <2>1. LastCompleted(queue) \in Int /\ LastCompleted(queue) < 0
    BY <1>1, <1>5 DEF HasCompleted, LastCompleted, SigningOffset, QueueOK
  <2>2. confirmed = None
    BY <1>1, <2>1 DEF ConfirmedIsCompleted, RestOK
  <2>3. UnhandledConfirmed(queue) = {}
    BY <2>2 DEF UnhandledConfirmed
  <2>4. UnconfirmedCompleted(queue) = {}
    BY <2>1, <2>2 DEF UnconfirmedCompleted
  <2> QED BY <2>3, <2>4 DEF TakenFrom
<1> QED BY <1>2, <1>3, <1>4, <1>5 DEF TakenFrom

(* AfterTake changes nothing but the transfers of the checkpoints taken,    *)
(* and those are the transfers paid.                                        *)
LEMMA AfterTakeFields ==
    ASSUME Whole, TInv, TakeSucceeds(queue), NEW q, q = AfterTake(queue)
    PROVE  /\ q.index = queue.index /\ q.len = queue.len
           /\ Retained(q) = Retained(queue)
           /\ \A j \in Retained(queue) : Untaken(q.cps[j], queue.cps[j])
           /\ \A j \in Retained(queue) :
                /\ q.cps[j].status = queue.cps[j].status
                /\ q.cps[j].pending = IF j \in TakenFrom(queue)
                                      THEN {} ELSE queue.cps[j].pending
           /\ \A c : c \in TakenTransfers(queue)
                        <=> \E j \in TakenFrom(queue) : c \in queue.cps[j].pending
<1> DEFINE r == AfterConfirmed(queue)
           U == UnhandledConfirmed(queue)
           C == UnconfirmedCompleted(queue)
<1>1. QueueOK(queue, now) /\ (queue.len > 0 => Start(queue) = 0)
  BY WholeParts
<1>2. /\ U \subseteq Retained(queue) /\ C \subseteq Retained(queue)
      /\ ~HasCompleted(queue) => U = {} /\ C = {}
      /\ UnconfirmedCompleted(r) = C
      /\ LastCompleted(r) = LastCompleted(queue)
  BY TakenRange DEF TakenFrom
<1>3. QueueOK(r, now)
  BY <1>1, <1>2, ClearType DEF AfterConfirmed
<1>4. /\ r.index = queue.index /\ r.len = queue.len
      /\ Retained(r) = Retained(queue)
      /\ \A j \in Retained(queue) :
            /\ r.cps[j].status = queue.cps[j].status
            /\ r.cps[j].pending = IF j \in U THEN {} ELSE queue.cps[j].pending
  BY <1>1, ClearFields DEF AfterConfirmed
<1>5. q = ClearPending(r, C)
  BY <1>2 DEF AfterTake
<1>6. TakenTransfers(queue) = IF HasCompleted(r)
                              THEN Transfers(queue, U) \cup Transfers(r, C)
                              ELSE {}
  BY <1>2 DEF TakenTransfers
<1>7. HasCompleted(r) <=> HasCompleted(queue)
  BY <1>2 DEF HasCompleted
<1>8. r.len > 0 => Start(r) = 0
  BY <1>1, <1>4 DEF Start
<1>9. TakenFrom(queue) = U \cup C
  BY DEF TakenFrom
<1> HIDE DEF r, U, C
<1>10. /\ q.index = r.index /\ q.len = r.len
       /\ Retained(q) = Retained(r)
       /\ \A j \in Retained(r) :
            /\ q.cps[j].status = r.cps[j].status
            /\ q.cps[j].pending = IF j \in C THEN {} ELSE r.cps[j].pending
  BY <1>3, <1>5, <1>8, ClearFields
<1>11. \A j \in Retained(queue) :
            /\ q.cps[j].status = queue.cps[j].status
            /\ q.cps[j].pending = IF j \in U \cup C THEN {} ELSE queue.cps[j].pending
  BY <1>4, <1>10
<1>13. \A j \in Retained(queue) : Untaken(q.cps[j], queue.cps[j])
  <2> TAKE j \in Retained(queue)
  <2>4. Untaken(r.cps[j], queue.cps[j])
    BY <1>1, ClearFields DEF AfterConfirmed, r
  <2>5. Untaken(q.cps[j], r.cps[j])
    BY <1>3, <1>4, <1>5, <1>8, ClearFields
  <2> QED BY <2>4, <2>5 DEF Untaken
<1>12. ASSUME NEW c
       PROVE  c \in TakenTransfers(queue) <=> \E j \in U \cup C : c \in queue.cps[j].pending
  <2>1. CASE HasCompleted(queue)
    <3>1. c \in Transfers(queue, U) <=> \E j \in U : c \in queue.cps[j].pending
      BY DEF Transfers
    <3>2. c \in Transfers(r, C) <=> \E j \in C : c \in r.cps[j].pending
      BY DEF Transfers
    <3>3. c \in Transfers(r, C) <=> \E j \in C : j \notin U /\ c \in queue.cps[j].pending
      BY <1>2, <1>4, <3>2
    <3> QED BY <1>6, <1>7, <2>1, <3>1, <3>3
  <2>2. CASE ~HasCompleted(queue)
    BY <1>2, <1>6, <1>7, <2>2
  <2> QED BY <2>1, <2>2
<1> QED BY <1>4, <1>9, <1>10, <1>11, <1>12, <1>13

(* After take_pending_completed the queue is as before, the deposits are    *)
(* still in one place each, and no completed checkpoint holds a transfer.   *)
LEMMA AfterTakeInv ==
    ASSUME Whole, TInv, TakeSucceeds(queue), NEW q, q = AfterTake(queue)
    PROVE  /\ Shape(q)
           /\ Emptied(q)
           /\ LastCompleted(q) = LastCompleted(queue)
           /\ \A i \in Retained(queue) :
                i <= LastCompleted(queue) => q.cps[i].pending = {}
           /\ OnePlace(q, processed, credited \cup TakenTransfers(queue), recovery)
<1> DEFINE T == TakenFrom(queue)
<1>1. QueueOK(queue, now) /\ RestOK
  BY WholeParts
<1>2. Shape(queue) /\ Emptied(queue) /\ ConfirmedIsCompleted
  BY WholeParts
<1>3. OnePlace(queue, processed, credited, recovery)
  BY WholeParts
<1>4. T \subseteq Retained(queue) /\ (~HasCompleted(queue) => T = {})
  BY TakenRange
<1>5. q.index = queue.index /\ q.len = queue.len /\ Retained(q) = Retained(queue)
  BY AfterTakeFields
<1>6. \A i \in Retained(queue) :
        /\ q.cps[i].status = queue.cps[i].status
        /\ q.cps[i].pending = IF i \in T THEN {} ELSE queue.cps[i].pending
  BY AfterTakeFields
<1>7. \A c : c \in TakenTransfers(queue) <=> \E i \in T : c \in queue.cps[i].pending
  BY AfterTakeFields
<1> HIDE DEF T
<1>8. Shape(q)
  BY <1>2, <1>5, <1>6 DEF Shape
<1>9. Emptied(q)
  BY <1>2, <1>5, <1>6 DEF Emptied
<1>10. LastCompleted(q) = LastCompleted(queue)
  BY <1>1, <1>5, <1>6, SameLast
<1>11. ASSUME NEW i \in Retained(queue), i <= LastCompleted(queue)
       PROVE  q.cps[i].pending = {}
  <2>1. queue.index \in Nat /\ queue.len \in 0 .. (queue.index + 1) /\ i \in Nat /\ i <= queue.index
    BY <1>1 DEF QueueOK, Retained, Start
  <2>2. LastCompleted(queue) \in Int /\ LastCompleted(queue) <= queue.index - 1
    BY <2>1 DEF LastCompleted, SigningOffset
  <2>3. CASE i < queue.index - 1
    BY <2>3, <1>5, <1>9 DEF Emptied
  <2>4. CASE ~(i < queue.index - 1)
    <3>1. i = LastCompleted(queue)
      BY <1>11, <2>1, <2>2, <2>4
    <3>2. HasCompleted(queue)
      BY <3>1, <2>1 DEF HasCompleted
    <3>3. i \in UnconfirmedCompleted(queue)
      BY <3>1, <2>1, <1>1, <1>2 DEF UnconfirmedCompleted, ConfirmedIsCompleted, RestOK, None
    <3>4. i \in T
      BY <3>2, <3>3 DEF T, TakenFrom
    <3> QED BY <3>4, <1>6
  <2> QED BY <2>3, <2>4
<1>12. OnePlace(q, processed, credited \cup TakenTransfers(queue), recovery)
  <2> DEFINE cr == credited \cup TakenTransfers(queue)
  <2>1. ASSUME NEW d
        PROVE  d \in processed <=>
            \/ \E c \in cr : c.dep = d
            \/ \E r \in recovery : r.dep = d
            \/ \E i \in Retained(q) : \E p \in q.cps[i].pending : p.dep = d
    <3>1. (\E i \in Retained(queue) : \E p \in queue.cps[i].pending : p.dep = d)
            <=> \/ \E c \in TakenTransfers(queue) : c.dep = d
                \/ \E i \in Retained(queue) : \E p \in q.cps[i].pending : p.dep = d
      BY <1>4, <1>6, <1>7
    <3> QED BY <3>1, <1>3, <1>5 DEF OnePlace
  <2>2. \A c \in cr, r \in recovery : c.dep # r.dep
    BY <1>3, <1>4, <1>7 DEF OnePlace
  <2>3. ASSUME NEW i \in Retained(q), NEW p \in q.cps[i].pending
        PROVE  /\ \A c \in cr : p.dep # c.dep
               /\ \A r \in recovery : p.dep # r.dep
               /\ \A j \in Retained(q) : \A p2 \in q.cps[j].pending :
                     p.dep = p2.dep => i = j /\ p = p2
    <3>1. i \in Retained(queue) /\ i \notin T /\ p \in queue.cps[i].pending
      BY <1>5, <1>6
    <3>2. \A c \in TakenTransfers(queue) : p.dep # c.dep
      BY <3>1, <1>3, <1>4, <1>7 DEF OnePlace
    <3>3. \A c \in credited : p.dep # c.dep
      BY <3>1, <1>3 DEF OnePlace
    <3>4. \A r \in recovery : p.dep # r.dep
      BY <3>1, <1>3 DEF OnePlace
    <3>5. \A j \in Retained(q) : \A p2 \in q.cps[j].pending : p.dep = p2.dep => i = j /\ p = p2
      BY <3>1, <1>3, <1>5, <1>6 DEF OnePlace
    <3> QED BY <3>2, <3>3, <3>4, <3>5
  <2>4. \A c1, c2 \in cr : c1.dep = c2.dep => c1 = c2
    BY <1>3, <1>4, <1>7 DEF OnePlace
  <2> QED BY <2>1, <2>2, <2>3, <2>4 DEF OnePlace
<1> QED BY <1>8, <1>9, <1>10, <1>11, <1>12

-----------------------------------------------------------------------------
(* maybe_push and maybe_step, when prune removes nothing, turn a queue q    *)
(* into t: the checkpoint that was being built is being signed, and a new   *)
(* one without transfers is being built.                                    *)
PushedTo(t, q) ==
    /\ t.index = NextIndex(q) /\ t.index \in Nat /\ t.len = t.index + 1
    /\ t.index > 0 => t.index - 1 = q.index /\ q.len > 0
    /\ t.index = 0 => q.len = 0
    /\ Retained(q) = 0 .. (t.index - 1)
    /\ \A j \in Retained(q) :
        /\ t.cps[j].pending = q.cps[j].pending
        /\ t.cps[j].status = IF j = t.index - 1 THEN "Signing" ELSE q.cps[j].status
    /\ t.cps[t.index].status = "Building"
    /\ t.cps[t.index].pending = {}

(* The checkpoint a push adds, accepting deposits or not.                   *)
Newest(b) == [NewCheckpoint EXCEPT !.depositsEnabled = b]

(* Pushed, on an intact queue.                                              *)
LEMMA PushedFields ==
    ASSUME RestOK, NEW q, QueueOK(q, now), q.len > 0 => Start(q) = 0,
           NEW b \in BOOLEAN, NEW p, p = Pushed(q, b)
    PROVE  /\ p.index = NextIndex(q) /\ p.index \in Nat
           /\ p.index > 0 => p.index - 1 = q.index /\ q.len > 0
           /\ p.index = 0 => q.len = 0
           /\ Start(p) = 0
           /\ Retained(q) = 0 .. (p.index - 1)
           /\ \A j \in Retained(q) : p.cps[j] = q.cps[j]
           /\ p.cps[p.index] = Newest(b)
           /\ p.cps[p.index].status = "Building"
           /\ p.cps[p.index].pending = {}
<1> DEFINE k  == PushBack(q, NewCheckpoint)
           cp == [Building(k) EXCEPT !.depositsEnabled = b]
<1>1. /\ k.index = NextIndex(q) /\ k.len = q.len + 1
      /\ k.index \in Nat /\ k.len \in 1 .. (k.index + 1)
      /\ k.index > 0 => q.len > 0 /\ k.index - 1 = q.index
      /\ k.index = 0 => q.len = 0
      /\ q.len > 0 => Start(k) = Start(q)
      /\ Retained(k) = Retained(q) \cup {k.index}
      /\ k.index \notin Retained(q)
      /\ k.cps = [j \in Retained(k) |-> IF j = k.index THEN NewCheckpoint ELSE q.cps[j]]
  BY PushBackFields
<1>2. p = SetCheckpoint(k, k.index, cp)
  BY DEF Pushed, SetBuilding
<1>3. QueueOK(k, now) /\ Building(k) = NewCheckpoint
  BY PushBackType
<1> HIDE DEF k
<1>4. cp = Newest(b) /\ cp.status = "Building" /\ cp.pending = {}
  BY <1>3 DEF NewCheckpoint, Newest
<1> HIDE DEF cp
<1>5. q.len \in Nat /\ q.index \in Nat
  BY DEF QueueOK
<1>6. Start(k) = 0
  <2>1. CASE q.len > 0
    BY <1>1, <2>1
  <2>2. CASE q.len = 0
    <3>1. k.index = 0 /\ k.len = 1
      BY <1>1, <1>5, <2>2
    <3> QED BY <3>1 DEF Start
  <2> QED BY <1>5, <2>1, <2>2
<1>7. Retained(q) = 0 .. (k.index - 1)
  <2>1. CASE k.index > 0
    <3>1. k.index - 1 = q.index /\ Start(q) = 0
      BY <1>1, <2>1
    <3> QED BY <3>1 DEF Retained
  <2>2. CASE k.index = 0
    <3>1. q.len = 0 /\ q.index = 0
      BY <1>1, <2>2 DEF QueueOK
    <3>2. Retained(q) = 1 .. 0
      BY <3>1 DEF Retained, Start
    <3> QED BY <2>2, <3>2
  <2> QED BY <1>1, <2>1, <2>2
<1>8. DOMAIN k.cps = Retained(k) /\ k.index \in Retained(k)
  BY <1>1
<1>9. /\ p.index = k.index /\ Start(p) = 0
      /\ p.cps[k.index] = cp
      /\ \A j \in Retained(k) : j # k.index => p.cps[j] = k.cps[j]
  BY <1>2, <1>6, <1>8, SetFields
<1>10. \A j \in Retained(q) : p.cps[j] = q.cps[j]
  <2> TAKE j \in Retained(q)
  <2>1. j \in Retained(k) /\ j # k.index
    BY <1>1
  <2>2. k.cps[j] = q.cps[j]
    BY <1>1, <2>1
  <2> QED BY <1>9, <2>1, <2>2
<1> QED BY <1>1, <1>4, <1>6, <1>7, <1>9, <1>10

(* The checkpoint being built, cp, after the one before it, prev, was       *)
(* frozen.                                                                  *)
Succeeding(cp, prev, r) ==
    [cp EXCEPT !.feeRate = NextFeeRate(WithSigning(r), prev.feeRate),
               !.inputs  = @ \o NextInputs(r),
               !.outputs = @ \o ExcessOutputs(prev)]

(* What Stepped does to the two last checkpoints of an intact queue.        *)
SteppedOn(t, r) ==
    /\ \A j \in 0 .. (r.index - 2) : t.cps[j] = r.cps[j]
    /\ t.cps[r.index - 1] = Advanced(r.cps[r.index - 1], StepFee(r))
    /\ t.cps[r.index] = Succeeding(r.cps[r.index], r.cps[r.index - 1], r)

(* Stepped, on an intact queue: only the two last checkpoints change, and   *)
(* they keep their transfers.                                               *)
LEMMA SteppedFields ==
    ASSUME NEW r, NEW u, QueueOK(r, u), Start(r) = 0, r.index > 0,
           NEW t, t = Stepped(r)
    PROVE  /\ t.index = r.index /\ t.len = r.len
           /\ \A j \in Retained(r) : t.cps[j].pending = r.cps[j].pending
           /\ \A j \in Retained(r) :
                t.cps[j].status = IF j = r.index - 1 THEN "Signing" ELSE r.cps[j].status
           /\ SteppedOn(t, r)
<1> DEFINE n   == r.index
           w   == WithSigning(r)
           adv == Advanced(Prev(r), StepFee(r))
           rate == NextFeeRate(w, Prev(r).feeRate)
           ins  == Building(w).inputs \o NextInputs(r)
           outs == Building(w).outputs \o ExcessOutputs(Prev(r))
           bld == [Building(w) EXCEPT !.feeRate = rate, !.inputs = ins, !.outputs = outs]
<1>1. /\ n \in Nat /\ Retained(r) = 0 .. n /\ DOMAIN r.cps = Retained(r)
      /\ n - 1 \in Retained(r) /\ n \in Retained(r)
  BY DEF QueueOK, Retained
<1>2. DOMAIN Prev(r) = CheckpointFields /\ DOMAIN r.cps[n] = CheckpointFields
  BY <1>1 DEF QueueOK, CheckpointOK, Prev
<1>3. adv.status = "Signing" /\ adv.pending = Prev(r).pending
  BY <1>2 DEF Advanced, CheckpointFields
<1>4. w = SetCheckpoint(r, n - 1, adv) /\ t = SetCheckpoint(w, w.index, bld)
  BY <1>1 DEF WithSigning, Stepped, SetBuilding
<1>5. Prev(r) = r.cps[n - 1] /\ Building(w) = w.cps[w.index]
  BY DEF Prev, Building
<1> HIDE DEF n, w, adv, rate, ins, outs
<1>6. /\ w.index = n /\ w.len = r.len /\ Start(w) = 0
      /\ Retained(w) = Retained(r) /\ DOMAIN w.cps = Retained(w)
      /\ w.cps[n - 1] = adv
      /\ \A j \in Retained(r) : j # n - 1 => w.cps[j] = r.cps[j]
  <2>1. n - 1 \in Retained(r) /\ DOMAIN r.cps = Retained(r) /\ Start(r) = 0
    BY <1>1
  <2>2. w = SetCheckpoint(r, n - 1, adv) /\ r.index = n
    BY <1>4 DEF n
  <2> QED BY <2>1, <2>2, SetFields
<1>7. Building(w) = r.cps[n]
  BY <1>1, <1>5, <1>6
<1>8. bld.status = r.cps[n].status /\ bld.pending = r.cps[n].pending
  BY <1>2, <1>7 DEF CheckpointFields
<1>11. bld = [r.cps[n] EXCEPT
                !.feeRate = NextFeeRate(w, r.cps[n - 1].feeRate),
                !.inputs  = @ \o NextInputs(r),
                !.outputs = @ \o ExcessOutputs(r.cps[n - 1])]
  BY <1>5, <1>7 DEF rate, ins, outs
<1> HIDE DEF bld
<1>9. /\ t.index = n /\ t.len = r.len
      /\ t.cps[n] = bld
      /\ \A j \in Retained(w) : j # n => t.cps[j] = w.cps[j]
  BY <1>1, <1>4, <1>6, SetFields
<1>10. ASSUME NEW j \in Retained(r)
       PROVE  /\ t.cps[j].pending = r.cps[j].pending
              /\ t.cps[j].status = IF j = n - 1 THEN "Signing" ELSE r.cps[j].status
  <2>1. CASE j = n
    BY <1>1, <1>8, <1>9, <2>1
  <2>2. CASE j = n - 1
    BY <1>1, <1>3, <1>5, <1>6, <1>9, <2>2
  <2>3. CASE j # n /\ j # n - 1
    BY <1>6, <1>9, <2>3
  <2> QED BY <2>1, <2>2, <2>3
<1>12. /\ \A j \in 0 .. (n - 2) : t.cps[j] = r.cps[j]
       /\ t.cps[n - 1] = Advanced(r.cps[n - 1], StepFee(r))
  <2>1. \A j \in 0 .. (n - 1) : j \in Retained(r) /\ t.cps[j] = w.cps[j]
    BY <1>1, <1>6, <1>9
  <2>2. \A j \in 0 .. (n - 2) : j \in 0 .. (n - 1) /\ w.cps[j] = r.cps[j]
    BY <1>1, <1>6
  <2>3. n - 1 \in 0 .. (n - 1)
    BY <1>1
  <2> QED BY <1>5, <1>6, <2>1, <2>2, <2>3 DEF adv
<1>13. SteppedOn(t, r)
  BY <1>9, <1>11, <1>12 DEF n, w, SteppedOn, Succeeding
<1> QED BY <1>9, <1>10, <1>13 DEF n

(* Stepped after PrunedFrom after Pushed is such a change.                   *)
LEMMA PushFields ==
    ASSUME RestOK, NEW q, QueueOK(q, now), q.len > 0 => Start(q) = 0,
           NEW b \in BOOLEAN, NEW p, p = Pushed(q, b),
           NEW t, t = Stepped(PrunedFrom(p, 0))
    PROVE  PushedTo(t, q)
<1> DEFINE r == PrunedFrom(p, 0)
           n == p.index
<1>1. /\ n = NextIndex(q) /\ n \in Nat
      /\ n > 0 => n - 1 = q.index /\ q.len > 0
      /\ n = 0 => q.len = 0
      /\ Start(p) = 0
      /\ Retained(q) = 0 .. (n - 1)
      /\ \A j \in Retained(q) : p.cps[j] = q.cps[j]
      /\ p.cps[n].status = "Building"
      /\ p.cps[n].pending = {}
  BY PushedFields
<1>2. QueueOK(p, now)
  BY PushedType
<1>3. Retained(p) = 0 .. n /\ 0 \in Retained(p)
  BY <1>1 DEF Retained
<1>4. /\ QueueOK(r, now) /\ r.index = n /\ Start(r) = 0
      /\ Retained(r) = 0 .. n
  <2>1. \A x : x = PrunedFrom(p, 0) =>
            QueueOK(x, now) /\ x.index = p.index /\ Start(x) = 0 /\ Retained(x) = 0 .. p.index
    BY <1>2, <1>3, PrunedType
  <2> QED BY <2>1
<1>5. r.len = n + 1 /\ \A j \in 0 .. n : r.cps[j] = p.cps[j]
  BY <1>1 DEF PrunedFrom
<1>6. t = Stepped(r)
  OBVIOUS
<1> HIDE DEF r, n
<1>7. CASE n = 0
  <2>1. t = r
    BY <1>4, <1>6, <1>7 DEF Stepped
  <2>2. t.cps[0] = p.cps[0] /\ Retained(q) = 0 .. (0 - 1)
    BY <1>1, <1>5, <1>7, <2>1
  <2> QED BY <1>1, <1>4, <1>5, <1>7, <2>1, <2>2 DEF PushedTo
<1>8. CASE n > 0
  <2>1. /\ t.index = n /\ t.len = n + 1
        /\ \A j \in 0 .. n : t.cps[j].pending = p.cps[j].pending
        /\ \A j \in 0 .. n :
             t.cps[j].status = IF j = n - 1 THEN "Signing" ELSE p.cps[j].status
    <3>1. QueueOK(r, now) /\ Start(r) = 0 /\ r.index > 0 /\ t = Stepped(r)
      BY <1>4, <1>6, <1>8
    <3>2. /\ t.index = r.index /\ t.len = r.len
          /\ \A j \in Retained(r) : t.cps[j].pending = r.cps[j].pending
          /\ \A j \in Retained(r) :
               t.cps[j].status = IF j = r.index - 1 THEN "Signing" ELSE r.cps[j].status
      BY <3>1, SteppedFields
    <3> QED BY <1>4, <1>5, <3>2
  <2>2. \A j \in Retained(q) :
          /\ t.cps[j].pending = q.cps[j].pending
          /\ t.cps[j].status = IF j = n - 1 THEN "Signing" ELSE q.cps[j].status
    BY <1>1, <2>1
  <2>3. t.cps[n].status = "Building" /\ t.cps[n].pending = {}
    BY <1>1, <2>1
  <2> QED BY <1>1, <1>8, <2>1, <2>2, <2>3 DEF PushedTo
<1> QED BY <1>1, <1>7, <1>8

(* A push keeps the queue well shaped and every deposit where it is.        *)
LEMMA PushInv ==
    ASSUME NEW q, NEW t, NEW proc, NEW cr, NEW rec, NEW u,
           QueueOK(q, u), Shape(q), Emptied(q), ~HasSigning(q),
           \A j \in Retained(q) : j <= LastCompleted(q) => q.cps[j].pending = {},
           OnePlace(q, proc, cr, rec),
           PushedTo(t, q)
    PROVE  /\ Shape(t)
           /\ Emptied(t)
           /\ LastCompleted(t) = LastCompleted(q)
           /\ OnePlace(t, proc, cr, rec)
<1> DEFINE n == t.index
<1>1. /\ n \in Nat /\ t.len = n + 1
      /\ n > 0 => n - 1 = q.index /\ q.len > 0
      /\ n = 0 => q.len = 0
      /\ Retained(q) = 0 .. (n - 1)
  BY DEF PushedTo
<1>2. q.index \in Nat /\ (q.len = 0 => q.index = 0)
  BY DEF QueueOK
<1>3. Retained(t) = 0 .. n
  BY <1>1 DEF Retained, Start
<1>4. LastCompleted(q) = q.index - 1
  BY <1>2 DEF LastCompleted, SigningOffset
<1>5. \A j \in Retained(q) :
        /\ t.cps[j].pending = q.cps[j].pending
        /\ t.cps[j].status = IF j = n - 1 THEN "Signing" ELSE q.cps[j].status
  BY DEF PushedTo
<1>6. t.cps[n].status = "Building" /\ t.cps[n].pending = {}
  BY DEF PushedTo
<1>7. \A j \in Retained(t) : j = n \/ j \in Retained(q)
  BY <1>1, <1>3
<1>8. \A j \in Retained(q) : j < n - 1 =>
        q.cps[j].status = "Complete" /\ q.cps[j].pending = {}
  <2> TAKE j \in Retained(q)
  <2> HAVE j < n - 1
  <2>1. j <= LastCompleted(q)
    BY <1>1, <1>2, <1>4
  <2> QED BY <2>1, CompletedRange
<1> HIDE DEF n
<1>9. Shape(t)
  <2>1. ASSUME NEW j \in Retained(t)
        PROVE  /\ t.cps[j].status = "Building" <=> j = n
               /\ t.cps[j].status = "Signing" => j = n - 1
    <3>1. CASE j = n
      BY <1>6, <3>1
    <3>2. CASE j \in Retained(q) /\ j = n - 1
      BY <1>1, <1>5, <3>2
    <3>3. CASE j \in Retained(q) /\ j < n - 1
      BY <1>1, <1>5, <1>8, <3>3
    <3> QED BY <1>1, <1>7, <3>1, <3>2, <3>3
  <2> QED BY <2>1 DEF Shape, n
<1>10. Emptied(t)
  <2> SUFFICES ASSUME NEW j \in Retained(t), j < n - 1
               PROVE  t.cps[j].pending = {}
    BY DEF Emptied, n
  <2>1. j \in Retained(q)
    BY <1>1, <1>7
  <2> QED BY <2>1, <1>5, <1>8
<1>11. LastCompleted(t) = LastCompleted(q)
  <2>1. CASE n = 0
    <3>1. ~HasSigning(t)
      BY <2>1, <1>1 DEF HasSigning
    <3> QED BY <3>1, <2>1, <1>1, <1>2, <1>4 DEF LastCompleted, SigningOffset, n
  <2>2. CASE n > 0
    <3>1. n - 1 \in Retained(q) /\ t.len >= 2
      BY <2>2, <1>1
    <3>2. HasSigning(t)
      BY <3>1, <1>5 DEF HasSigning, n
    <3> QED BY <3>2, <2>2, <1>1, <1>2, <1>4 DEF LastCompleted, SigningOffset, n
  <2> QED BY <2>1, <2>2, <1>1
<1>12. OnePlace(t, proc, cr, rec)
  <2>1. \A j, x : j \in Retained(t) /\ x \in t.cps[j].pending
                    <=> j \in Retained(q) /\ x \in q.cps[j].pending
    <3>1. Retained(q) \subseteq Retained(t) /\ n \notin Retained(q)
      BY <1>1, <1>3
    <3> QED BY <3>1, <1>5, <1>6, <1>7
  <2> QED BY <2>1 DEF OnePlace
<1> QED BY <1>9, <1>10, <1>11, <1>12

-----------------------------------------------------------------------------
(* One lemma for each message and step, on an intact queue.                 *)

(* Replacing one checkpoint keeps the queue well shaped, when only the one  *)
(* at the end is `Building` and none goes back to `Signing`.                *)
LEMMA SetInv ==
    ASSUME NEW q, NEW u, QueueOK(q, u), Start(q) = 0, Shape(q), Emptied(q),
           NEW i \in Retained(q), NEW cp,
           cp.status = "Building" <=> i = q.index,
           cp.status = "Signing" => q.cps[i].status = "Signing",
           i < q.index - 1 => cp.pending = {},
           NEW t, t = SetCheckpoint(q, i, cp)
    PROVE  /\ Shape(t) /\ Emptied(t)
           /\ LastCompleted(q) \in Int /\ LastCompleted(t) \in Int
           /\ LastCompleted(t) >= LastCompleted(q)
<1>1. /\ t.index = q.index /\ t.len = q.len
      /\ Retained(t) = Retained(q)
      /\ t.cps[i] = cp
      /\ \A j \in Retained(q) : j # i => t.cps[j] = q.cps[j]
  <2>1. DOMAIN q.cps = Retained(q)
    BY DEF QueueOK
  <2> QED BY <2>1, SetFields
<1>2. q.index \in Nat /\ q.len \in 0 .. (q.index + 1)
  BY DEF QueueOK
<1>3. Shape(t)
  BY <1>1 DEF Shape
<1>4. Emptied(t)
  BY <1>1 DEF Emptied
<1>5. HasSigning(t) => HasSigning(q)
  <2>1. SUFFICES ASSUME HasSigning(t) PROVE HasSigning(q)
    OBVIOUS
  <2>2. q.len >= 2 /\ t.cps[q.index - 1].status = "Signing"
    BY <2>1, <1>1 DEF HasSigning
  <2>3. q.index - 1 \in Retained(q)
    BY <2>2, <1>2 DEF Retained, Start
  <2> QED BY <2>2, <2>3, <1>1 DEF HasSigning
<1> QED BY <1>1, <1>2, <1>3, <1>4, <1>5 DEF LastCompleted, SigningOffset

(* A step that replaces one checkpoint and leaves confirmed_index alone:    *)
(* what is left to show is where the deposits are.                          *)
LEMMA SetKeepsWhole ==
    ASSUME Whole, TInv', NEW i \in Retained(queue), NEW cp,
           queue' = SetCheckpoint(queue, i, cp),
           cp.status = "Building" <=> i = queue.index,
           cp.status = "Signing" => queue.cps[i].status = "Signing",
           i < queue.index - 1 => cp.pending = {},
           UNCHANGED <<confirmed, firstUnhandled>>
    PROVE  /\ Retained(queue') = Retained(queue)
           /\ queue'.cps[i].pending = cp.pending
           /\ \A j \in Retained(queue) : j # i => queue'.cps[j] = queue.cps[j]
           /\ OnePlace(queue', processed', credited', recovery') => Whole'
<1>1. /\ QueueOK(queue, now) /\ RestOK /\ (queue.len > 0 => Start(queue) = 0)
      /\ Shape(queue) /\ ConfirmedIsCompleted /\ Emptied(queue)
  BY WholeParts
<1>2. Start(queue) = 0 /\ DOMAIN queue.cps = Retained(queue)
  BY <1>1 DEF QueueOK, Retained, Start
<1>3. /\ queue'.index = queue.index /\ queue'.len = queue.len
      /\ Retained(queue') = Retained(queue)
      /\ queue'.cps[i] = cp
      /\ \A j \in Retained(queue) : j # i => queue'.cps[j] = queue.cps[j]
  BY <1>2, SetFields
<1>4. /\ Shape(queue') /\ Emptied(queue')
      /\ LastCompleted(queue) \in Int /\ LastCompleted(queue') \in Int
      /\ LastCompleted(queue') >= LastCompleted(queue)
  BY <1>1, <1>2, SetInv
<1>5. ConfirmedIsCompleted'
  <2>1. LastCompleted(queue)' = LastCompleted(queue')
    BY DEF LastCompleted, SigningOffset, HasSigning
  <2> QED BY <1>1, <1>4, <2>1 DEF ConfirmedIsCompleted, RestOK, None
<1>6. Intact'
  BY <1>2, <1>3 DEF Intact, Start
<1> QED BY <1>3, <1>4, <1>5, <1>6, WholeNext

(* ... and when it leaves the transfers alone, they are where they were.    *)
LEMMA SetKeepsPlace ==
    ASSUME Whole, TInv', NEW i \in Retained(queue), NEW cp,
           queue' = SetCheckpoint(queue, i, cp),
           cp.status = "Building" <=> i = queue.index,
           cp.status = "Signing" => queue.cps[i].status = "Signing",
           cp.pending = queue.cps[i].pending,
           UNCHANGED <<confirmed, firstUnhandled, processed, recovery, credited>>
    PROVE  Whole'
<1>1. Emptied(queue) /\ OnePlace(queue, processed, credited, recovery)
  BY WholeParts
<1>2. i < queue.index - 1 => cp.pending = {}
  BY <1>1 DEF Emptied
<1>3. /\ Retained(queue') = Retained(queue)
      /\ queue'.cps[i].pending = cp.pending
      /\ \A j \in Retained(queue) : j # i => queue'.cps[j] = queue.cps[j]
      /\ OnePlace(queue', processed', credited', recovery') => Whole'
  BY <1>2, SetKeepsWhole
<1>4. \A j \in Retained(queue) : queue'.cps[j].pending = queue.cps[j].pending
  BY <1>3
<1>5. processed' = processed /\ credited' = credited /\ recovery' = recovery
  OBVIOUS
<1>6. OnePlace(queue', processed', credited', recovery')
  BY <1>1, <1>3, <1>4, <1>5 DEF OnePlace
<1> QED BY <1>3, <1>6

(* A checkpoint that was given a fee.                                       *)
WithFee(cp, units) == [cp EXCEPT !.feesCollected = @ + units \div UnitsPerSat]

(* give_miner_fee, followed by another change of the checkpoint being       *)
(* built: the two writes amount to the second.                              *)
LEMMA GiveMinerFeeFields ==
    ASSUME Whole, queue.len > 0, NEW units, NEW q, q = GiveMinerFee(queue, units)
    PROVE  /\ queue.index \in Retained(queue)
           /\ q.index = queue.index
           /\ DOMAIN Building(q) = CheckpointFields
           /\ Building(q).status = "Building"
           /\ Building(q).pending = queue.cps[queue.index].pending
           /\ Building(q) = WithFee(queue.cps[queue.index], units)
           /\ \A cp : SetCheckpoint(q, q.index, cp) = SetCheckpoint(queue, queue.index, cp)
<1> DEFINE fees == Building(queue).feesCollected + units \div UnitsPerSat
           c    == [Building(queue) EXCEPT !.feesCollected = fees]
<1>1. /\ QueueOK(queue, now) /\ (queue.len > 0 => Start(queue) = 0) /\ Shape(queue)
  BY WholeParts
<1>2. /\ queue.index \in Retained(queue) /\ Start(queue) = 0
      /\ DOMAIN queue.cps = Retained(queue)
  BY <1>1 DEF QueueOK, Retained, Start
<1>3. /\ Building(queue) = queue.cps[queue.index]
      /\ DOMAIN Building(queue) = CheckpointFields
      /\ Building(queue).status = "Building"
  BY <1>1, <1>2 DEF QueueOK, CheckpointOK, Shape, Building
<1>4. q = SetCheckpoint(queue, queue.index, c)
  BY DEF GiveMinerFee, SetBuilding
<1>8. c = WithFee(queue.cps[queue.index], units)
  BY <1>3 DEF WithFee
<1> HIDE DEF fees
<1>5. /\ DOMAIN c = CheckpointFields /\ c.status = "Building"
      /\ c.pending = queue.cps[queue.index].pending
  BY <1>3 DEF CheckpointFields
<1> HIDE DEF c
<1>6. q.index = queue.index /\ q.cps[queue.index] = c
  BY <1>2, <1>4, SetFields
<1>7. Building(q) = c
  BY <1>6 DEF Building
<1> QED BY <1>2, <1>4, <1>5, <1>6, <1>7, <1>8, SetTwice

(* relay_deposit, in time                                                   *)
LEMMA RelayDepositInv ==
    ASSUME Whole, TInv', NEW d \in Deposits, NEW i \in Retained(queue), NEW h,
           RelayDeposit(d, i, h)
    PROVE  Whole'
<1> DEFINE to  == queue.cps[i]
           fee == UserFee(InputVsize(to.signatories), to.feeRate) * UnitsPerSat
           q   == GiveMinerFee(queue, fee)
           tr  == [dep |-> d, amount |-> DepositValue[d] * UnitsPerSat - fee]
           ins == Append(Building(q).inputs,
                         NewInput(DepositOutpoint(d), to.signatories, DepositValue[d]))
           new == [Building(q) EXCEPT !.inputs = ins, !.pending = @ \cup {tr}]
           n   == queue.index
<1>1. /\ d \notin processed
      /\ queue' = SetCheckpoint(q, q.index, new)
      /\ processed' = processed \cup {d}
      /\ UNCHANGED <<confirmed, firstUnhandled, recovery, credited>>
  BY DEF RelayDeposit, DepositProven, SetBuilding
<1>2. QueueOK(queue, now) /\ OnePlace(queue, processed, credited, recovery)
  BY WholeParts
<1>3. queue.len > 0
  BY <1>2 DEF QueueOK, Retained, Start
<1>4. /\ n \in Retained(queue)
      /\ q.index = n
      /\ DOMAIN Building(q) = CheckpointFields
      /\ Building(q).status = "Building"
      /\ Building(q).pending = queue.cps[n].pending
      /\ SetCheckpoint(q, q.index, new) = SetCheckpoint(queue, n, new)
  BY <1>3, GiveMinerFeeFields
<1>5. tr.dep = d
  OBVIOUS
<1> HIDE DEF q, tr, ins, to, fee
<1>6. new.status = "Building" /\ new.pending = queue.cps[n].pending \cup {tr}
  BY <1>4 DEF CheckpointFields
<1> HIDE DEF new
<1>7. ~(n < n - 1)
  BY <1>2 DEF QueueOK
<1>8. /\ Retained(queue') = Retained(queue)
      /\ queue'.cps[n].pending = queue.cps[n].pending \cup {tr}
      /\ \A j \in Retained(queue) : j # n => queue'.cps[j] = queue.cps[j]
      /\ OnePlace(queue', processed', credited', recovery') => Whole'
  BY <1>1, <1>4, <1>6, <1>7, SetKeepsWhole
<1> HIDE DEF n
<1>9. OnePlace(queue', processed', credited', recovery')
  <2>1. \A j, x : j \in Retained(queue') /\ x \in queue'.cps[j].pending
                    <=> \/ j \in Retained(queue) /\ x \in queue.cps[j].pending
                        \/ j = n /\ x = tr
    BY <1>4, <1>8
  <2>2. credited' = credited /\ recovery' = recovery /\ processed' = processed \cup {d}
    BY <1>1
  <2>3. ASSUME NEW e PROVE e \in processed' <=>
            \/ \E c \in credited' : c.dep = e
            \/ \E r \in recovery' : r.dep = e
            \/ \E j \in Retained(queue') : \E p \in queue'.cps[j].pending : p.dep = e
    BY <2>1, <2>2, <1>2, <1>4, <1>5 DEF OnePlace
  <2>4. \A c \in credited', r \in recovery' : c.dep # r.dep
    BY <2>2, <1>2 DEF OnePlace
  <2>5. /\ \A c \in credited : c.dep # d
        /\ \A r \in recovery : r.dep # d
        /\ \A j \in Retained(queue) : \A p \in queue.cps[j].pending : p.dep # d
    BY <1>1, <1>2 DEF OnePlace
  <2>6. ASSUME NEW j \in Retained(queue'), NEW p \in queue'.cps[j].pending
        PROVE  /\ \A c \in credited' : p.dep # c.dep
               /\ \A r \in recovery' : p.dep # r.dep
               /\ \A k \in Retained(queue') : \A p2 \in queue'.cps[k].pending :
                     p.dep = p2.dep => j = k /\ p = p2
    <3>1. CASE j \in Retained(queue) /\ p \in queue.cps[j].pending
      BY <3>1, <2>1, <2>2, <2>5, <1>2, <1>5 DEF OnePlace
    <3>2. CASE j = n /\ p = tr
      BY <3>2, <2>1, <2>2, <2>5, <1>2, <1>5 DEF OnePlace
    <3> QED BY <3>1, <3>2, <2>1
  <2>7. \A c1, c2 \in credited' : c1.dep = c2.dep => c1 = c2
    BY <2>2, <1>2 DEF OnePlace
  <2> QED BY <2>3, <2>4, <2>6, <2>7 DEF OnePlace
<1> QED BY <1>8, <1>9

(* withdraw_to_bitcoin                                                      *)
LEMMA WithdrawInv ==
    ASSUME Whole, TInv', NEW w \in Withdrawals, WithdrawToBitcoin(w)
    PROVE  Whole'
<1> DEFINE fee   == UserFee(OutVsize, Building(queue).feeRate) * UnitsPerSat
           value == (WithdrawalAmount[w] - fee) \div UnitsPerSat
           q     == GiveMinerFee(queue, fee)
           outs  == Append(Building(q).outputs, WithdrawalOutput(w, value))
           new   == [Building(q) EXCEPT !.outputs = outs]
<1>1. /\ queue.len > 0
      /\ queue' = SetCheckpoint(q, q.index, new)
      /\ UNCHANGED <<confirmed, firstUnhandled, processed, recovery, credited>>
  BY DEF WithdrawToBitcoin, SetBuilding
<1>2. /\ queue.index \in Retained(queue)
      /\ DOMAIN Building(q) = CheckpointFields
      /\ Building(q).status = "Building"
      /\ Building(q).pending = queue.cps[queue.index].pending
      /\ SetCheckpoint(q, q.index, new) = SetCheckpoint(queue, queue.index, new)
  BY <1>1, GiveMinerFeeFields
<1> HIDE DEF q, outs, fee, value
<1>3. new.status = "Building" /\ new.pending = queue.cps[queue.index].pending
  BY <1>2 DEF CheckpointFields
<1> HIDE DEF new
<1> QED BY <1>1, <1>2, <1>3, SetKeepsPlace

(* submit_checkpoint_signature                                              *)
LEMMA SignatureInv ==
    ASSUME Whole, TInv', NEW s \in Signers, NEW i \in Retained(queue), NEW h \in Heights,
           SubmitCheckpointSignature(s, i, h)
    PROVE  Whole'
<1> DEFINE cp  == queue.cps[i]
           at  == IF BecomesSigned(cp, s) THEN h ELSE cp.signedAt
           st  == IF cp.status = "Signing" /\ TxSigned(cp.inputs, cp.sigs \cup {s})
                  THEN "Complete" ELSE cp.status
           new == [cp EXCEPT !.sigs = cp.sigs \cup {s}, !.signedAt = at, !.status = st]
<1>1. /\ cp.status # "Building"
      /\ UNCHANGED <<confirmed, firstUnhandled, processed, recovery, credited>>
  BY DEF SubmitCheckpointSignature
<1>2. QueueOK(queue, now) /\ Shape(queue)
  BY WholeParts
<1>3. CheckpointOK(cp, now)
  BY <1>2 DEF QueueOK
<1>4. queue' = SetCheckpoint(queue, i, new)
  BY DEF SubmitCheckpointSignature
<1>5. st \in {"Signing", "Complete"} /\ (st = "Signing" => cp.status = "Signing")
  BY <1>1, <1>3 DEF CheckpointOK, Statuses
<1> HIDE DEF cp, at, st
<1>6. new.status = st /\ new.pending = cp.pending
  BY <1>3 DEF CheckpointOK, CheckpointFields
<1> HIDE DEF new
<1>7. /\ new.status = "Building" <=> i = queue.index
      /\ new.status = "Signing" => queue.cps[i].status = "Signing"
      /\ new.pending = queue.cps[i].pending
  BY <1>1, <1>2, <1>5, <1>6 DEF Shape, cp
<1> QED BY <1>1, <1>4, <1>7, SetKeepsPlace

(* relay_deposit, expired                                                   *)
LEMMA RelayExpiredInv ==
    ASSUME Whole, TInv', NEW d \in Deposits, NEW i \in Retained(queue), NEW h,
           RelayExpiredDeposit(d, i, h)
    PROVE  Whole'
<1> DEFINE rc == [dep |-> d, old |-> queue.cps[i].signatories,
                new |-> Building(queue).signatories]
<1>1. /\ d \notin processed
      /\ recovery' = recovery \cup {rc}
      /\ processed' = processed \cup {d}
      /\ UNCHANGED <<queue, confirmed, firstUnhandled, credited>>
  BY DEF RelayExpiredDeposit, DepositProven
<1>2. /\ (queue.len > 0 => Start(queue) = 0) /\ Shape(queue) /\ ConfirmedIsCompleted
      /\ Emptied(queue) /\ OnePlace(queue, processed, credited, recovery)
  BY WholeParts
<1>3. rc.dep = d
  OBVIOUS
<1> HIDE DEF rc
<1>4. ConfirmedIsCompleted'
  BY <1>1, <1>2 DEF ConfirmedIsCompleted, LastCompleted, SigningOffset, HasSigning
<1>5. OnePlace(queue', processed', credited', recovery')
  <2>1. OnePlace(queue, processed \cup {d}, credited, recovery \cup {rc})
    BY <1>1, <1>2, <1>3 DEF OnePlace
  <2> QED BY <1>1, <2>1
<1>6. Shape(queue') /\ Emptied(queue')
  BY <1>1, <1>2
<1>7. Intact'
  BY <1>1, <1>2 DEF Intact, Start
<1> QED BY <1>4, <1>5, <1>6, <1>7, WholeNext

(* relay_checkpoint                                                         *)
LEMMA RelayCheckpointInv ==
    ASSUME Whole, TInv', NEW i \in Retained(queue), NEW h, RelayCheckpoint(i, h)
    PROVE  Whole'
<1>1. /\ confirmed # None => i > confirmed
      /\ queue.cps[i].status = "Complete"
      /\ confirmed' = i
      /\ UNCHANGED <<queue, firstUnhandled, processed, recovery, credited>>
  BY DEF RelayCheckpoint
<1>2. /\ QueueOK(queue, now) /\ RestOK /\ (queue.len > 0 => Start(queue) = 0)
      /\ Shape(queue) /\ ConfirmedIsCompleted
      /\ Emptied(queue) /\ OnePlace(queue, processed, credited, recovery)
  BY WholeParts
<1>3. i \in Nat
  BY <1>2 DEF QueueOK, Retained, Start
<1>4. i <= LastCompleted(queue)
  BY <1>1, <1>2, CompletedRange
<1>5. ConfirmedIsCompleted'
  <2>1. firstUnhandled <= i + 1
    BY <1>1, <1>2, <1>3 DEF ConfirmedIsCompleted, RestOK, None
  <2> QED BY <2>1, <1>1, <1>4 DEF ConfirmedIsCompleted, LastCompleted, SigningOffset, HasSigning
<1>6. /\ Shape(queue') /\ Emptied(queue')
      /\ OnePlace(queue', processed', credited', recovery')
  BY <1>1, <1>2
<1>7. Intact'
  BY <1>1, <1>2 DEF Intact, Start
<1> QED BY <1>5, <1>6, <1>7, WholeNext

(* take_pending_completed: first_unhandled_confirmed stays at most one past *)
(* confirmed_index.                                                         *)
LEMMA TakeInv ==
    ASSUME Whole, TakePendingCompleted, UNCHANGED confirmed
    PROVE  /\ TakeSucceeds(queue)
           /\ credited' = credited \cup TakenTransfers(queue)
           /\ firstUnhandled' <= confirmed' + 1
<1>1. /\ QueueOK(queue, now) /\ RestOK /\ Shape(queue) /\ ConfirmedIsCompleted
  BY WholeParts
<1>2. /\ TakeSucceeds(queue)
      /\ credited' = credited \cup TakenTransfers(queue)
      /\ firstUnhandled' = IF UnhandledConfirmed(queue) = {}
                           THEN firstUnhandled
                           ELSE Max(UnhandledConfirmed(queue)) + 1
  BY DEF TakePendingCompleted
<1>3. firstUnhandled' <= confirmed + 1
  <2>1. CASE UnhandledConfirmed(queue) = {}
    BY <2>1, <1>1, <1>2 DEF ConfirmedIsCompleted
  <2>2. CASE UnhandledConfirmed(queue) # {}
    <3>1. confirmed \in Nat /\ Max(UnhandledConfirmed(queue)) = confirmed
      BY <2>2, <1>1, UnhandledRange
    <3> QED BY <3>1, <2>2, <1>2
  <2> QED BY <2>1, <2>2
<1> QED BY <1>2, <1>3

(* clock_end_block without a push                                           *)
LEMMA EndBlockQuietInv ==
    ASSUME Whole, TInv, TInv', EndBlockQuiet
    PROVE  Whole'
<1>1. /\ TakePendingCompleted
      /\ queue' = AfterTake(queue)
      /\ UNCHANGED <<confirmed, processed, recovery>>
  BY DEF EndBlockQuiet
<1>2. /\ TakeSucceeds(queue)
      /\ credited' = credited \cup TakenTransfers(queue)
      /\ firstUnhandled' <= confirmed' + 1
  BY <1>1, TakeInv
<1>3. ConfirmedIsCompleted /\ (queue.len > 0 => Start(queue) = 0)
  BY WholeParts
<1>4. /\ Shape(queue') /\ Emptied(queue')
      /\ LastCompleted(queue') = LastCompleted(queue)
      /\ OnePlace(queue', processed, credited \cup TakenTransfers(queue), recovery)
  BY <1>1, <1>2, AfterTakeInv
<1>5. queue'.index = queue.index /\ queue'.len = queue.len
  BY <1>1, <1>2, AfterTakeFields
<1>6. Intact'
  BY <1>3, <1>5 DEF Intact, Start
<1>7. ConfirmedIsCompleted'
  <2>1. LastCompleted(queue)' = LastCompleted(queue')
    BY DEF LastCompleted, SigningOffset, HasSigning
  <2> QED BY <2>1, <1>1, <1>2, <1>3, <1>4 DEF ConfirmedIsCompleted
<1>8. OnePlace(queue', processed', credited', recovery')
  BY <1>1, <1>2, <1>4
<1> QED BY <1>4, <1>6, <1>7, <1>8, WholeNext

(* clock_end_block with a push that prunes nothing                          *)
LEMMA EndBlockPushInv ==
    ASSUME TInv, TInv', Intact => Whole, EndBlockPush, Intact'
    PROVE  Whole'
<1> DEFINE q == AfterTake(queue)
           b == ~ReachedCapacity(q)
           p == Pushed(q, b)
<1>1. PICK i \in Retained(p) :
        /\ IsPrunedStart(p, i)
        /\ ~HasSigning(q)
        /\ queue' = Stepped(PrunedFrom(p, i))
  BY DEF EndBlockPush, ShouldPush, MayPush
<1>2. /\ TakePendingCompleted
      /\ UNCHANGED <<confirmed, processed, recovery>>
  BY DEF EndBlockPush
<1>3. TakeSucceeds(queue)
  BY <1>2 DEF TakePendingCompleted
<1>4. QueueOK(q, now) /\ q.index = queue.index /\ q.len = queue.len
  BY <1>3, TakeType
<1>5. QueueOK(queue, now) /\ RestOK
  BY TInvParts
<1>6. b \in BOOLEAN
  OBVIOUS
<1>7. q = AfterTake(queue)
  OBVIOUS
<1> HIDE DEF q, b
<1>8. queue'.len > 0 /\ Start(queue') = i
  BY <1>1, <1>4, <1>5, <1>6, PushType
<1>9. i = 0
  <2>1. queue'.len > 0 => Start(queue') = 0
    BY DEF Intact, Start
  <2> QED BY <1>8, <2>1
<1>10. q.len > 0 => Start(q) = 0
  <2>1. /\ p.index = NextIndex(q) /\ p.len = q.len + 1
    BY <1>4, <1>5, <1>6, PushedType
  <2>2. q.index \in Nat /\ q.len \in 0 .. (q.index + 1)
    BY <1>4 DEF QueueOK
  <2>3. Start(p) <= 0
    BY <1>1, <1>9, <2>1, <2>2 DEF Retained
  <2> QED BY <2>1, <2>2, <2>3 DEF Start, NextIndex
<1>11. Intact
  BY <1>4, <1>10 DEF Intact, Start
<1>12. Whole
  BY <1>11
<1>13. /\ credited' = credited \cup TakenTransfers(queue)
       /\ firstUnhandled' <= confirmed' + 1
  BY <1>2, <1>12, TakeInv
<1>14. ConfirmedIsCompleted /\ Retained(q) = Retained(queue)
  BY <1>3, <1>7, <1>12, WholeParts, AfterTakeFields
<1>15. /\ Shape(q) /\ Emptied(q)
       /\ LastCompleted(q) = LastCompleted(queue)
       /\ \A j \in Retained(q) : j <= LastCompleted(q) => q.cps[j].pending = {}
       /\ OnePlace(q, processed, credited', recovery)
  BY <1>3, <1>7, <1>12, <1>13, <1>14, AfterTakeInv
<1>16. PushedTo(queue', q)
  <2>1. queue' = Stepped(PrunedFrom(p, 0))
    BY <1>1, <1>9
  <2> QED BY <2>1, <1>4, <1>5, <1>6, <1>10, PushFields
<1>17. /\ Shape(queue') /\ Emptied(queue')
       /\ LastCompleted(queue') = LastCompleted(q)
       /\ OnePlace(queue', processed, credited', recovery)
  BY <1>1, <1>4, <1>15, <1>16, PushInv
<1>18. ConfirmedIsCompleted'
  <2>1. LastCompleted(queue)' = LastCompleted(queue')
    BY DEF LastCompleted, SigningOffset, HasSigning
  <2> QED BY <2>1, <1>2, <1>13, <1>14, <1>15, <1>17 DEF ConfirmedIsCompleted
<1>19. OnePlace(queue', processed', credited', recovery')
  BY <1>2, <1>17
<1> QED BY <1>17, <1>18, <1>19, WholeNext

(* A step that leaves the queue and the bookkeeping of deposits alone.      *)
LEMMA OtherInv ==
    ASSUME Whole, TInv',
           UNCHANGED <<queue, confirmed, firstUnhandled, processed, recovery, credited>>
    PROVE  Whole'
<1>1. /\ (queue.len > 0 => Start(queue) = 0) /\ Shape(queue) /\ ConfirmedIsCompleted
      /\ Emptied(queue) /\ OnePlace(queue, processed, credited, recovery)
  BY WholeParts
<1>2. ConfirmedIsCompleted'
  BY <1>1 DEF ConfirmedIsCompleted, LastCompleted, SigningOffset, HasSigning
<1>3. Intact'
  BY <1>1 DEF Intact, Start
<1> QED BY <1>1, <1>2, <1>3, WholeNext

-----------------------------------------------------------------------------
(* Only a push makes the queue longer or prunes it, so any other step that  *)
(* ends in an intact queue began in one.                                    *)
LEMMA IntactBefore ==
    ASSUME queue'.index = queue.index, queue'.len = queue.len, Intact'
    PROVE  Intact
  BY DEF Intact, Start

(* set leaves the number of checkpoints alone.                              *)
LEMMA SetLength ==
    ASSUME NEW q, NEW i, NEW cp
    PROVE  SetCheckpoint(q, i, cp).index = q.index /\ SetCheckpoint(q, i, cp).len = q.len
  BY DEF SetCheckpoint

(* So does give_miner_fee followed by another set.                          *)
LEMMA GiveMinerFeeLength ==
    ASSUME NEW units, NEW cp, queue' = SetBuilding(GiveMinerFee(queue, units), cp)
    PROVE  queue'.index = queue.index /\ queue'.len = queue.len
  BY SetLength DEF GiveMinerFee, SetBuilding

(* So do the loops of take_pending_*.                                       *)
LEMMA TakeLength ==
    AfterTake(queue).index = queue.index /\ AfterTake(queue).len = queue.len
  BY DEF AfterTake, AfterConfirmed, ClearPending

(* The state that instantiate leaves is intact and in order.                *)
LEMMA InitIInv == Init => IInv
<1> SUFFICES ASSUME Init PROVE IInv
  OBVIOUS
<1>1. TInv
  BY InitTInv
<1>2. queue.index = 0 /\ queue.len = 0
  BY DEF Init
<1>3. Retained(queue) = {}
  BY <1>2 DEF Retained, Start
<1>4. Intact
  BY <1>2 DEF Intact
<1>5. QueueShape /\ NothingStranded
  BY <1>3 DEF QueueShape, NothingStranded
<1>6. ConfirmedIsCompleted
  BY DEF Init, ConfirmedIsCompleted, None
<1>7. DepositInOnePlace
  <2>1. OnePlace(queue, processed, credited, recovery)
    BY <1>3 DEF Init, OnePlace
  <2> QED BY <2>1, OnePlaceParts
<1> QED BY <1>1, <1>4, <1>5, <1>6, <1>7 DEF IInv, Whole, TInv

(* Every message, every end block and every step of the outside keeps it.   *)
LEMMA NextIInv == IInv /\ [Next]_vars => IInv'
<1> SUFFICES ASSUME IInv, [Next]_vars PROVE IInv'
  OBVIOUS
<1>1. TInv /\ TInv'
  BY NextTInv DEF IInv
<1> SUFFICES ASSUME Intact' PROVE Whole'
  BY <1>1 DEF IInv
<1>2. Intact => Whole
  BY DEF IInv
<1>3. ASSUME NEW d \in Deposits, NEW i \in Retained(queue), NEW h \in 0 .. height,
             RelayDeposit(d, i, h)
      PROVE  Whole'
  <2>1. queue'.index = queue.index /\ queue'.len = queue.len
    <3>1. \E units, cp : queue' = SetBuilding(GiveMinerFee(queue, units), cp)
      BY <1>3 DEF RelayDeposit
    <3> QED BY <3>1, GiveMinerFeeLength
  <2> QED BY <2>1, <1>1, <1>2, <1>3, IntactBefore, RelayDepositInv
<1>4. ASSUME NEW d \in Deposits, NEW i \in Retained(queue), NEW h \in 0 .. height,
             RelayExpiredDeposit(d, i, h)
      PROVE  Whole'
  <2>1. queue'.index = queue.index /\ queue'.len = queue.len
    BY <1>4 DEF RelayExpiredDeposit
  <2> QED BY <2>1, <1>1, <1>2, <1>4, IntactBefore, RelayExpiredInv
<1>5. ASSUME NEW w \in Withdrawals, WithdrawToBitcoin(w) PROVE Whole'
  <2>1. queue'.index = queue.index /\ queue'.len = queue.len
    <3>1. \E units, cp : queue' = SetBuilding(GiveMinerFee(queue, units), cp)
      BY <1>5 DEF WithdrawToBitcoin
    <3> QED BY <3>1, GiveMinerFeeLength
  <2> QED BY <2>1, <1>1, <1>2, <1>5, IntactBefore, WithdrawInv
<1>6. ASSUME NEW i \in Retained(queue), NEW h \in 0 .. height, RelayCheckpoint(i, h)
      PROVE  Whole'
  <2>1. queue'.index = queue.index /\ queue'.len = queue.len
    BY <1>6 DEF RelayCheckpoint
  <2> QED BY <2>1, <1>1, <1>2, <1>6, IntactBefore, RelayCheckpointInv
<1>7. ASSUME NEW s \in Signers, NEW i \in Retained(queue), NEW h \in Heights,
             SubmitCheckpointSignature(s, i, h)
      PROVE  Whole'
  <2>1. queue'.index = queue.index /\ queue'.len = queue.len
    BY <1>7, SetLength DEF SubmitCheckpointSignature
  <2> QED BY <2>1, <1>1, <1>2, <1>7, IntactBefore, SignatureInv
<1>8. CASE EndBlockQuiet
  <2>1. queue'.index = queue.index /\ queue'.len = queue.len
    BY <1>8, TakeLength DEF EndBlockQuiet
  <2> QED BY <2>1, <1>1, <1>2, <1>8, IntactBefore, EndBlockQuietInv
<1>9. CASE EndBlockPush
  BY <1>1, <1>2, <1>9, EndBlockPushInv
<1>10. ASSUME UNCHANGED <<queue, confirmed, firstUnhandled, processed, recovery, credited>>
       PROVE  Whole'
  BY <1>1, <1>2, <1>10, IntactBefore, OtherInv
<1>11. ASSUME \/ \E S \in SUBSET Signers : AddValidators(S)
              \/ \E s \in Signers : SetSignatoryKey(s)
              \/ Tick \/ MineBlock \/ Reorg \/ UNCHANGED vars
       PROVE  Whole'
  BY <1>10, <1>11
     DEF AddValidators, SetSignatoryKey, Tick, MineBlock, Reorg, vars, contractVars
<1> QED
  BY <1>3, <1>4, <1>5, <1>6, <1>7, <1>8, <1>9, <1>11 DEF Next, ClockEndBlock

(* The inductive invariant holds in every reachable state.                  *)
THEOREM InvariantHolds == Spec => []IInv
  BY InitIInv, NextIInv, PTL DEF Spec

(* Until the first checkpoint is pruned, the queue has one checkpoint being *)
(* built, at most the one before it being signed, all others complete;      *)
(* confirmed_index never passes the last completed one, so num_unconfirmed  *)
(* does not underflow; transfers wait only in the last two checkpoints; and *)
(* every deposit relayed is in exactly one place: paid once, in recovery,   *)
(* or waiting in one checkpoint.                                            *)
THEOREM UntilPrunedHolds == Spec => []UntilPruned
<1>1. IInv => UntilPruned
  BY DEF IInv, Whole, UntilPruned
<1> QED BY <1>1, InvariantHolds, PTL

-----------------------------------------------------------------------------
(* Types of the parts of a transaction.                                     *)

Outpoint == {ReserveOutpoint(i) : i \in Nat} \cup {DepositOutpoint(d) : d \in Deposits}
Payee    == {<<"reserve">>, <<"timestamp">>} \cup {<<"withdrawal", w>> : w \in Withdrawals}

Input  == [prevout : Outpoint, signatories : SUBSET Signers, amount : Nat]
Output == [to : Payee, value : Nat]

-----------------------------------------------------------------------------
(* Totals of inputs and of outputs.                                         *)

Amounts(s) == [k \in DOMAIN s |-> s[k].amount]
Values(s)  == [k \in DOMAIN s |-> s[k].value]

(* The total of the inputs is a sum of naturals over their places.          *)
LEMMA TotalInType ==
    ASSUME NEW s \in Seq(Input)
    PROVE  /\ TotalIn(s) = SumFunctionOnSet(Amounts(s), 1 .. Len(s))
           /\ \A k \in 1 .. Len(s) : Amounts(s)[k] = s[k].amount /\ Amounts(s)[k] \in Nat
           /\ TotalIn(s) \in Nat
<1>1. DOMAIN s = 1 .. Len(s) /\ IsFiniteSet(1 .. Len(s))
  BY FS_Interval
<1>2. \A k \in 1 .. Len(s) : s[k] \in Input
  BY ElementOfSeq
<1>3. \A k \in 1 .. Len(s) : Amounts(s)[k] = s[k].amount /\ Amounts(s)[k] \in Nat
  BY <1>1, <1>2 DEF Amounts, Input
<1>4. TotalIn(s) = SumFunctionOnSet(Amounts(s), 1 .. Len(s))
  BY <1>1 DEF TotalIn, Amounts, SumFunction
<1> QED BY <1>1, <1>3, <1>4, SumNat

(* So is that of the outputs.                                               *)
LEMMA TotalOutType ==
    ASSUME NEW s \in Seq(Output)
    PROVE  /\ TotalOut(s) = SumFunctionOnSet(Values(s), 1 .. Len(s))
           /\ \A k \in 1 .. Len(s) : Values(s)[k] = s[k].value /\ Values(s)[k] \in Nat
           /\ TotalOut(s) \in Nat
<1>1. DOMAIN s = 1 .. Len(s) /\ IsFiniteSet(1 .. Len(s))
  BY FS_Interval
<1>2. \A k \in 1 .. Len(s) : s[k] \in Output
  BY ElementOfSeq
<1>3. \A k \in 1 .. Len(s) : Values(s)[k] = s[k].value /\ Values(s)[k] \in Nat
  BY <1>1, <1>2 DEF Values, Output
<1>4. TotalOut(s) = SumFunctionOnSet(Values(s), 1 .. Len(s))
  BY <1>1 DEF TotalOut, Values, SumFunction
<1> QED BY <1>1, <1>3, <1>4, SumNat

(* s is a, followed by b or by b last one first.                            *)
IsJoin(s, a, b) ==
    /\ Len(s) = Len(a) + Len(b)
    /\ \A k \in 1 .. Len(a) : s[k] = a[k]
    /\ \/ \A k \in 1 .. Len(b) : s[Len(a) + k] = b[k]
       \/ \A k \in 1 .. Len(b) : s[Len(s) + 1 - k] = b[k]

(* The total of the inputs of both parts.                                   *)
LEMMA TotalInJoin ==
    ASSUME NEW s \in Seq(Input), NEW a \in Seq(Input), NEW b \in Seq(Input), IsJoin(s, a, b)
    PROVE  TotalIn(s) = TotalIn(a) + TotalIn(b)
<1> DEFINE f == Amounts(s)
           g == Amounts(a)
           h == Amounts(b)
           n == Len(s)
           l == Len(a)
           m == Len(b)
<1>1. l \in Nat /\ m \in Nat /\ n \in Nat /\ n = l + m
  BY DEF IsJoin
<1>2. /\ TotalIn(s) = SumFunctionOnSet(f, 1 .. n)
      /\ TotalIn(a) = SumFunctionOnSet(g, 1 .. l)
      /\ TotalIn(b) = SumFunctionOnSet(h, 1 .. m)
      /\ \A k \in 1 .. n : f[k] = s[k].amount /\ f[k] \in Nat
      /\ \A k \in 1 .. l : g[k] = a[k].amount /\ g[k] \in Nat
      /\ \A k \in 1 .. m : h[k] = b[k].amount /\ h[k] \in Nat
  BY TotalInType
<1>3. /\ \A k \in 1 .. l : s[k] = a[k]
      /\ \/ \A k \in 1 .. m : s[l + k] = b[k]
         \/ \A k \in 1 .. m : s[n + 1 - k] = b[k]
  BY DEF IsJoin
<1> HIDE DEF f, g, h, l, m, n
<1>4. /\ \A k \in 1 .. l : g[k] = f[k]
      /\ \A k \in 1 .. n : f[k] \in Int
  <2>1. ASSUME NEW k \in 1 .. l PROVE g[k] = f[k]
    <3>1. k \in 1 .. n
      BY <1>1
    <3>2. s[k] = a[k]
      BY <1>3
    <3> QED BY <1>2, <3>1, <3>2
  <2>2. ASSUME NEW k \in 1 .. n PROVE f[k] \in Int
    <3>1. f[k] \in Nat
      BY <1>2
    <3> QED BY <3>1
  <2> QED BY <2>1, <2>2
<1>5. Shifted(h, 1, m, f, l + 1, n) \/ Reversed(h, m, f, l + 1, n)
  <2>1. CASE \A k \in 1 .. m : s[l + k] = b[k]
    <3>1. \A k \in 1 .. m : l + k \in 1 .. n /\ k + ((l + 1) - 1) = l + k
      BY <1>1
    <3>2. \A k \in 1 .. m : h[k] \in Int /\ f[k + ((l + 1) - 1)] = h[k]
      BY <1>2, <2>1, <3>1
    <3> QED BY <1>1, <3>2 DEF Shifted
  <2>2. CASE \A k \in 1 .. m : s[n + 1 - k] = b[k]
    <3>1. \A k \in 1 .. m : n + 1 - k \in 1 .. n
      BY <1>1
    <3>2. \A k \in 1 .. m : h[k] \in Int /\ f[n + 1 - k] = h[k]
      BY <1>2, <2>2, <3>1
    <3> QED BY <1>1, <3>2 DEF Reversed
  <2> QED BY <1>3, <2>1, <2>2
<1>6. SumJoin(f, n, g, l, h, m)
  BY <1>1, <1>4, <1>5 DEF SumJoin
<1>7. SumFunctionOnSet(f, 1 .. n) = SumFunctionOnSet(g, 1 .. l) + SumFunctionOnSet(h, 1 .. m)
  BY <1>6, SumParts
<1> QED BY <1>2, <1>7

(* The total of the outputs of both parts.                                  *)
LEMMA TotalOutJoin ==
    ASSUME NEW s \in Seq(Output), NEW a \in Seq(Output), NEW b \in Seq(Output), IsJoin(s, a, b)
    PROVE  TotalOut(s) = TotalOut(a) + TotalOut(b)
<1> DEFINE f == Values(s)
           g == Values(a)
           h == Values(b)
           n == Len(s)
           l == Len(a)
           m == Len(b)
<1>1. l \in Nat /\ m \in Nat /\ n \in Nat /\ n = l + m
  BY DEF IsJoin
<1>2. /\ TotalOut(s) = SumFunctionOnSet(f, 1 .. n)
      /\ TotalOut(a) = SumFunctionOnSet(g, 1 .. l)
      /\ TotalOut(b) = SumFunctionOnSet(h, 1 .. m)
      /\ \A k \in 1 .. n : f[k] = s[k].value /\ f[k] \in Nat
      /\ \A k \in 1 .. l : g[k] = a[k].value /\ g[k] \in Nat
      /\ \A k \in 1 .. m : h[k] = b[k].value /\ h[k] \in Nat
  BY TotalOutType
<1>3. /\ \A k \in 1 .. l : s[k] = a[k]
      /\ \/ \A k \in 1 .. m : s[l + k] = b[k]
         \/ \A k \in 1 .. m : s[n + 1 - k] = b[k]
  BY DEF IsJoin
<1> HIDE DEF f, g, h, l, m, n
<1>4. /\ \A k \in 1 .. l : g[k] = f[k]
      /\ \A k \in 1 .. n : f[k] \in Int
  <2>1. ASSUME NEW k \in 1 .. l PROVE g[k] = f[k]
    <3>1. k \in 1 .. n
      BY <1>1
    <3>2. s[k] = a[k]
      BY <1>3
    <3> QED BY <1>2, <3>1, <3>2
  <2>2. ASSUME NEW k \in 1 .. n PROVE f[k] \in Int
    <3>1. f[k] \in Nat
      BY <1>2
    <3> QED BY <3>1
  <2> QED BY <2>1, <2>2
<1>5. Shifted(h, 1, m, f, l + 1, n) \/ Reversed(h, m, f, l + 1, n)
  <2>1. CASE \A k \in 1 .. m : s[l + k] = b[k]
    <3>1. \A k \in 1 .. m : l + k \in 1 .. n /\ k + ((l + 1) - 1) = l + k
      BY <1>1
    <3>2. \A k \in 1 .. m : h[k] \in Int /\ f[k + ((l + 1) - 1)] = h[k]
      BY <1>2, <2>1, <3>1
    <3> QED BY <1>1, <3>2 DEF Shifted
  <2>2. CASE \A k \in 1 .. m : s[n + 1 - k] = b[k]
    <3>1. \A k \in 1 .. m : n + 1 - k \in 1 .. n
      BY <1>1
    <3>2. \A k \in 1 .. m : h[k] \in Int /\ f[n + 1 - k] = h[k]
      BY <1>2, <2>2, <3>1
    <3> QED BY <1>1, <3>2 DEF Reversed
  <2> QED BY <1>3, <2>1, <2>2
<1>6. SumJoin(f, n, g, l, h, m)
  BY <1>1, <1>4, <1>5 DEF SumJoin
<1>7. SumFunctionOnSet(f, 1 .. n) = SumFunctionOnSet(g, 1 .. l) + SumFunctionOnSet(h, 1 .. m)
  BY <1>6, SumParts
<1> QED BY <1>2, <1>7

(* A concatenation joins its parts.                                         *)
LEMMA ConcatIsJoin ==
    ASSUME NEW S, NEW a \in Seq(S), NEW b \in Seq(S)
    PROVE  IsJoin(a \o b, a, b)
<1>1. /\ Len(a \o b) = Len(a) + Len(b)
      /\ \A i \in 1 .. Len(a) + Len(b) :
            (a \o b)[i] = IF i <= Len(a) THEN a[i] ELSE b[i - Len(a)]
  BY ConcatProperties
<1>2. Len(a) \in Nat /\ Len(b) \in Nat
  OBVIOUS
<1>3. \A k \in 1 .. Len(a) : (a \o b)[k] = a[k]
  BY <1>1, <1>2
<1>4. ASSUME NEW k \in 1 .. Len(b) PROVE (a \o b)[Len(a) + k] = b[k]
  <2>1. Len(a) + k \in 1 .. Len(a) + Len(b) /\ ~(Len(a) + k <= Len(a))
    BY <1>2
  <2>2. (Len(a) + k) - Len(a) = k
    BY <1>2
  <2> QED BY <1>1, <2>1, <2>2
<1> QED BY <1>1, <1>3, <1>4 DEF IsJoin

(* So does an element appended.                                             *)
LEMMA AppendIsJoin ==
    ASSUME NEW S, NEW a \in Seq(S), NEW x \in S
    PROVE  IsJoin(Append(a, x), a, <<x>>) /\ <<x>> \in Seq(S)
<1>1. Append(a, x) = a \o <<x>>
  BY AppendIsConcat
<1>2. <<x>> \in Seq(S)
  OBVIOUS
<1> QED BY <1>1, <1>2, ConcatIsJoin

(* The parts advance cuts a sequence into: the first n elements, and the    *)
(* others in the order they are popped.                                     *)
LEMMA CutParts ==
    ASSUME NEW S, NEW s \in Seq(S), NEW n \in Nat
    PROVE  /\ Kept(s, n) \in Seq(S) /\ Len(Kept(s, n)) = AtMost(Len(s), n)
           /\ \A k \in 1 .. Len(Kept(s, n)) : Kept(s, n)[k] = s[k]
           /\ Excess(s, n) \in Seq(S) /\ Len(Excess(s, n)) = Len(s) - Len(Kept(s, n))
           /\ \A k \in 1 .. Len(Excess(s, n)) : Excess(s, n)[k] = s[Len(s) + 1 - k]
           /\ IsJoin(s, Kept(s, n), Excess(s, n))
<1> DEFINE L == Len(s)
           m == AtMost(L, n)
           t == SubSeq(s, n + 1, L)
<1>1. L \in Nat /\ m \in Nat /\ m <= L /\ m <= n /\ (m < L => m = n)
  BY DEF AtMost
<1>2. \A k \in 1 .. L : s[k] \in S
  BY ElementOfSeq
<1>3. /\ Kept(s, n) \in Seq(S) /\ Len(Kept(s, n)) = m
      /\ \A k \in 1 .. m : Kept(s, n)[k] = s[k]
  <2>1. \A i \in 1 .. m : s[i] \in S
    BY <1>1, <1>2
  <2>2. /\ SubSeq(s, 1, m) \in Seq(S)
        /\ Len(SubSeq(s, 1, m)) = IF 1 <= m THEN m - 1 + 1 ELSE 0
        /\ \A i \in 1 .. m - 1 + 1 : SubSeq(s, 1, m)[i] = s[1 + i - 1]
    BY <1>1, <2>1, SubSeqProperties
  <2> QED BY <1>1, <2>2 DEF Kept
<1>4. /\ t \in Seq(S) /\ Len(t) = L - m
      /\ \A i \in 1 .. (L - m) : t[i] = s[m + i]
  <2>1. \A i \in (n + 1) .. L : s[i] \in S
    BY <1>1, <1>2
  <2>2. /\ t \in Seq(S)
        /\ Len(t) = IF n + 1 <= L THEN L - (n + 1) + 1 ELSE 0
        /\ \A i \in 1 .. L - (n + 1) + 1 : t[i] = s[(n + 1) + i - 1]
    BY <1>1, <2>1, SubSeqProperties
  <2> QED BY <1>1, <2>2
<1>5. Excess(s, n) = [i \in 1 .. Len(t) |-> t[(Len(t) - i) + 1]]
  BY DEF Excess, Reverse
<1> HIDE DEF t, m
<1>6. /\ Excess(s, n) \in Seq(S) /\ Len(Excess(s, n)) = L - m
      /\ \A k \in 1 .. (L - m) : Excess(s, n)[k] = s[L + 1 - k]
  <2>1. PICK z \in Nat : z = L - m
    BY <1>1
  <2>2. Excess(s, n) = [i \in 1 .. z |-> t[(z - i) + 1]]
    BY <1>4, <1>5, <2>1
  <2>3. \A i \in 1 .. z : (z - i) + 1 \in 1 .. z /\ t[(z - i) + 1] \in S
    BY <1>4, <2>1, ElementOfSeq
  <2>4. Excess(s, n) \in Seq(S) /\ Len(Excess(s, n)) = z
    BY <2>2, <2>3
  <2>5. ASSUME NEW k \in 1 .. z PROVE Excess(s, n)[k] = s[L + 1 - k]
    <3>1. Excess(s, n)[k] = t[(z - k) + 1]
      BY <2>2
    <3>2. t[(z - k) + 1] = s[m + ((z - k) + 1)]
      BY <1>4, <2>1, <2>3
    <3>3. m + ((z - k) + 1) = L + 1 - k
      BY <1>1, <2>1
    <3> QED BY <3>1, <3>2, <3>3
  <2> QED BY <2>1, <2>4, <2>5
<1>7. IsJoin(s, Kept(s, n), Excess(s, n))
  BY <1>1, <1>3, <1>6 DEF IsJoin
<1> QED BY <1>1, <1>3, <1>6, <1>7 DEF m

-----------------------------------------------------------------------------
(* Checkpoints.                                                             *)

TxOK(cp) ==
    /\ cp.inputs \in Seq(Input) /\ cp.outputs \in Seq(Output)
    /\ cp.signatories \in SUBSET Signers
    /\ cp.feeRate \in Nat
    /\ cp.feesCollected \in Nat
    /\ IsFiniteSet(cp.pending)
    /\ \A p \in cp.pending : p.amount \in Int

TxsOK(q) == \A i \in Retained(q) : TxOK(q.cps[i])

(* The estimated sizes are naturals.                                        *)
LEMMA VsizeType ==
    ASSUME NEW s \in Seq(Input)
    PROVE  WitnessesVsize(s) \in Nat
<1> DEFINE f == [k \in DOMAIN s |-> WitnessVsize(s[k].signatories)]
<1>1. DOMAIN s = 1 .. Len(s) /\ IsFiniteSet(1 .. Len(s))
  BY FS_Interval
<1>2. ASSUME NEW k \in 1 .. Len(s) PROVE WitnessVsize(s[k].signatories) \in Nat
  <2>1. s[k] \in Input
    BY ElementOfSeq
  <2>2. IsFiniteSet(s[k].signatories)
    BY <2>1, FundsAssumption, FS_Subset DEF Input
  <2>3. Cardinality(s[k].signatories) \in Nat
    BY <2>2, FS_CardinalityType
  <2>4. SigVsize \in Nat /\ WitVsize \in Nat
    BY LimitsAssumption
  <2> QED BY <2>3, <2>4 DEF WitnessVsize
<1>3. \A k \in 1 .. Len(s) : f[k] \in Nat
  BY <1>1, <1>2
<1>4. WitnessesVsize(s) = SumFunctionOnSet(f, 1 .. Len(s))
  BY <1>1 DEF WitnessesVsize, SumFunction
<1> HIDE DEF f
<1> QED BY <1>1, <1>3, <1>4, SumNat

(* The size and the fee of a checkpoint.                                    *)
LEMMA EstVsizeType ==
    ASSUME NEW cp, TxOK(cp)
    PROVE  /\ EstVsize(cp) \in Nat
           /\ BaseFee(cp) \in Nat
           /\ MinerFees(cp) \in Int
           /\ FrozenInputs(cp) \in Seq(Input)
<1>1. cp.inputs \in Seq(Input) /\ cp.outputs \in Seq(Output) /\ cp.feeRate \in Nat
  BY DEF TxOK
<1>2. MaxInputs \in Nat /\ MaxOutputs \in Nat
      /\ TxVsize \in Nat /\ InVsize \in Nat /\ OutVsize \in Nat
  BY LimitsAssumption
<1> DEFINE ins == Kept(cp.inputs, MaxInputs)
<1>3. ins \in Seq(Input)
  BY <1>1, <1>2, CutParts
<1>4. WitnessesVsize(ins) \in Nat /\ Len(ins) \in Nat
  BY <1>3, VsizeType
<1>5. AtMost(Len(cp.outputs) + 2, MaxOutputs) \in Nat
  BY <1>1, <1>2 DEF AtMost
<1>6. EstVsize(cp) = TxVsize + InVsize * Len(ins)
        + OutVsize * AtMost(Len(cp.outputs) + 2, MaxOutputs)
        + (IF cp.status = "Complete" THEN 2 ELSE 1) * WitnessesVsize(ins)
  BY DEF EstVsize
<1>7. FrozenInputs(cp) = ins
  BY DEF FrozenInputs
<1>8. PICK w \in Nat, l \in Nat, o \in Nat :
        w = WitnessesVsize(ins) /\ l = Len(ins) /\ o = AtMost(Len(cp.outputs) + 2, MaxOutputs)
  BY <1>4, <1>5
<1> HIDE DEF ins
<1>9. EstVsize(cp) \in Nat
  <2>1. InVsize * l \in Nat /\ OutVsize * o \in Nat
    BY <1>2
  <2>2. (IF cp.status = "Complete" THEN 2 ELSE 1) * w \in Nat
    OBVIOUS
  <2>3. PICK a \in Nat, b \in Nat, c \in Nat :
            /\ a = InVsize * l /\ b = OutVsize * o
            /\ c = (IF cp.status = "Complete" THEN 2 ELSE 1) * w
    BY <2>1, <2>2
  <2>4. EstVsize(cp) = TxVsize + a + b + c
    BY <1>6, <1>8, <2>3, Zenon
  <2> QED BY <1>2, <2>4
<1>10. BaseFee(cp) \in Nat
  BY <1>1, <1>9 DEF BaseFee
<1>11. MinerFees(cp) \in Int
  BY <1>1, TotalInType, TotalOutType DEF MinerFees
<1> QED BY <1>3, <1>7, <1>9, <1>10, <1>11

(* The larger of a number and zero.                                         *)
LEMMA MaxZero ==
    ASSUME NEW x \in Int
    PROVE  Max({x, 0}) = IF x > 0 THEN x ELSE 0
<1> DEFINE m == IF x > 0 THEN x ELSE 0
<1>1. m \in {x, 0} /\ \A y \in {x, 0} : m >= y
  OBVIOUS
<1>2. ASSUME NEW z \in {x, 0}, \A y \in {x, 0} : z >= y PROVE z = m
  BY <1>2
<1> QED BY <1>1, <1>2 DEF Max

(* The fee of a checkpoint is a natural, no less than its own part.         *)
LEMMA CalcFeeType ==
    ASSUME RestOK, NEW q, NEW u, QueueOK(q, u), TxsOK(q), UnconfirmedReadable(q),
           NEW i \in Retained(q)
    PROVE  CalcFee(q, i) \in Nat /\ CalcFee(q, i) >= BaseFee(q.cps[i])
<1> DEFINE U == Unconfirmed(q)
           v == [j \in U |-> EstVsize(q.cps[j])]
           m == [j \in U |-> MinerFees(q.cps[j])]
           V == SumFunction(v)
           M == SumFunction(m)
           r == q.cps[i].feeRate
<1>1. q.index \in Nat /\ Retained(q) \subseteq Int
      /\ \A a \in Retained(q), b \in Int : a <= b /\ b <= q.index => b \in Retained(q)
  BY DEF QueueOK, Retained, Start
<1>2. U \subseteq Retained(q)
  <2>1. CASE NumUnconfirmed(q) = 0
    BY <2>1 DEF Unconfirmed
  <2>2. CASE NumUnconfirmed(q) # 0
    <3>1. NumUnconfirmed(q) > 0
      <4>1. NumUnconfirmed(q) \in Int
        BY DEF QueueOK, RestOK, NumUnconfirmed, LastCompleted, SigningOffset, HasCompleted
      <4> QED BY <2>2, <4>1 DEF UnconfirmedReadable
    <3>2. FirstUnconfirmed(q) \in Retained(q)
      BY <3>1 DEF UnconfirmedReadable
    <3> QED BY <1>1, <2>2, <3>2 DEF Unconfirmed
  <2> QED BY <2>1, <2>2
<1>3. IsFiniteSet(U)
  <2>1. IsFiniteSet(Retained(q))
    <3>1. PICK a \in Int, b \in Int : Retained(q) = a .. b
      BY DEF QueueOK, Retained, Start
    <3> QED BY <3>1, FS_Interval
  <2> QED BY <1>2, <2>1, FS_Subset
<1>4. \A j \in U : v[j] \in Nat /\ m[j] \in Int
  BY <1>2, EstVsizeType DEF TxsOK
<1>5. V = SumFunctionOnSet(v, U) /\ M = SumFunctionOnSet(m, U)
  BY DEF SumFunction
<1>6. r \in Nat /\ BaseFee(q.cps[i]) \in Nat
  BY EstVsizeType DEF TxsOK, TxOK
<1>7. CalcFee(q, i) = BaseFee(q.cps[i]) + Max({V * r - M, 0})
  BY DEF CalcFee, FeeAdjustment
<1> HIDE DEF U, v, m, r, V, M
<1>8. V \in Nat /\ M \in Int
  BY <1>3, <1>4, <1>5, SumNat, SumInt
<1>9. V * r - M \in Int
  BY <1>6, <1>8
<1>10. PICK x \in Int : x = V * r - M
  BY <1>9
<1>11. Max({x, 0}) \in Nat
  BY MaxZero
<1> QED BY <1>6, <1>7, <1>10, <1>11

-----------------------------------------------------------------------------
(* BuildingCheckpoint::advance.                                             *)

(* The outputs with the two additional ones in front.                       *)
Extended(cp) == <<ReserveOutput(0), TimestampOutput>> \o cp.outputs

(* Their type, their places and their total.                                *)
LEMMA ExtendedParts ==
    ASSUME NEW cp, TxOK(cp)
    PROVE  /\ Extended(cp) \in Seq(Output)
           /\ Len(Extended(cp)) = Len(cp.outputs) + 2
           /\ Extended(cp)[1] = ReserveOutput(0) /\ Extended(cp)[2] = TimestampOutput
           /\ \A k \in 1 .. Len(cp.outputs) : Extended(cp)[k + 2] = cp.outputs[k]
           /\ TotalOut(Extended(cp)) = TotalOut(cp.outputs)
<1> DEFINE two == <<ReserveOutput(0), TimestampOutput>>
<1>1. cp.outputs \in Seq(Output)
  BY DEF TxOK
<1>2. ReserveOutput(0) \in Output /\ TimestampOutput \in Output
  BY DEF ReserveOutput, TimestampOutput, Output, Payee
<1>3. /\ two \in Seq(Output) /\ Len(two) = 2
      /\ two[1] = ReserveOutput(0) /\ two[2] = TimestampOutput
      /\ two[1].value = 0 /\ two[2].value = 0
  BY <1>2 DEF ReserveOutput, TimestampOutput
<1>4. Extended(cp) = two \o cp.outputs
  BY DEF Extended
<1> HIDE DEF two
<1>5. /\ two \o cp.outputs \in Seq(Output)
      /\ Len(two \o cp.outputs) = Len(two) + Len(cp.outputs)
      /\ \A i \in 1 .. Len(two) + Len(cp.outputs) : (two \o cp.outputs)[i] =
                     IF i <= Len(two) THEN two[i] ELSE cp.outputs[i - Len(two)]
  BY <1>1, <1>3, ConcatProperties
<1>6. IsJoin(Extended(cp), two, cp.outputs)
  BY <1>1, <1>3, <1>4, ConcatIsJoin
<1>7. TotalOut(Extended(cp)) = TotalOut(two) + TotalOut(cp.outputs)
  BY <1>1, <1>3, <1>4, <1>5, <1>6, TotalOutJoin
<1>8. TotalOut(two) = 0
  <2>1. /\ TotalOut(two) = SumFunctionOnSet(Values(two), 1 .. 2)
        /\ \A k \in 1 .. 2 : Values(two)[k] = two[k].value
    BY <1>3, TotalOutType
  <2>2. Values(two)[1] = 0 /\ Values(two)[2] = 0
    BY <1>3, <2>1
  <2>3. 1 .. 2 = {1} \cup {2} /\ 2 \notin {1}
    OBVIOUS
  <2>7. IsFiniteSet({1})
    BY FS_Singleton
  <2>8. \A x \in {1} \cup {2} : Values(two)[x] \in Int
    BY <2>2
  <2>4. SumFunctionOnSet(Values(two), {1} \cup {2})
          = SumFunctionOnSet(Values(two), {1}) + Values(two)[2]
    BY <2>3, <2>7, <2>8, SumAdd
  <2>5. SumFunctionOnSet(Values(two), {1}) = 0
    BY <2>2, SumOne
  <2>6. SumFunctionOnSet(Values(two), 1 .. 2) = SumFunctionOnSet(Values(two), {1} \cup {2})
    BY <2>3, Zenon
  <2> QED BY <2>1, <2>2, <2>4, <2>5, <2>6
<1>9. TotalOut(cp.outputs) \in Nat
  BY <1>1, TotalOutType
<1>10. Len(cp.outputs) \in Nat
  BY <1>1
<1> QED BY <1>3, <1>4, <1>5, <1>7, <1>8, <1>9, <1>10

(* Putting a value into the first output.                                   *)
WithReserve(s, v) == [s EXCEPT ![1] = ReserveOutput(v)]

(* It adds the value to the total.                                          *)
LEMMA SetReserve ==
    ASSUME NEW s \in Seq(Output), Len(s) >= 1, s[1].value = 0, NEW v \in Nat,
           NEW t, t = WithReserve(s, v)
    PROVE  /\ t \in Seq(Output) /\ Len(t) = Len(s)
           /\ t[1] = ReserveOutput(v)
           /\ \A k \in 2 .. Len(s) : t[k] = s[k]
           /\ TotalOut(t) = TotalOut(s) + v
<1>1. Len(s) \in Nat /\ 1 \in 1 .. Len(s) /\ IsFiniteSet(1 .. Len(s))
  BY FS_Interval
<1>2. ReserveOutput(v) \in Output /\ ReserveOutput(v).value = v
  BY DEF ReserveOutput, Output, Payee
<1>3. /\ t \in Seq(Output) /\ Len(t) = Len(s)
      /\ \A j \in 1 .. Len(s) : t[j] = IF j = 1 THEN ReserveOutput(v) ELSE s[j]
  BY <1>1, <1>2, ExceptSeq DEF WithReserve
<1>4. t[1] = ReserveOutput(v) /\ \A k \in 2 .. Len(s) : t[k] = s[k]
  BY <1>1, <1>3
<1> DEFINE D == 1 .. Len(s)
           f == Values(s)
           g == Values(t)
<1>5. /\ TotalOut(s) = SumFunctionOnSet(f, D) /\ TotalOut(t) = SumFunctionOnSet(g, D)
      /\ \A k \in D : f[k] = s[k].value /\ f[k] \in Nat
      /\ \A k \in D : g[k] = t[k].value /\ g[k] \in Nat
  BY <1>3, TotalOutType
<1>6. f[1] = 0 /\ g[1] = v /\ \A k \in D \ {1} : f[k] = g[k]
  <2>1. f[1] = 0 /\ g[1] = v
    BY <1>1, <1>2, <1>4, <1>5
  <2>2. ASSUME NEW k \in D \ {1} PROVE f[k] = g[k]
    BY <1>3, <1>5
  <2> QED BY <2>1, <2>2
<1> HIDE DEF D, f, g
<1>7. IsFiniteSet(D) /\ 1 \in D /\ IsFiniteSet(D \ {1})
  BY <1>1, FS_Subset DEF D
<1>8. /\ SumFunctionOnSet(f, D) = f[1] + SumFunctionOnSet(f, D \ {1})
      /\ SumFunctionOnSet(g, D) = g[1] + SumFunctionOnSet(g, D \ {1})
      /\ SumFunctionOnSet(f, D \ {1}) \in Int
  <2>1. /\ \A k \in D : f[k] \in Int
        /\ \A k \in D : g[k] \in Int
        /\ \A k \in D \ {1} : f[k] \in Int
    BY <1>5
  <2> QED BY <1>7, <2>1, SumRemove, SumInt
<1>9. SumFunctionOnSet(f, D \ {1}) = SumFunctionOnSet(g, D \ {1})
  BY <1>6, <1>7, SumSame
<1> QED BY <1>3, <1>4, <1>5, <1>6, <1>8, <1>9

(* What a frozen checkpoint is: its transaction is of the right size, pays  *)
(* exactly the fee, and with what is handed to the next checkpoint nothing  *)
(* is lost.                                                                 *)
AdvancedOK(cp, fee, a) ==
    /\ TxOK(a)
    /\ \A k \in 1 .. Len(a.inputs) : a.inputs[k] = cp.inputs[k]
    /\ Len(a.inputs) = AtMost(Len(cp.inputs), MaxInputs)
    /\ Len(a.outputs) = AtMost(Len(cp.outputs) + 2, MaxOutputs)
    /\ a.outputs[1] = ReserveOutput(ReserveValue(cp, fee))
    /\ a.outputs[2] = TimestampOutput
    /\ \A k \in 3 .. Len(a.outputs) : a.outputs[k] = cp.outputs[k - 2]
    /\ ExcessInputs(cp) \in Seq(Input)
    /\ Len(ExcessInputs(cp)) = Len(cp.inputs) - Len(a.inputs)
    /\ \A k \in 1 .. Len(ExcessInputs(cp)) : ExcessInputs(cp)[k] = cp.inputs[Len(cp.inputs) + 1 - k]
    /\ ExcessOutputs(cp) \in Seq(Output)
    /\ Len(ExcessOutputs(cp)) = Len(cp.outputs) + 2 - Len(a.outputs)
    /\ \A k \in 1 .. Len(ExcessOutputs(cp)) :
          ExcessOutputs(cp)[k] = cp.outputs[Len(cp.outputs) + 1 - k]
    /\ MinerFees(a) = fee
    /\ ReserveValue(cp, fee) + TotalIn(ExcessInputs(cp)) - TotalOut(ExcessOutputs(cp))
         = TotalIn(cp.inputs) - TotalOut(cp.outputs) - fee
    /\ FrozenVsize(a) = TxVsize + InVsize * Len(a.inputs) + OutVsize * Len(a.outputs)
                        + WitnessesVsize(FrozenInputs(cp))
    /\ a.feeRate = cp.feeRate /\ a.signatories = cp.signatories
    /\ a.status = "Signing" /\ a.pending = cp.pending
    /\ a.createTime = cp.createTime /\ a.feesCollected = cp.feesCollected
    /\ a.sigs = cp.sigs /\ a.signedAt = cp.signedAt

(* advance freezes a checkpoint like that.                                  *)
LEMMA AdvancedParts ==
    ASSUME NEW cp, TxOK(cp), DOMAIN cp = CheckpointFields, NEW fee \in Nat,
           ReserveValue(cp, fee) >= 0
    PROVE  AdvancedOK(cp, fee, Advanced(cp, fee))
<1> DEFINE F == Extended(cp)
           K == Kept(F, MaxOutputs)
           E == Excess(F, MaxOutputs)
           v == ReserveValue(cp, fee)
           t == WithReserve(K, v)
           I == Kept(cp.inputs, MaxInputs)
           X == Excess(cp.inputs, MaxInputs)
           a == Advanced(cp, fee)
<1>1. cp.inputs \in Seq(Input) /\ cp.outputs \in Seq(Output)
  BY DEF TxOK
<1>2. /\ MaxInputs \in Nat /\ MaxOutputs \in Nat /\ MaxOutputs >= 2
  BY LimitsAssumption
<1>3. /\ F \in Seq(Output) /\ Len(F) = Len(cp.outputs) + 2
      /\ F[1] = ReserveOutput(0) /\ F[2] = TimestampOutput
      /\ \A k \in 1 .. Len(cp.outputs) : F[k + 2] = cp.outputs[k]
      /\ TotalOut(F) = TotalOut(cp.outputs)
  BY ExtendedParts
<1>4. /\ FrozenOutputs(cp) = K /\ ExcessOutputs(cp) = E
      /\ FrozenInputs(cp) = I /\ ExcessInputs(cp) = X
  BY DEF FrozenOutputs, ExcessOutputs, FrozenInputs, ExcessInputs, Extended
<1>5. v = TotalIn(I) - TotalOut(K) - fee
  BY <1>4 DEF ReserveValue
<1>6. /\ DOMAIN a = CheckpointFields
      /\ a.inputs = I /\ a.outputs = t
      /\ a.feeRate = cp.feeRate /\ a.signatories = cp.signatories
      /\ a.status = "Signing" /\ a.pending = cp.pending
      /\ a.createTime = cp.createTime /\ a.feesCollected = cp.feesCollected
      /\ a.sigs = cp.sigs /\ a.signedAt = cp.signedAt
  BY <1>4 DEF Advanced, CheckpointFields, WithReserve
<1> HIDE DEF F, a
<1>7. /\ K \in Seq(Output) /\ Len(K) = AtMost(Len(F), MaxOutputs)
      /\ \A k \in 1 .. Len(K) : K[k] = F[k]
      /\ E \in Seq(Output) /\ Len(E) = Len(F) - Len(K)
      /\ \A k \in 1 .. Len(E) : E[k] = F[Len(F) + 1 - k]
      /\ IsJoin(F, K, E)
  BY <1>2, <1>3, CutParts
<1>8. /\ I \in Seq(Input) /\ Len(I) = AtMost(Len(cp.inputs), MaxInputs)
      /\ \A k \in 1 .. Len(I) : I[k] = cp.inputs[k]
      /\ X \in Seq(Input) /\ Len(X) = Len(cp.inputs) - Len(I)
      /\ \A k \in 1 .. Len(X) : X[k] = cp.inputs[Len(cp.inputs) + 1 - k]
      /\ IsJoin(cp.inputs, I, X)
  BY <1>1, <1>2, CutParts
<1> HIDE DEF K, E, I, X, v
<1>9. /\ TotalOut(F) = TotalOut(K) + TotalOut(E)
      /\ TotalIn(cp.inputs) = TotalIn(I) + TotalIn(X)
  BY <1>1, <1>3, <1>7, <1>8, TotalInJoin, TotalOutJoin
<1>10. /\ TotalOut(K) \in Nat /\ TotalOut(E) \in Nat
       /\ TotalIn(I) \in Nat /\ TotalIn(X) \in Nat
       /\ Len(cp.outputs) \in Nat
  BY <1>1, <1>7, <1>8, TotalInType, TotalOutType
<1>11. v \in Nat
  BY <1>5, <1>10 DEF v
<1>12. Len(K) >= 2 /\ Len(K) \in Nat
  BY <1>2, <1>3, <1>7, <1>10 DEF AtMost
<1>13. K[1] = ReserveOutput(0) /\ K[2] = TimestampOutput /\ K[1].value = 0
  BY <1>3, <1>7, <1>12 DEF ReserveOutput
<1>14. /\ t \in Seq(Output) /\ Len(t) = Len(K)
       /\ t[1] = ReserveOutput(v)
       /\ \A k \in 2 .. Len(K) : t[k] = K[k]
       /\ TotalOut(t) = TotalOut(K) + v
  <2>1. K \in Seq(Output) /\ Len(K) >= 1 /\ K[1].value = 0 /\ v \in Nat
    BY <1>7, <1>11, <1>12, <1>13
  <2>2. t = WithReserve(K, v)
    OBVIOUS
  <2> HIDE DEF t
  <2> QED BY <2>1, <2>2, SetReserve
<1> HIDE DEF t
<1>15. /\ t[2] = TimestampOutput
       /\ \A k \in 3 .. Len(t) : t[k] = cp.outputs[k - 2]
  <2>1. t[2] = TimestampOutput
    BY <1>12, <1>13, <1>14
  <2>2. ASSUME NEW k \in 3 .. Len(t) PROVE t[k] = cp.outputs[k - 2]
    <3>1. k \in 2 .. Len(K) /\ k \in 1 .. Len(K) /\ k - 2 \in 1 .. Len(cp.outputs)
      BY <1>2, <1>3, <1>7, <1>10, <1>12, <1>14 DEF AtMost
    <3>2. t[k] = F[k]
      BY <1>7, <1>14, <3>1
    <3>3. (k - 2) + 2 = k
      OBVIOUS
    <3> QED BY <1>3, <3>1, <3>2, <3>3
  <2> QED BY <2>1, <2>2
<1>16. ASSUME NEW k \in 1 .. Len(E) PROVE E[k] = cp.outputs[Len(cp.outputs) + 1 - k]
  <2>1. E[k] = F[Len(F) + 1 - k]
    BY <1>7
  <2>2. Len(cp.outputs) + 1 - k \in 1 .. Len(cp.outputs)
    BY <1>3, <1>7, <1>10, <1>12
  <2>3. (Len(cp.outputs) + 1 - k) + 2 = Len(F) + 1 - k
    BY <1>3, <1>10
  <2> QED BY <1>3, <2>1, <2>2, <2>3
<1>17. TxOK(a)
  BY <1>6, <1>8, <1>14 DEF TxOK
<1>18. MinerFees(a) = fee
  BY <1>5, <1>6, <1>10, <1>14 DEF MinerFees
<1>19. v + TotalIn(X) - TotalOut(E) = TotalIn(cp.inputs) - TotalOut(cp.outputs) - fee
  BY <1>3, <1>5, <1>9, <1>10
<1>20. FrozenVsize(a) = TxVsize + InVsize * Len(a.inputs) + OutVsize * Len(a.outputs)
                        + WitnessesVsize(FrozenInputs(cp))
  BY <1>4, <1>6 DEF FrozenVsize
<1>21. Len(t) = AtMost(Len(cp.outputs) + 2, MaxOutputs)
  BY <1>3, <1>7, <1>14
<1>22. Len(E) = Len(cp.outputs) + 2 - Len(t)
  BY <1>3, <1>7, <1>14
<1>23. AdvancedOK(cp, fee, a)
  BY <1>4, <1>6, <1>7, <1>8, <1>14, <1>15, <1>16, <1>17, <1>18, <1>19, <1>20, <1>21, <1>22
     DEF AdvancedOK, v
<1> QED BY <1>23 DEF a

-----------------------------------------------------------------------------
(* SignatorySet::from_validator_ctx.                                        *)

(* No one left out of S is more powerful than one in it.                    *)
IsTop(S, P) == S \subseteq P /\ \A s \in S, t \in P \ S : Power[s] >= Power[t]

(* A finite set of signers has a set of the k most powerful.                *)
LEMMA TopExists ==
    ASSUME NEW P \in SUBSET Signers, NEW k \in Nat, k <= Cardinality(P)
    PROVE  \E S : IsTop(S, P) /\ Cardinality(S) = k
<1>1. IsFiniteSet(P) /\ Cardinality(P) \in Nat
  BY FundsAssumption, FS_Subset, FS_CardinalityType
<1> DEFINE T == {S \in SUBSET P : IsTop(S, P) /\ Cardinality(S) >= k}
<1>2. P \in T
  BY <1>1 DEF IsTop
<1>3. PICK m \in T : \A S \in T : S \subseteq m => S = m
  <2>1. T \in SUBSET (SUBSET P) /\ T # {}
    BY <1>2
  <2> HIDE DEF T
  <2> QED BY <1>1, <2>1, MinimalSubset
<1>4. /\ IsFiniteSet(m) /\ Cardinality(m) \in Nat /\ IsTop(m, P) /\ Cardinality(m) >= k
      /\ m \subseteq P
  <2>1. m \subseteq P /\ IsTop(m, P) /\ Cardinality(m) >= k
    BY <1>3
  <2> QED BY <1>1, <2>1, FS_Subset, FS_CardinalityType
<1>5. ASSUME Cardinality(m) > k PROVE FALSE
  <2>1. m # {}
    BY <1>4, <1>5, FS_EmptySet
  <2> DEFINE V == {Power[x] : x \in m}
  <2>2. V \in SUBSET Nat /\ V # {}
    BY <1>4, <2>1, FundsAssumption
  <2>3. PICK v \in V : \A u \in V : v <= u
    <3> HIDE DEF V
    <3> QED BY <2>2, LeastNat
  <2>4. PICK x \in m : v = Power[x]
    OBVIOUS
  <2>5. \A y \in m : Power[y] >= Power[x] /\ Power[y] \in Nat
    BY <1>4, <2>2, <2>3, <2>4
  <2> DEFINE n == m \ {x}
  <2>6. IsTop(n, P)
    BY <1>4, <2>5 DEF IsTop
  <2>7. Cardinality(n) = Cardinality(m) - 1
    BY <1>4, FS_RemoveElement
  <2>8. n \in T /\ n \subseteq m
    BY <1>4, <1>5, <2>6, <2>7
  <2> QED BY <1>3, <2>8
<1> QED BY <1>4, <1>5

(* So the signatory set exists, and it is a set of signers.                 *)
LEMMA SigsetType ==
    ASSUME RestOK
    PROVE  Sigset \in SUBSET Signers
<1> DEFINE P == validators \cap keys
           k == AtMost(Cardinality(P), MaxSignatories)
<1>1. P \in SUBSET Signers /\ IsFiniteSet(P) /\ Cardinality(P) \in Nat
  BY FundsAssumption, FS_Subset, FS_CardinalityType DEF RestOK
<1>2. k \in Nat /\ k <= Cardinality(P)
  BY <1>1, FundsAssumption DEF AtMost
<1>3. PICK S : IsTop(S, P) /\ Cardinality(S) = k
  <2> HIDE DEF k, P
  <2> QED BY <1>1, <1>2, TopExists
<1>4. S \in SUBSET Signers /\ IsSigset(S)
  BY <1>1, <1>3 DEF IsTop, IsSigset
<1> QED BY <1>4 DEF Sigset

(* The next fee rate is a natural.                                          *)
LEMMA NextFeeRateType ==
    ASSUME NEW r, NEW rate \in Nat, NumUnconfirmed(r) >= 0, NumUnconfirmed(r) \in Int
    PROVE  NextFeeRate(r, rate) \in Nat
<1>2. ASSUME NEW a \in Int, NEW b \in Int
      PROVE  Max({a, b}) \in Int /\ Min({a, b}) \in Int
  <2>1. \E x \in {a, b} : \A y \in {a, b} : x >= y
    <3>1. CASE a >= b
      BY <3>1
    <3>2. CASE ~(a >= b)
      BY <3>2
    <3> QED BY <3>1, <3>2
  <2>2. \E x \in {a, b} : \A y \in {a, b} : x <= y
    <3>1. CASE a <= b
      BY <3>1
    <3>2. CASE ~(a <= b)
      BY <3>2
    <3> QED BY <3>1, <3>2
  <2>3. Max({a, b}) \in {a, b} /\ Min({a, b}) \in {a, b}
    BY <2>1, <2>2 DEF Max, Min
  <2> QED BY <2>3
<1>3. ASSUME NEW x \in Int PROVE Clamp(x, MinFeeRate, MaxFeeRate) \in Nat
  BY LimitsAssumption DEF Clamp
<1>4. AdjustFeeRate(rate, TRUE) \in Nat
  <2>1. (rate * 5) \div 4 \in Int /\ rate + 1 \in Int
    OBVIOUS
  <2>2. PICK a \in Int, b \in Int : a = (rate * 5) \div 4 /\ b = rate + 1
    BY <2>1
  <2>3. AdjustFeeRate(rate, TRUE) = Clamp(Max({a, b}), MinFeeRate, MaxFeeRate)
    BY <2>2, Zenon DEF AdjustFeeRate
  <2> QED BY <1>2, <1>3, <2>3
<1>5. AdjustFeeRate(rate, FALSE) \in Nat
  <2>1. (rate * 3) \div 4 \in Int /\ rate - 1 \in Int
    OBVIOUS
  <2>2. PICK a \in Int, b \in Int : a = (rate * 3) \div 4 /\ b = rate - 1
    BY <2>1
  <2>3. AdjustFeeRate(rate, FALSE) = Clamp(Min({a, b}), MinFeeRate, MaxFeeRate)
    BY <2>2, Zenon DEF AdjustFeeRate
  <2> QED BY <1>2, <1>3, <2>3
<1>6. CASE NumUnconfirmed(r) > 0
  <2>1. ~(NumUnconfirmed(r) = 0)
    BY <1>6
  <2>2. NextFeeRate(r, rate) = AdjustFeeRate(rate, TRUE) \/ NextFeeRate(r, rate) = rate
    BY <1>6, <2>1, Zenon DEF NextFeeRate
  <2> QED BY <1>4, <2>2
<1>7. CASE NumUnconfirmed(r) = 0
  <2>1. ~(NumUnconfirmed(r) > 0)
    BY <1>7
  <2>2. NextFeeRate(r, rate) = AdjustFeeRate(rate, FALSE) \/ NextFeeRate(r, rate) = rate
    BY <1>7, <2>1, Zenon DEF NextFeeRate
  <2> QED BY <1>5, <2>2
<1> QED BY <1>6, <1>7

-----------------------------------------------------------------------------
(* The transactions of a queue, of which the deposits proc were relayed and *)
(* the withdrawals req requested.                                           *)

Ins(q, i)  == q.cps[i].inputs
Outs(q, i) == q.cps[i].outputs

(* ReserveChain *)
Chained(q) ==
    \A i \in Retained(q) : i - 1 \in Retained(q) =>
        /\ Len(Ins(q, i)) >= 1
        /\ Ins(q, i)[1].prevout = ReserveOutpoint(i - 1)
        /\ Ins(q, i)[1].amount = Outs(q, i - 1)[1].value
        /\ Ins(q, i)[1].signatories = q.cps[i - 1].signatories
        /\ Outs(q, i - 1)[1].to = <<"reserve">>

(* FeeRatePaid *)
FeesRight(q) ==
    \A i \in Retained(q) :
        q.cps[i].status # "Building" =>
            MinerFees(q.cps[i]) >= q.cps[i].feeRate * FrozenVsize(q.cps[i])

(* An input spends the reserve of the checkpoint before, or a deposit.      *)
SpendsReserve(q, i, k) == k = 1 /\ i > 0 /\ Ins(q, i)[k].prevout = ReserveOutpoint(i - 1)
SpendsDeposit(q, i, k, proc) == \E d \in proc : Ins(q, i)[k].prevout = DepositOutpoint(d)

Sourced(q, proc) ==
    \A i \in Retained(q) : \A k \in 1 .. Len(Ins(q, i)) :
        SpendsReserve(q, i, k) \/ SpendsDeposit(q, i, k, proc)

(* No two inputs spend the same output.                                     *)
SpentOnce(q) ==
    \A i, j \in Retained(q) : \A k \in 1 .. Len(Ins(q, i)), l \in 1 .. Len(Ins(q, j)) :
        Ins(q, i)[k].prevout = Ins(q, j)[l].prevout => i = j /\ k = l

(* The outputs other than the first two of a frozen checkpoint pay          *)
(* withdrawals.                                                             *)
IsExtra(q, i, k) == i < q.index /\ k <= 2

PaysExtra(q, i, k) ==
    IsExtra(q, i, k) /\ Outs(q, i)[k].to = (IF k = 1 THEN <<"reserve">> ELSE <<"timestamp">>)
PaysWithdrawal(q, i, k, req) ==
    ~IsExtra(q, i, k) /\ \E w \in req : Outs(q, i)[k].to = <<"withdrawal", w>>

Destined(q, req) ==
    \A i \in Retained(q) : \A k \in 1 .. Len(Outs(q, i)) :
        PaysExtra(q, i, k) \/ PaysWithdrawal(q, i, k, req)

(* No two outputs pay the same withdrawal.                                  *)
PaidOnce(q) ==
    \A i, j \in Retained(q) : \A k \in 1 .. Len(Outs(q, i)), l \in 1 .. Len(Outs(q, j)) :
        ~IsExtra(q, i, k) /\ Outs(q, i)[k].to = Outs(q, j)[l].to => i = j /\ k = l

(* A frozen transaction has the two additional outputs.                     *)
HasExtras(q) == \A i \in Retained(q) : i < q.index => Len(Outs(q, i)) >= 2

Ledger(q, proc, req) ==
    /\ Chained(q) /\ FeesRight(q) /\ HasExtras(q)
    /\ Sourced(q, proc) /\ SpentOnce(q)
    /\ Destined(q, req) /\ PaidOnce(q)

(* A change of the queue that leaves the transactions alone.                *)
SameTx(new, old) ==
    /\ new.inputs = old.inputs /\ new.outputs = old.outputs
    /\ new.signatories = old.signatories /\ new.feeRate = old.feeRate
    /\ new.status = "Building" <=> old.status = "Building"

SameTxs(t, q) ==
    /\ t.index = q.index /\ Retained(t) = Retained(q)
    /\ \A i \in Retained(q) : SameTx(t.cps[i], q.cps[i])

(* Such a change keeps the ledger right, also when more deposits are known. *)
LEMMA SameLedger ==
    ASSUME NEW q, NEW t, NEW proc, NEW req, Ledger(q, proc, req), SameTxs(t, q),
           NEW proc2, proc \subseteq proc2
    PROVE  Ledger(t, proc2, req)
<1>1. /\ t.index = q.index /\ Retained(t) = Retained(q)
      /\ \A i \in Retained(q) : Ins(t, i) = Ins(q, i) /\ Outs(t, i) = Outs(q, i)
      /\ \A i \in Retained(q) : t.cps[i].signatories = q.cps[i].signatories
      /\ \A i \in Retained(q) : t.cps[i].feeRate = q.cps[i].feeRate
      /\ \A i \in Retained(q) : t.cps[i].status = "Building" <=> q.cps[i].status = "Building"
  BY DEF SameTxs, SameTx, Ins, Outs
<1>2. Chained(t) /\ HasExtras(t)
  BY <1>1 DEF Ledger, Chained, HasExtras
<1>3. FeesRight(t)
  BY <1>1 DEF Ledger, FeesRight, MinerFees, FrozenVsize, Ins, Outs
<1>4. Sourced(t, proc2) /\ SpentOnce(t)
  BY <1>1 DEF Ledger, Sourced, SpentOnce, SpendsReserve, SpendsDeposit
<1>5. Destined(t, req) /\ PaidOnce(t)
  BY <1>1 DEF Ledger, Destined, PaidOnce, PaysExtra, PaysWithdrawal, IsExtra
<1> QED BY <1>2, <1>3, <1>4, <1>5 DEF Ledger

(* A change of the checkpoint being built, cp, and of no other.             *)
Rebuilt(t, q, cp) ==
    /\ t.index = q.index /\ Retained(t) = Retained(q)
    /\ q.index \in Nat /\ Retained(q) = 0 .. q.index
    /\ q.cps[q.index].status = "Building"
    /\ t.cps[q.index] = cp
    /\ \A j \in Retained(q) : j # q.index => t.cps[j] = q.cps[j]
    /\ cp.status = "Building"

(* relay_deposit: the deposit is spent by the last input.                   *)
LEMMA DepositLedger ==
    ASSUME NEW q, NEW t, NEW proc, NEW req, Ledger(q, proc, req), TxsOK(q),
           NEW cp, Rebuilt(t, q, cp),
           NEW x \in Input, NEW d, d \notin proc, x.prevout = DepositOutpoint(d),
           cp.inputs = Append(q.cps[q.index].inputs, x),
           cp.outputs = q.cps[q.index].outputs
    PROVE  Ledger(t, proc \cup {d}, req)
<1> DEFINE n == q.index
           old == Ins(q, n)
           new == Ins(t, n)
<1>1. /\ t.index = n /\ Retained(t) = Retained(q)
      /\ n \in Nat /\ Retained(q) = 0 .. n
      /\ \A j \in Retained(q) : j # n => t.cps[j] = q.cps[j]
      /\ \A j \in Retained(q) : j # n => Ins(t, j) = Ins(q, j)
      /\ \A j \in Retained(q) : Outs(t, j) = Outs(q, j)
      /\ n \in Retained(q) /\ t.cps[n].status = "Building"
  BY DEF Rebuilt, Ins, Outs
<1>2. old \in Seq(Input) /\ new = Append(old, x)
  BY <1>1 DEF TxsOK, TxOK, Ins, Rebuilt
<1>3. /\ new \in Seq(Input) /\ Len(new) = Len(old) + 1 /\ Len(old) \in Nat
      /\ \A k \in 1 .. Len(old) : new[k] = old[k]
      /\ new[Len(old) + 1] = x
  BY <1>2, AppendProperties
<1> HIDE DEF n, old, new
<1>4. Chained(t)
  <2> SUFFICES ASSUME NEW i \in Retained(q), i - 1 \in Retained(q)
               PROVE  /\ Len(Ins(t, i)) >= 1
                      /\ Ins(t, i)[1].prevout = ReserveOutpoint(i - 1)
                      /\ Ins(t, i)[1].amount = Outs(t, i - 1)[1].value
                      /\ Ins(t, i)[1].signatories = t.cps[i - 1].signatories
                      /\ Outs(t, i - 1)[1].to = <<"reserve">>
    BY <1>1 DEF Chained
  <2>1. /\ Len(Ins(q, i)) >= 1
        /\ Ins(q, i)[1].prevout = ReserveOutpoint(i - 1)
        /\ Ins(q, i)[1].amount = Outs(q, i - 1)[1].value
        /\ Ins(q, i)[1].signatories = q.cps[i - 1].signatories
        /\ Outs(q, i - 1)[1].to = <<"reserve">>
    BY DEF Ledger, Chained
  <2>2. i - 1 # n /\ t.cps[i - 1] = q.cps[i - 1] /\ Outs(t, i - 1) = Outs(q, i - 1)
    BY <1>1
  <2>3. CASE i # n
    BY <1>1, <2>1, <2>2, <2>3
  <2>4. CASE i = n
    <3>1. Ins(q, i) = old /\ Ins(t, i) = new
      BY <2>4 DEF old, new
    <3>2. Len(new) >= 1 /\ new[1] = old[1]
      BY <1>3, <2>1, <3>1
    <3> QED BY <2>1, <2>2, <3>1, <3>2
  <2> QED BY <2>3, <2>4
<1>5. FeesRight(t) /\ HasExtras(t)
  <2>1. \A i \in Retained(q) : t.cps[i].status # "Building" => t.cps[i] = q.cps[i]
    BY <1>1
  <2>2. FeesRight(t)
    BY <1>1, <2>1 DEF Ledger, FeesRight
  <2>3. HasExtras(t)
    BY <1>1 DEF Ledger, HasExtras, n
  <2> QED BY <2>2, <2>3
<1>6. Sourced(t, proc \cup {d})
  <2> SUFFICES ASSUME NEW i \in Retained(q), NEW k \in 1 .. Len(Ins(t, i))
               PROVE  SpendsReserve(t, i, k) \/ SpendsDeposit(t, i, k, proc \cup {d})
    BY <1>1 DEF Sourced
  <2>1. CASE i # n
    BY <1>1, <2>1 DEF Ledger, Sourced, SpendsReserve, SpendsDeposit
  <2>2. CASE i = n /\ k \in 1 .. Len(old)
    <3>1. Ins(q, i) = old /\ Ins(t, i) = new /\ new[k] = old[k]
      BY <1>3, <2>2 DEF old, new
    <3> QED BY <2>2, <3>1 DEF Ledger, Sourced, SpendsReserve, SpendsDeposit
  <2>3. CASE i = n /\ k = Len(old) + 1
    BY <1>3, <2>3 DEF new, SpendsDeposit
  <2>4. i = n => k \in 1 .. Len(old) \/ k = Len(old) + 1
    BY <1>3 DEF new
  <2> QED BY <2>1, <2>2, <2>3, <2>4
<1>7. SpentOnce(t)
  <2>1. \A i \in Retained(q) : \A k \in 1 .. Len(Ins(t, i)) :
            \/ k \in 1 .. Len(Ins(q, i)) /\ Ins(t, i)[k].prevout = Ins(q, i)[k].prevout
            \/ i = n /\ k = Len(old) + 1 /\ Ins(t, i)[k].prevout = DepositOutpoint(d)
    <3> TAKE i \in Retained(q)
    <3> TAKE k \in 1 .. Len(Ins(t, i))
    <3>1. CASE i # n
      BY <1>1, <3>1
    <3>2. CASE i = n
      <4>1. Ins(q, i) = old /\ Ins(t, i) = new
        BY <3>2 DEF old, new
      <4> QED BY <1>3, <3>2, <4>1
    <3> QED BY <3>1, <3>2
  <2>2. \A i \in Retained(q) : \A k \in 1 .. Len(Ins(q, i)) :
            Ins(q, i)[k].prevout # DepositOutpoint(d)
    <3> TAKE i \in Retained(q)
    <3> TAKE k \in 1 .. Len(Ins(q, i))
    <3>1. SpendsReserve(q, i, k) \/ SpendsDeposit(q, i, k, proc)
      BY DEF Ledger, Sourced
    <3> QED BY <3>1 DEF SpendsReserve, SpendsDeposit, ReserveOutpoint, DepositOutpoint
  <2> SUFFICES ASSUME NEW i \in Retained(q), NEW j \in Retained(q),
                      NEW k \in 1 .. Len(Ins(t, i)), NEW l \in 1 .. Len(Ins(t, j)),
                      Ins(t, i)[k].prevout = Ins(t, j)[l].prevout
               PROVE  i = j /\ k = l
    BY <1>1 DEF SpentOnce
  <2>3. \/ k \in 1 .. Len(Ins(q, i)) /\ Ins(t, i)[k].prevout = Ins(q, i)[k].prevout
        \/ i = n /\ k = Len(old) + 1 /\ Ins(t, i)[k].prevout = DepositOutpoint(d)
    BY <2>1
  <2>4. \/ l \in 1 .. Len(Ins(q, j)) /\ Ins(t, j)[l].prevout = Ins(q, j)[l].prevout
        \/ j = n /\ l = Len(old) + 1 /\ Ins(t, j)[l].prevout = DepositOutpoint(d)
    BY <2>1
  <2>5. CASE k \in 1 .. Len(Ins(q, i)) /\ l \in 1 .. Len(Ins(q, j))
    <3>1. Ins(q, i)[k].prevout # DepositOutpoint(d) /\ Ins(q, j)[l].prevout # DepositOutpoint(d)
      BY <2>2, <2>5
    <3>2. Ins(q, i)[k].prevout = Ins(q, j)[l].prevout \/ (i = j /\ k = l)
      BY <2>3, <2>4, <3>1
    <3> QED BY <2>5, <3>2 DEF Ledger, SpentOnce
  <2> QED BY <2>2, <2>3, <2>4, <2>5
<1>8. Destined(t, req) /\ PaidOnce(t)
  <2>1. \A i, k : IsExtra(t, i, k) <=> IsExtra(q, i, k)
    BY <1>1 DEF IsExtra, n
  <2>2. Destined(t, req)
    BY <1>1, <2>1 DEF Ledger, Destined, PaysExtra, PaysWithdrawal
  <2>3. PaidOnce(t)
    BY <1>1, <2>1 DEF Ledger, PaidOnce
  <2> QED BY <2>2, <2>3
<1> QED BY <1>4, <1>5, <1>6, <1>7, <1>8 DEF Ledger

(* withdraw_to_bitcoin: the withdrawal is paid by the last output.          *)
LEMMA WithdrawLedger ==
    ASSUME NEW q, NEW t, NEW proc, NEW req, Ledger(q, proc, req), TxsOK(q),
           NEW cp, Rebuilt(t, q, cp),
           NEW x \in Output, NEW w, w \notin req, x.to = <<"withdrawal", w>>,
           cp.outputs = Append(q.cps[q.index].outputs, x),
           cp.inputs = q.cps[q.index].inputs
    PROVE  Ledger(t, proc, req \cup {w})
<1> DEFINE n == q.index
           old == Outs(q, n)
           new == Outs(t, n)
<1>1. /\ t.index = n /\ Retained(t) = Retained(q)
      /\ n \in Nat /\ Retained(q) = 0 .. n
      /\ \A j \in Retained(q) : j # n => t.cps[j] = q.cps[j]
      /\ \A j \in Retained(q) : j # n => Outs(t, j) = Outs(q, j)
      /\ \A j \in Retained(q) : Ins(t, j) = Ins(q, j)
      /\ n \in Retained(q) /\ t.cps[n].status = "Building"
  BY DEF Rebuilt, Ins, Outs
<1>2. old \in Seq(Output) /\ new = Append(old, x)
  BY <1>1 DEF TxsOK, TxOK, Outs, Rebuilt
<1>3. /\ new \in Seq(Output) /\ Len(new) = Len(old) + 1 /\ Len(old) \in Nat
      /\ \A k \in 1 .. Len(old) : new[k] = old[k]
      /\ new[Len(old) + 1] = x
  BY <1>2, AppendProperties
<1>9. \A i, k : IsExtra(t, i, k) <=> IsExtra(q, i, k)
  BY <1>1 DEF IsExtra
<1>10. \A k : ~IsExtra(q, n, k)
  BY <1>1 DEF IsExtra
<1> HIDE DEF n, old, new
<1>4. Chained(t)
  <2> SUFFICES ASSUME NEW i \in Retained(q), i - 1 \in Retained(q)
               PROVE  /\ Len(Ins(t, i)) >= 1
                      /\ Ins(t, i)[1].prevout = ReserveOutpoint(i - 1)
                      /\ Ins(t, i)[1].amount = Outs(t, i - 1)[1].value
                      /\ Ins(t, i)[1].signatories = t.cps[i - 1].signatories
                      /\ Outs(t, i - 1)[1].to = <<"reserve">>
    BY <1>1 DEF Chained
  <2>1. /\ Len(Ins(q, i)) >= 1
        /\ Ins(q, i)[1].prevout = ReserveOutpoint(i - 1)
        /\ Ins(q, i)[1].amount = Outs(q, i - 1)[1].value
        /\ Ins(q, i)[1].signatories = q.cps[i - 1].signatories
        /\ Outs(q, i - 1)[1].to = <<"reserve">>
    BY DEF Ledger, Chained
  <2>2. i - 1 # n /\ t.cps[i - 1] = q.cps[i - 1] /\ Outs(t, i - 1) = Outs(q, i - 1)
    BY <1>1
  <2> QED BY <1>1, <2>1, <2>2
<1>5. FeesRight(t) /\ HasExtras(t)
  <2>1. \A i \in Retained(q) : t.cps[i].status # "Building" => t.cps[i] = q.cps[i]
    BY <1>1
  <2>2. FeesRight(t)
    BY <1>1, <2>1 DEF Ledger, FeesRight
  <2>3. \A i \in Retained(q) : i < n => Outs(t, i) = Outs(q, i)
    BY <1>1
  <2>4. HasExtras(t)
    BY <1>1, <2>3 DEF Ledger, HasExtras, n
  <2> QED BY <2>2, <2>4
<1>6. Sourced(t, proc) /\ SpentOnce(t)
  <2>1. \A j \in Retained(q) : \A k :
            /\ SpendsReserve(t, j, k) <=> SpendsReserve(q, j, k)
            /\ SpendsDeposit(t, j, k, proc) <=> SpendsDeposit(q, j, k, proc)
    BY <1>1 DEF SpendsReserve, SpendsDeposit
  <2>2. Retained(t) = Retained(q) /\ \A j \in Retained(q) : Ins(t, j) = Ins(q, j)
    BY <1>1
  <2>3. Sourced(t, proc)
    BY <2>1, <2>2 DEF Ledger, Sourced
  <2>4. SpentOnce(t)
    BY <2>2 DEF Ledger, SpentOnce
  <2> QED BY <2>3, <2>4
<1>7. \A i \in Retained(q) : \A k \in 1 .. Len(Outs(t, i)) :
            \/ k \in 1 .. Len(Outs(q, i)) /\ Outs(t, i)[k] = Outs(q, i)[k]
            \/ i = n /\ k = Len(old) + 1 /\ Outs(t, i)[k].to = <<"withdrawal", w>>
  <2> TAKE i \in Retained(q)
  <2> TAKE k \in 1 .. Len(Outs(t, i))
  <2>1. CASE i # n
    BY <1>1, <2>1
  <2>2. CASE i = n
    <3>1. Outs(q, i) = old /\ Outs(t, i) = new
      BY <2>2 DEF old, new
    <3> QED BY <1>3, <2>2, <3>1
  <2> QED BY <2>1, <2>2
<1>8. Destined(t, req \cup {w})
  <2> SUFFICES ASSUME NEW i \in Retained(q), NEW k \in 1 .. Len(Outs(t, i))
               PROVE  PaysExtra(t, i, k) \/ PaysWithdrawal(t, i, k, req \cup {w})
    BY <1>1 DEF Destined
  <2>1. CASE k \in 1 .. Len(Outs(q, i)) /\ Outs(t, i)[k] = Outs(q, i)[k]
    <3>1. PaysExtra(q, i, k) \/ PaysWithdrawal(q, i, k, req)
      BY <2>1 DEF Ledger, Destined
    <3> QED BY <1>9, <2>1, <3>1 DEF PaysExtra, PaysWithdrawal
  <2>2. CASE i = n /\ k = Len(old) + 1 /\ Outs(t, i)[k].to = <<"withdrawal", w>>
    BY <1>9, <1>10, <2>2 DEF PaysWithdrawal
  <2> QED BY <1>7, <2>1, <2>2
<1>11. PaidOnce(t)
  <2>1. \A i \in Retained(q) : \A k \in 1 .. Len(Outs(q, i)) :
            Outs(q, i)[k].to # <<"withdrawal", w>>
    <3> TAKE i \in Retained(q)
    <3> TAKE k \in 1 .. Len(Outs(q, i))
    <3>1. PaysExtra(q, i, k) \/ PaysWithdrawal(q, i, k, req)
      BY DEF Ledger, Destined
    <3>2. <<"reserve">> # <<"withdrawal", w>> /\ <<"timestamp">> # <<"withdrawal", w>>
      OBVIOUS
    <3> QED BY <3>1, <3>2 DEF PaysExtra, PaysWithdrawal
  <2> SUFFICES ASSUME NEW i \in Retained(q), NEW j \in Retained(q),
                      NEW k \in 1 .. Len(Outs(t, i)), NEW l \in 1 .. Len(Outs(t, j)),
                      ~IsExtra(q, i, k), Outs(t, i)[k].to = Outs(t, j)[l].to
               PROVE  i = j /\ k = l
    BY <1>1, <1>9 DEF PaidOnce
  <2>3. \/ k \in 1 .. Len(Outs(q, i)) /\ Outs(t, i)[k] = Outs(q, i)[k]
        \/ i = n /\ k = Len(old) + 1 /\ Outs(t, i)[k].to = <<"withdrawal", w>>
    BY <1>7
  <2>4. \/ l \in 1 .. Len(Outs(q, j)) /\ Outs(t, j)[l] = Outs(q, j)[l]
        \/ j = n /\ l = Len(old) + 1 /\ Outs(t, j)[l].to = <<"withdrawal", w>>
    BY <1>7
  <2>5. CASE k \in 1 .. Len(Outs(q, i)) /\ l \in 1 .. Len(Outs(q, j))
    <3>1. Outs(q, i)[k].to # <<"withdrawal", w>> /\ Outs(q, j)[l].to # <<"withdrawal", w>>
      BY <2>1, <2>5
    <3>2. Outs(q, i)[k].to = Outs(q, j)[l].to \/ (i = j /\ k = l)
      BY <2>3, <2>4, <3>1
    <3> QED BY <2>5, <3>2 DEF Ledger, PaidOnce
  <2> QED BY <2>1, <2>3, <2>4, <2>5
<1> QED BY <1>4, <1>5, <1>6, <1>8, <1>11 DEF Ledger

-----------------------------------------------------------------------------
(* maybe_push and maybe_step, when prune removes nothing.                   *)

(* The queue q is pushed to t, and the checkpoint frozen pays fee.          *)
PushedFunds(t, q, fee) ==
    LET n    == t.index
        prev == q.cps[n - 1]
        new  == t.cps[n]
    IN  /\ n \in Nat /\ Retained(t) = 0 .. n /\ Retained(q) = 0 .. (n - 1)
        /\ n > 0 => q.index = n - 1
        /\ \A j \in 0 .. (n - 2) : t.cps[j] = q.cps[j]
        /\ TxOK(new) /\ new.status = "Building" /\ new.pending = {}
        /\ new.createTime = now
        /\ n = 0 => fee = 0 /\ new.inputs = <<>> /\ new.outputs = <<>>
        /\ n > 0 =>
            /\ fee \in Nat
            /\ TxOK(prev)
            /\ AdvancedOK(prev, fee, t.cps[n - 1])
            /\ fee >= t.cps[n - 1].feeRate * FrozenVsize(t.cps[n - 1])
            /\ ReserveValue(prev, fee) \in Nat
            /\ new.inputs = <<NewInput(ReserveOutpoint(n - 1), prev.signatories,
                                       ReserveValue(prev, fee))>> \o ExcessInputs(prev)
            /\ new.outputs = ExcessOutputs(prev)

(* The fee of a checkpoint being built covers its frozen size.              *)
LEMMA FrozenFee ==
    ASSUME NEW cp, TxOK(cp), cp.status = "Building", NEW fee \in Nat, fee >= BaseFee(cp),
           NEW a, AdvancedOK(cp, fee, a)
    PROVE  fee >= a.feeRate * FrozenVsize(a)
<1> DEFINE I == Kept(cp.inputs, MaxInputs)
           w == WitnessesVsize(I)
<1>1. cp.inputs \in Seq(Input) /\ MaxInputs \in Nat
  BY LimitsAssumption DEF TxOK
<1>2. I \in Seq(Input) /\ Len(I) = AtMost(Len(cp.inputs), MaxInputs)
  BY <1>1, CutParts
<1>3. w \in Nat
  BY <1>2, VsizeType
<1>4. FrozenInputs(cp) = I
  BY DEF FrozenInputs
<1>5. FrozenVsize(a) = TxVsize + InVsize * Len(I)
        + OutVsize * AtMost(Len(cp.outputs) + 2, MaxOutputs) + w
  BY <1>2, <1>4 DEF AdvancedOK
<1>6. EstVsize(cp) = TxVsize + InVsize * Len(I)
        + OutVsize * AtMost(Len(cp.outputs) + 2, MaxOutputs)
        + (IF cp.status = "Complete" THEN 2 ELSE 1) * w
  BY DEF EstVsize
<1> HIDE DEF w, I
<1>7. (IF cp.status = "Complete" THEN 2 ELSE 1) * w = w
  BY <1>3
<1>8. FrozenVsize(a) = EstVsize(cp)
  BY <1>5, <1>6, <1>7, Zenon
<1>9. a.feeRate = cp.feeRate /\ cp.feeRate \in Nat /\ EstVsize(cp) \in Nat
  BY EstVsizeType DEF AdvancedOK, TxOK
<1>10. EstVsize(cp) * cp.feeRate = cp.feeRate * EstVsize(cp)
  BY <1>9
<1> QED BY <1>8, <1>9, <1>10 DEF BaseFee

(* A new checkpoint's transaction is empty.                                 *)
LEMMA NewestTx ==
    ASSUME RestOK, NEW b
    PROVE  /\ TxOK(Newest(b)) /\ DOMAIN Newest(b) = CheckpointFields
           /\ Newest(b).inputs = <<>> /\ Newest(b).outputs = <<>>
           /\ Newest(b).status = "Building" /\ Newest(b).pending = {}
           /\ Newest(b).createTime = now
<1>1. /\ Newest(b).inputs = <<>> /\ Newest(b).outputs = <<>>
      /\ Newest(b).signatories = Sigset /\ Newest(b).feeRate = DefaultFeeRate
      /\ Newest(b).feesCollected = 0
      /\ Newest(b).status = "Building" /\ Newest(b).pending = {}
      /\ Newest(b).createTime = now
      /\ DOMAIN Newest(b) = CheckpointFields
  BY DEF Newest, NewCheckpoint, CheckpointFields
<1>2. Sigset \in SUBSET Signers /\ DefaultFeeRate \in Nat /\ IsFiniteSet({})
  BY SigsetType, FundsAssumption, FS_EmptySet
<1>3. <<>> \in Seq(Input) /\ <<>> \in Seq(Output)
  OBVIOUS
<1> QED BY <1>1, <1>2, <1>3 DEF TxOK

(* The parts of the step: the first input spends the reserve.               *)
LEMMA NextInputsType ==
    ASSUME NEW prev, TxOK(prev), NEW i \in Nat, NEW v \in Nat
    PROVE  NewInput(ReserveOutpoint(i), prev.signatories, v) \in Input
  BY DEF NewInput, Input, Outpoint, TxOK

(* Stepped after PrunedFrom after Pushed is such a push.                    *)
LEMMA PushFunds ==
    ASSUME RestOK, NEW q, QueueOK(q, now), TxsOK(q), Shape(q), q.len > 0 => Start(q) = 0,
           NEW b \in BOOLEAN, NEW p, p = Pushed(q, b), NEW r, r = PrunedFrom(p, 0),
           StepSucceeds(r), NEW t, t = Stepped(r)
    PROVE  PushedFunds(t, q, FeesPaid(r))
<1> DEFINE n == p.index
<1>1. /\ n \in Nat
      /\ n > 0 => n - 1 = q.index /\ q.len > 0
      /\ Start(p) = 0 /\ Retained(q) = 0 .. (n - 1)
      /\ \A j \in Retained(q) : p.cps[j] = q.cps[j]
      /\ p.cps[n] = Newest(b)
  BY PushedFields
<1>2. QueueOK(p, now) /\ p.len = q.len + 1
  BY PushedType
<1>3. 0 \in Retained(p)
  BY <1>1 DEF Retained
<1>4. QueueOK(r, now) /\ r.index = n /\ Start(r) = 0 /\ Retained(r) = 0 .. n
  BY <1>2, <1>3, PrunedType
<1>5. \A j \in 0 .. n : r.cps[j] = p.cps[j]
  BY DEF PrunedFrom
<1>6. /\ TxOK(Newest(b)) /\ DOMAIN Newest(b) = CheckpointFields
      /\ Newest(b).inputs = <<>> /\ Newest(b).outputs = <<>>
      /\ Newest(b).status = "Building" /\ Newest(b).pending = {}
      /\ Newest(b).createTime = now
  BY NewestTx
<1> HIDE DEF n
<1>7. r.cps[n] = Newest(b) /\ \A j \in 0 .. (n - 1) : r.cps[j] = q.cps[j]
  BY <1>1, <1>5
<1>8. TxsOK(r)
  <2>1. \A j \in 0 .. (n - 1) : TxOK(r.cps[j])
    BY <1>1, <1>7 DEF TxsOK
  <2>2. TxOK(r.cps[n])
    BY <1>6, <1>7
  <2> QED BY <1>1, <1>4, <2>1, <2>2 DEF TxsOK
<1>9. CASE n = 0
  <2>1. t = r /\ FeesPaid(r) = 0
    BY <1>4, <1>9 DEF Stepped, FeesPaid
  <2>2. t.index = 0 /\ t.cps[0] = Newest(b)
    BY <1>4, <1>7, <1>9, <2>1
  <2>3. ~(0 > 0) /\ 0 .. (0 - 2) = {}
    OBVIOUS
  <2> QED BY <1>1, <1>4, <1>6, <1>9, <2>1, <2>2, <2>3 DEF PushedFunds
<1>10. CASE n > 0
  <2> DEFINE prev == q.cps[n - 1]
             fee  == StepFee(r)
             s    == WithSigning(r)
             rate == NextFeeRate(s, prev.feeRate)
             res  == NewInput(ReserveOutpoint(n - 1), prev.signatories,
                              ReserveValue(prev, fee))
             new  == t.cps[n]
  <2>1. n - 1 \in 0 .. (n - 1) /\ n - 1 \in 0 .. n /\ n - 1 \in Nat /\ r.index > 0
    BY <1>1, <1>4, <1>10
  <2>2. r.cps[n - 1] = prev /\ Prev(r) = prev
    BY <1>4, <1>7, <2>1 DEF Prev
  <2>3. /\ UnconfirmedReadable(r) /\ ReserveValue(prev, fee) >= 0
        /\ UnconfirmedReadable(s)
    BY <2>1, <2>2 DEF StepSucceeds
  <2>4. TxOK(prev) /\ CheckpointOK(prev, now) /\ prev.status = "Building"
    <3>1. n - 1 \in Retained(q) /\ n - 1 = q.index
      BY <1>1, <1>10, <2>1
    <3> QED BY <3>1 DEF TxsOK, QueueOK, Shape
  <2>5. fee \in Nat /\ fee >= BaseFee(prev)
    <3>1. n - 1 \in Retained(r)
      BY <1>4, <2>1
    <3>2. CalcFee(r, n - 1) \in Nat /\ CalcFee(r, n - 1) >= BaseFee(r.cps[n - 1])
      BY <1>4, <1>8, <2>3, <3>1, CalcFeeType
    <3> QED BY <1>4, <2>2, <3>2 DEF StepFee
  <2>6. FeesPaid(r) = fee
    BY <2>1 DEF FeesPaid
  <2>7. /\ t.index = n /\ t.len = r.len
        /\ SteppedOn(t, r)
    BY <1>4, <2>1, SteppedFields
  <2>8. /\ \A j \in 0 .. (n - 2) : t.cps[j] = r.cps[j]
        /\ t.cps[n - 1] = Advanced(prev, fee)
        /\ new = Succeeding(Newest(b), prev, r)
    <3>1. r.index = n /\ r.cps[n] = Newest(b) /\ r.cps[n - 1] = prev
      BY <1>4, <1>7, <2>2
    <3> HIDE DEF prev
    <3>2. \A j \in 0 .. (n - 2) : t.cps[j] = r.cps[j]
      BY <2>7, <3>1 DEF SteppedOn
    <3>3. t.cps[n - 1] = Advanced(prev, fee)
      BY <2>7, <3>1, Zenon DEF SteppedOn
    <3>4. new = Succeeding(Newest(b), prev, r)
      BY <2>7, <3>1, Zenon DEF SteppedOn
    <3> QED BY <3>2, <3>3, <3>4
  <2>9. NextInputs(r) = <<res>> \o ExcessInputs(prev)
    BY <1>4, <2>2 DEF NextInputs, ReserveInput
  <2>10. Retained(t) = 0 .. n
    BY <1>4, <2>7 DEF Retained, Start
  <2>11. s.index = n /\ s.len = r.len
    BY <1>4, SetLength DEF WithSigning
  <2>12. NumUnconfirmed(s) \in Int /\ NumUnconfirmed(s) >= 0
    <3>1. n \in Nat /\ r.len \in Int
      BY <1>1, <1>4 DEF QueueOK
    <3>2. NumUnconfirmed(s) \in Int
      BY <2>11, <3>1 DEF RestOK, NumUnconfirmed, LastCompleted, SigningOffset, HasCompleted
    <3> QED BY <2>3, <3>2 DEF UnconfirmedReadable
  <2> HIDE DEF prev, fee, s, new
  <2>13. rate \in Nat
    BY <2>4, <2>12, NextFeeRateType DEF TxOK
  <2>14. AdvancedOK(prev, fee, Advanced(prev, fee))
    BY <2>3, <2>4, <2>5, AdvancedParts DEF CheckpointOK
  <2>15. fee >= t.cps[n - 1].feeRate * FrozenVsize(t.cps[n - 1])
    <3>1. AdvancedOK(prev, fee, t.cps[n - 1])
      BY <2>8, <2>14
    <3> QED BY <2>4, <2>5, <3>1, FrozenFee
  <2>16. ReserveValue(prev, fee) \in Nat
    <3>1. prev.inputs \in Seq(Input) /\ MaxInputs \in Nat /\ MaxOutputs \in Nat
      BY <2>4, LimitsAssumption DEF TxOK
    <3>2. FrozenInputs(prev) \in Seq(Input)
      BY <2>4, EstVsizeType
    <3>3. FrozenOutputs(prev) = Kept(Extended(prev), MaxOutputs)
      BY DEF FrozenOutputs, Extended
    <3>4. FrozenOutputs(prev) \in Seq(Output)
      BY <2>4, <3>1, <3>3, ExtendedParts, CutParts
    <3>5. TotalIn(FrozenInputs(prev)) \in Nat /\ TotalOut(FrozenOutputs(prev)) \in Nat
      BY <3>2, <3>4, TotalInType, TotalOutType
    <3> QED BY <2>3, <2>5, <3>5 DEF ReserveValue
  <2>17. res \in Input
    BY <2>1, <2>4, <2>16, NextInputsType
  <2> HIDE DEF res, rate
  <2>18. ExcessInputs(prev) \in Seq(Input) /\ ExcessOutputs(prev) \in Seq(Output)
    BY <2>14 DEF AdvancedOK
  <2>19. /\ new.inputs = <<>> \o NextInputs(r) /\ new.outputs = <<>> \o ExcessOutputs(prev)
         /\ new.feeRate = rate /\ new.status = "Building" /\ new.pending = {}
         /\ new.signatories = Newest(b).signatories
         /\ new.feesCollected = Newest(b).feesCollected /\ new.createTime = now
    BY <1>6, <2>8 DEF CheckpointFields, Succeeding, rate, s
  <2>20. <<res>> \o ExcessInputs(prev) \in Seq(Input)
    BY <2>17, <2>18, ConcatProperties
  <2>21. /\ new.inputs = <<res>> \o ExcessInputs(prev)
         /\ new.outputs = ExcessOutputs(prev)
    BY <2>9, <2>18, <2>19, <2>20, ConcatEmptySeq
  <2>22. TxOK(new)
    BY <1>6, <2>13, <2>18, <2>19, <2>20, <2>21 DEF TxOK
  <2>23. \A j \in 0 .. (n - 2) : t.cps[j] = q.cps[j]
    BY <1>1, <1>7, <2>8
  <2>24. n > 0 => q.index = n - 1
    BY <1>1
  <2>25. ~(n = 0)
    BY <1>10
  <2>26. PushedFunds(t, q, fee)
    <3>1. /\ n \in Nat /\ Retained(t) = 0 .. n /\ Retained(q) = 0 .. (n - 1)
          /\ TxOK(t.cps[n]) /\ t.cps[n].status = "Building" /\ t.cps[n].pending = {}
          /\ t.cps[n].createTime = now
      BY <1>1, <2>10, <2>19, <2>22 DEF new
    <3>2. AdvancedOK(q.cps[n - 1], fee, t.cps[n - 1]) /\ TxOK(q.cps[n - 1])
      BY <2>4, <2>8, <2>14 DEF prev
    <3>3. /\ t.cps[n].inputs = <<NewInput(ReserveOutpoint(n - 1), q.cps[n - 1].signatories,
                                    ReserveValue(q.cps[n - 1], fee))>> \o ExcessInputs(q.cps[n - 1])
          /\ t.cps[n].outputs = ExcessOutputs(q.cps[n - 1])
          /\ ReserveValue(q.cps[n - 1], fee) \in Nat
      BY <2>16, <2>21 DEF prev, new, res
    <3> QED BY <2>5, <2>7, <2>15, <2>23, <2>24, <2>25, <3>1, <3>2, <3>3 DEF PushedFunds
  <2> QED BY <2>6, <2>26
<1>11. n = 0 \/ n > 0
  BY <1>1
<1> QED BY <1>9, <1>10, <1>11

(* Where an input of the pushed queue comes from: input k of checkpoint i   *)
(* was input l of checkpoint j.  Checkpoint n is new; of the L inputs of    *)
(* the one before it M stay.                                                *)
InOrigin(n, M, L, i, k, j, l) ==
    \/ i <= n - 2 /\ j = i /\ l = k
    \/ i = n - 1 /\ j = n - 1 /\ l = k /\ k <= M
    \/ i = n /\ j = n - 1 /\ k >= 2 /\ l = L + 2 - k /\ l > M

(* The same of an output.  The new transaction has no reserve output yet,   *)
(* and the frozen one has two more than it had.                             *)
OutOrigin(n, M, L, i, k, j, l) ==
    \/ i <= n - 2 /\ j = i /\ l = k
    \/ i = n - 1 /\ j = n - 1 /\ k >= 3 /\ k <= M /\ l = k - 2
    \/ i = n /\ j = n - 1 /\ l = L + 1 - k /\ l > M - 2

(* Nothing is moved to two places.                                          *)
LEMMA OriginsDiffer ==
    ASSUME NEW n \in Nat, NEW M \in Nat, NEW L \in Nat,
           NEW i \in Int, NEW k \in Int, NEW i2 \in Int, NEW k2 \in Int,
           NEW j \in Int, NEW l \in Int
    PROVE  /\ InOrigin(n, M, L, i, k, j, l) /\ InOrigin(n, M, L, i2, k2, j, l)
                => i = i2 /\ k = k2
           /\ OutOrigin(n, M, L, i, k, j, l) /\ OutOrigin(n, M, L, i2, k2, j, l)
                => i = i2 /\ k = k2
<1>1. InOrigin(n, M, L, i, k, j, l) /\ InOrigin(n, M, L, i2, k2, j, l)
                => i = i2 /\ k = k2
  BY DEF InOrigin
<1>2. OutOrigin(n, M, L, i, k, j, l) /\ OutOrigin(n, M, L, i2, k2, j, l)
                => i = i2 /\ k = k2
  BY DEF OutOrigin
<1> QED BY <1>1, <1>2

InFrom(t, q, n, M, L, i, k) ==
    \E j \in Retained(q) : \E l \in 1 .. Len(Ins(q, j)) :
        /\ InOrigin(n, M, L, i, k, j, l)
        /\ Ins(t, i)[k] = Ins(q, j)[l]
        /\ j = n - 1 => l <= L

OutFrom(t, q, n, M, L, i, k) ==
    \E j \in Retained(q) : \E l \in 1 .. Len(Outs(q, j)) :
        /\ OutOrigin(n, M, L, i, k, j, l)
        /\ Outs(t, i)[k] = Outs(q, j)[l]

(* Every input after a push but the one that spends the new reserve, and    *)
(* every output but the two additional ones, was there before.              *)
InMoved(t, q, n, M, L) ==
    /\ n \in Nat /\ M \in Nat /\ L \in Nat
    /\ Retained(t) = 0 .. n /\ Retained(q) = 0 .. (n - 1)
    /\ \A i \in Retained(t) : Len(Ins(t, i)) \in Nat
    /\ \A i \in Retained(q) : Len(Ins(q, i)) \in Nat
    /\ M = 0 => L = 0
    /\ Len(Ins(t, n)) >= 1 /\ Ins(t, n)[1].prevout = ReserveOutpoint(n - 1)
    /\ \A i \in Retained(t) : \A k \in 1 .. Len(Ins(t, i)) :
            (i = n /\ k = 1) \/ InFrom(t, q, n, M, L, i, k)

OutMoved(t, q, n, M, L) ==
    /\ n \in Nat /\ n > 0 /\ M \in Nat /\ L \in Nat
    /\ t.index = n /\ q.index = n - 1
    /\ Retained(t) = 0 .. n /\ Retained(q) = 0 .. (n - 1)
    /\ \A i \in Retained(t) : Len(Outs(t, i)) \in Nat
    /\ \A i \in Retained(q) : Len(Outs(q, i)) \in Nat
    /\ Outs(t, n - 1)[1].to = <<"reserve">> /\ Outs(t, n - 1)[2].to = <<"timestamp">>
    /\ \A i \in Retained(t) : \A k \in 1 .. Len(Outs(t, i)) :
            (i = n - 1 /\ k <= 2) \/ OutFrom(t, q, n, M, L, i, k)

(* A push keeps the inputs in order.                                        *)
LEMMA PushSources ==
    ASSUME NEW t, NEW q, NEW n, NEW M, NEW L, InMoved(t, q, n, M, L),
           NEW proc, Sourced(q, proc), SpentOnce(q), n > 0
    PROVE  Sourced(t, proc) /\ SpentOnce(t)
<1>1. /\ n \in Nat /\ M \in Nat /\ L \in Nat
      /\ Retained(t) = 0 .. n /\ Retained(q) = 0 .. (n - 1)
      /\ \A i \in Retained(t) : Len(Ins(t, i)) \in Nat
      /\ \A i \in Retained(q) : Len(Ins(q, i)) \in Nat
      /\ M = 0 => L = 0
      /\ Ins(t, n)[1].prevout = ReserveOutpoint(n - 1)
  BY DEF InMoved
<1>2. ASSUME NEW i \in Retained(t), NEW k \in 1 .. Len(Ins(t, i)), ~(i = n /\ k = 1)
      PROVE  InFrom(t, q, n, M, L, i, k)
  BY <1>2 DEF InMoved
<1>3. ASSUME NEW i \in Retained(t), NEW k \in 1 .. Len(Ins(t, i)), ~(i = n /\ k = 1)
      PROVE  /\ SpendsReserve(t, i, k) \/ SpendsDeposit(t, i, k, proc)
             /\ Ins(t, i)[k].prevout # ReserveOutpoint(n - 1)
  <2>1. PICK j, l : /\ j \in Retained(q) /\ l \in 1 .. Len(Ins(q, j))
                    /\ InOrigin(n, M, L, i, k, j, l)
                    /\ Ins(t, i)[k] = Ins(q, j)[l]
                    /\ j = n - 1 => l <= L
    <3>1. InFrom(t, q, n, M, L, i, k)
      BY <1>2, <1>3
    <3> QED BY <3>1 DEF InFrom
  <2>2. SpendsReserve(q, j, l) \/ SpendsDeposit(q, j, l, proc)
    BY <2>1 DEF Sourced
  <2>3. i \in Int /\ j \in Int /\ l \in Int /\ k \in Int /\ l >= 1 /\ j <= n - 1
    BY <1>1, <2>1
  <2>4. CASE SpendsDeposit(q, j, l, proc)
    BY <2>1, <2>4 DEF SpendsDeposit, DepositOutpoint, ReserveOutpoint
  <2>5. CASE SpendsReserve(q, j, l)
    <3>1. l = 1 /\ j > 0 /\ Ins(q, j)[l].prevout = ReserveOutpoint(j - 1)
      BY <2>5 DEF SpendsReserve
    <3>2. i = j /\ k = 1
      <4>1. CASE i = n /\ j = n - 1 /\ k >= 2 /\ l = L + 2 - k /\ l > M
        <5>1. M = 0 /\ L >= 1
          BY <1>1, <2>1, <3>1, <4>1
        <5> QED BY <1>1, <5>1
      <4>2. CASE ~(i = n /\ j = n - 1 /\ k >= 2 /\ l = L + 2 - k /\ l > M)
        BY <2>1, <3>1, <4>2 DEF InOrigin
      <4> QED BY <4>1, <4>2
    <3>3. j - 1 # n - 1
      BY <1>1, <2>3
    <3>4. ReserveOutpoint(j - 1) # ReserveOutpoint(n - 1)
      BY <3>3 DEF ReserveOutpoint
    <3> QED BY <2>1, <3>1, <3>2, <3>4 DEF SpendsReserve
  <2> QED BY <2>2, <2>4, <2>5
<1>4. Sourced(t, proc)
  <2> SUFFICES ASSUME NEW i \in Retained(t), NEW k \in 1 .. Len(Ins(t, i))
               PROVE  SpendsReserve(t, i, k) \/ SpendsDeposit(t, i, k, proc)
    BY DEF Sourced
  <2>1. CASE i = n /\ k = 1
    BY <1>1, <2>1 DEF SpendsReserve
  <2> QED BY <1>3, <2>1
<1>5. SpentOnce(t)
  <2> SUFFICES ASSUME NEW i \in Retained(t), NEW i2 \in Retained(t),
                      NEW k \in 1 .. Len(Ins(t, i)), NEW k2 \in 1 .. Len(Ins(t, i2)),
                      Ins(t, i)[k].prevout = Ins(t, i2)[k2].prevout
               PROVE  i = i2 /\ k = k2
    BY DEF SpentOnce
  <2>1. CASE i = n /\ k = 1
    BY <1>1, <1>3, <2>1
  <2>2. CASE i2 = n /\ k2 = 1
    BY <1>1, <1>3, <2>2
  <2>3. CASE ~(i = n /\ k = 1) /\ ~(i2 = n /\ k2 = 1)
    <3>1. PICK j, l : /\ j \in Retained(q) /\ l \in 1 .. Len(Ins(q, j))
                      /\ InOrigin(n, M, L, i, k, j, l) /\ Ins(t, i)[k] = Ins(q, j)[l]
      <4>1. InFrom(t, q, n, M, L, i, k)
        BY <1>2, <2>3
      <4> QED BY <4>1 DEF InFrom
    <3>2. PICK j2, l2 : /\ j2 \in Retained(q) /\ l2 \in 1 .. Len(Ins(q, j2))
                        /\ InOrigin(n, M, L, i2, k2, j2, l2) /\ Ins(t, i2)[k2] = Ins(q, j2)[l2]
      <4>1. InFrom(t, q, n, M, L, i2, k2)
        BY <1>2, <2>3
      <4> QED BY <4>1 DEF InFrom
    <3>3. j = j2 /\ l = l2
      BY <3>1, <3>2 DEF SpentOnce
    <3>4. i \in Int /\ k \in Int /\ i2 \in Int /\ k2 \in Int /\ j \in Int /\ l \in Int
      BY <1>1, <3>1
    <3> QED BY <1>1, <3>1, <3>2, <3>3, <3>4, OriginsDiffer
  <2> QED BY <2>1, <2>2, <2>3
<1> QED BY <1>4, <1>5

(* A push keeps the outputs in order.                                       *)
LEMMA PushDestinations ==
    ASSUME NEW t, NEW q, NEW n, NEW M, NEW L, NEW req, OutMoved(t, q, n, M, L),
           Destined(q, req), PaidOnce(q)
    PROVE  Destined(t, req) /\ PaidOnce(t)
<1>1. /\ n \in Nat /\ n > 0 /\ M \in Nat /\ L \in Nat
      /\ t.index = n /\ q.index = n - 1
      /\ Retained(t) = 0 .. n /\ Retained(q) = 0 .. (n - 1)
      /\ \A i \in Retained(t) : Len(Outs(t, i)) \in Nat
      /\ \A i \in Retained(q) : Len(Outs(q, i)) \in Nat
      /\ Outs(t, n - 1)[1].to = <<"reserve">> /\ Outs(t, n - 1)[2].to = <<"timestamp">>
  BY DEF OutMoved
<1>2. ASSUME NEW i \in Retained(t), NEW k \in 1 .. Len(Outs(t, i)), ~(i = n - 1 /\ k <= 2)
      PROVE  OutFrom(t, q, n, M, L, i, k)
  BY <1>2 DEF OutMoved
<1>3. ASSUME NEW i \in Retained(t), NEW k \in 1 .. Len(Outs(t, i)),
             NEW j \in Retained(q), NEW l \in 1 .. Len(Outs(q, j)),
             OutOrigin(n, M, L, i, k, j, l), Outs(t, i)[k] = Outs(q, j)[l]
      PROVE  /\ IsExtra(t, i, k) <=> IsExtra(q, j, l)
             /\ PaysExtra(q, j, l) => PaysExtra(t, i, k)
             /\ PaysWithdrawal(q, j, l, req) => PaysWithdrawal(t, i, k, req)
  <2>1. i \in Int /\ k \in Int /\ j \in Int /\ l \in Int /\ i <= n /\ j <= n - 1
    BY <1>1
  <2>2. IsExtra(t, i, k) <=> IsExtra(q, j, l)
    <3>1. CASE i <= n - 2 /\ j = i /\ l = k
      BY <1>1, <2>1, <3>1 DEF IsExtra
    <3>2. CASE i = n - 1 /\ j = n - 1 /\ k >= 3 /\ k <= M /\ l = k - 2
      BY <1>1, <2>1, <3>2 DEF IsExtra
    <3>3. CASE i = n /\ j = n - 1 /\ l = L + 1 - k /\ l > M - 2
      BY <1>1, <2>1, <3>3 DEF IsExtra
    <3> QED BY <1>3, <3>1, <3>2, <3>3 DEF OutOrigin
  <2>3. IsExtra(q, j, l) => k = l
    BY <1>1, <1>3, <2>1 DEF IsExtra, OutOrigin
  <2> QED BY <1>3, <2>2, <2>3 DEF PaysExtra, PaysWithdrawal
<1>4. Destined(t, req)
  <2> SUFFICES ASSUME NEW i \in Retained(t), NEW k \in 1 .. Len(Outs(t, i))
               PROVE  PaysExtra(t, i, k) \/ PaysWithdrawal(t, i, k, req)
    BY DEF Destined
  <2>1. CASE i = n - 1 /\ k <= 2
    <3>1. IsExtra(t, i, k) /\ (k = 1 \/ k = 2)
      BY <1>1, <2>1 DEF IsExtra
    <3> QED BY <1>1, <2>1, <3>1 DEF PaysExtra
  <2>2. CASE ~(i = n - 1 /\ k <= 2)
    <3>1. PICK j, l : /\ j \in Retained(q) /\ l \in 1 .. Len(Outs(q, j))
                      /\ OutOrigin(n, M, L, i, k, j, l) /\ Outs(t, i)[k] = Outs(q, j)[l]
      <4>1. OutFrom(t, q, n, M, L, i, k)
        BY <1>2, <2>2
      <4> QED BY <4>1 DEF OutFrom
    <3>2. PaysExtra(q, j, l) \/ PaysWithdrawal(q, j, l, req)
      BY <3>1 DEF Destined
    <3> QED BY <1>3, <3>1, <3>2
  <2> QED BY <2>1, <2>2
<1>5. PaidOnce(t)
  <2> SUFFICES ASSUME NEW i \in Retained(t), NEW i2 \in Retained(t),
                      NEW k \in 1 .. Len(Outs(t, i)), NEW k2 \in 1 .. Len(Outs(t, i2)),
                      ~IsExtra(t, i, k), Outs(t, i)[k].to = Outs(t, i2)[k2].to
               PROVE  i = i2 /\ k = k2
    BY DEF PaidOnce
  <2>1. ~(i = n - 1 /\ k <= 2)
    BY <1>1 DEF IsExtra
  <2>2. PICK j, l : /\ j \in Retained(q) /\ l \in 1 .. Len(Outs(q, j))
                    /\ OutOrigin(n, M, L, i, k, j, l) /\ Outs(t, i)[k] = Outs(q, j)[l]
    <3>1. OutFrom(t, q, n, M, L, i, k)
      BY <1>2, <2>1
    <3> QED BY <3>1 DEF OutFrom
  <2>3. ~IsExtra(q, j, l)
    BY <1>3, <2>2
  <2>4. CASE i2 = n - 1 /\ k2 <= 2
    <3>1. PICK w \in req : Outs(t, i)[k].to = <<"withdrawal", w>>
      <4>1. PaysExtra(t, i, k) \/ PaysWithdrawal(t, i, k, req)
        BY <1>4 DEF Destined
      <4> QED BY <4>1 DEF PaysExtra, PaysWithdrawal
    <3>2. k2 = 1 \/ k2 = 2
      BY <1>1, <2>4
    <3>3. <<"reserve">> # <<"withdrawal", w>> /\ <<"timestamp">> # <<"withdrawal", w>>
      OBVIOUS
    <3> QED BY <1>1, <2>4, <3>1, <3>2, <3>3
  <2>5. CASE ~(i2 = n - 1 /\ k2 <= 2)
    <3>1. PICK j2, l2 : /\ j2 \in Retained(q) /\ l2 \in 1 .. Len(Outs(q, j2))
                        /\ OutOrigin(n, M, L, i2, k2, j2, l2) /\ Outs(t, i2)[k2] = Outs(q, j2)[l2]
      <4>1. OutFrom(t, q, n, M, L, i2, k2)
        BY <1>2, <2>5
      <4> QED BY <4>1 DEF OutFrom
    <3>2. j = j2 /\ l = l2
      BY <2>2, <2>3, <3>1 DEF PaidOnce
    <3>3. i \in Int /\ k \in Int /\ i2 \in Int /\ k2 \in Int /\ j \in Int /\ l \in Int
      BY <1>1, <2>2
    <3> QED BY <1>1, <2>2, <3>1, <3>2, <3>3, OriginsDiffer
  <2> QED BY <2>4, <2>5
<1> QED BY <1>4, <1>5

(* A push to checkpoint n moved the inputs and outputs of the frozen        *)
(* checkpoint, prev, to it and to what is frozen, a.                        *)
PushMoved(t, q, n, prev, a, fee) ==
    /\ InMoved(t, q, n, Len(a.inputs), Len(prev.inputs))
    /\ OutMoved(t, q, n, Len(a.outputs), Len(prev.outputs))
    /\ Len(a.outputs) >= 2
    /\ Ins(t, n)[1] = NewInput(ReserveOutpoint(n - 1), prev.signatories,
                               ReserveValue(prev, fee))
    /\ Len(Ins(t, n)) >= 1
    /\ Len(prev.inputs) >= 1 => Len(a.inputs) >= 1 /\ a.inputs[1] = prev.inputs[1]

(* Every push did.                                                          *)
LEMMA PushMoves ==
    ASSUME NEW t, NEW q, NEW fee, PushedFunds(t, q, fee), TxsOK(q), t.index # 0,
           NEW n, n = t.index, NEW prev, prev = q.cps[n - 1], NEW a, a = t.cps[n - 1]
    PROVE  PushMoved(t, q, n, prev, a, fee)
<1> DEFINE L  == Len(prev.inputs)
           M  == Len(a.inputs)
           Lo == Len(prev.outputs)
           Mo == Len(a.outputs)
           X  == ExcessInputs(prev)
           E  == ExcessOutputs(prev)
           res == NewInput(ReserveOutpoint(n - 1), prev.signatories, ReserveValue(prev, fee))
<1>1. /\ n \in Nat /\ n > 0 /\ Retained(t) = 0 .. n /\ Retained(q) = 0 .. (n - 1)
      /\ t.index = n /\ q.index = n - 1
      /\ \A j \in 0 .. (n - 2) : t.cps[j] = q.cps[j]
      /\ TxOK(t.cps[n]) /\ TxOK(prev) /\ AdvancedOK(prev, fee, a)
      /\ t.cps[n].inputs = <<res>> \o X
      /\ t.cps[n].outputs = E
      /\ ReserveValue(prev, fee) \in Nat
  BY DEF PushedFunds
<1>2. /\ TxOK(a)
      /\ \A k \in 1 .. M : a.inputs[k] = prev.inputs[k]
      /\ M = AtMost(L, MaxInputs)
      /\ Mo = AtMost(Lo + 2, MaxOutputs)
      /\ a.outputs[1] = ReserveOutput(ReserveValue(prev, fee))
      /\ a.outputs[2] = TimestampOutput
      /\ \A k \in 3 .. Mo : a.outputs[k] = prev.outputs[k - 2]
      /\ X \in Seq(Input) /\ Len(X) = L - M
      /\ \A k \in 1 .. Len(X) : X[k] = prev.inputs[L + 1 - k]
      /\ E \in Seq(Output) /\ Len(E) = Lo + 2 - Mo
      /\ \A k \in 1 .. Len(E) : E[k] = prev.outputs[Lo + 1 - k]
  BY <1>1 DEF AdvancedOK
<1>3. /\ n - 1 \in Nat /\ n - 1 \in Retained(q) /\ n - 1 \in Retained(t) /\ n \in Retained(t)
      /\ Ins(t, n) = <<res>> \o X /\ Outs(t, n) = E
      /\ Ins(t, n - 1) = a.inputs /\ Outs(t, n - 1) = a.outputs
      /\ Ins(q, n - 1) = prev.inputs /\ Outs(q, n - 1) = prev.outputs
  BY <1>1 DEF Ins, Outs
<1> HIDE DEF L, M, Lo, Mo, X, E
<1>4. res \in Input /\ res.prevout = ReserveOutpoint(n - 1)
  <2>1. res \in Input
    BY <1>1, <1>3, NextInputsType
  <2> QED BY <2>1 DEF NewInput
<1> HIDE DEF res
<1>5. MaxInputs \in Nat \ {0} /\ MaxOutputs \in Nat \ {0, 1}
  BY LimitsAssumption
<1>6. \A i \in 0 .. (n - 2) : Ins(t, i) = Ins(q, i) /\ Outs(t, i) = Outs(q, i)
  BY <1>1 DEF Ins, Outs
<1>7. /\ \A i \in Retained(q) : Len(Ins(q, i)) \in Nat /\ Len(Outs(q, i)) \in Nat
      /\ \A i \in Retained(t) : Len(Ins(t, i)) \in Nat /\ Len(Outs(t, i)) \in Nat
  <2>1. \A i \in Retained(q) : Ins(q, i) \in Seq(Input) /\ Outs(q, i) \in Seq(Output)
    BY DEF TxsOK, TxOK, Ins, Outs
  <2>2. \A i \in Retained(t) : Ins(t, i) \in Seq(Input) /\ Outs(t, i) \in Seq(Output)
    <3> TAKE i \in Retained(t)
    <3>1. i \in 0 .. (n - 2) \/ i = n - 1 \/ i = n
      <4>1. n \in Nat /\ i \in 0 .. n
        BY <1>1
      <4> QED BY <4>1
    <3>2. 0 .. (n - 2) \subseteq Retained(q)
      BY <1>1
    <3>3. /\ Ins(t, n - 1) \in Seq(Input) /\ Outs(t, n - 1) \in Seq(Output)
          /\ Ins(t, n) \in Seq(Input) /\ Outs(t, n) \in Seq(Output)
      BY <1>1, <1>2 DEF TxOK, Ins, Outs
    <3> QED BY <1>6, <2>1, <3>1, <3>2, <3>3
  <2> QED BY <2>1, <2>2
<1>8. L \in Nat /\ M \in Nat /\ Lo \in Nat /\ Mo \in Nat
  BY <1>3, <1>7 DEF L, M, Lo, Mo
<1>9. /\ M <= L /\ (M = 0 => L = 0) /\ Mo >= 2 /\ Mo <= Lo + 2
  BY <1>2, <1>5, <1>8 DEF AtMost
<1>10. /\ Len(Ins(t, n)) = 1 + (L - M) /\ Ins(t, n)[1] = res
       /\ \A k \in 1 .. 1 + Len(X) : Ins(t, n)[k] = IF k <= 1 THEN <<res>>[k] ELSE X[k - 1]
  <2>1. <<res>> \in Seq(Input) /\ Len(<<res>>) = 1 /\ <<res>>[1] = res
    BY <1>4
  <2>2. /\ Len(<<res>> \o X) = Len(<<res>>) + Len(X)
        /\ \A k \in 1 .. Len(<<res>>) + Len(X) : (<<res>> \o X)[k] =
              IF k <= Len(<<res>>) THEN <<res>>[k] ELSE X[k - Len(<<res>>)]
    BY <1>2, <2>1, ConcatProperties
  <2> QED BY <1>2, <1>3, <1>8, <1>9, <2>1, <2>2
<1>11. ASSUME NEW i \in Retained(t), NEW k \in 1 .. Len(Ins(t, i)), ~(i = n /\ k = 1)
       PROVE  InFrom(t, q, n, M, L, i, k)
  <2>1. CASE i <= n - 2
    <3>1. i \in Retained(q) /\ Ins(t, i) = Ins(q, i) /\ i # n - 1
      BY <1>1, <1>6, <2>1
    <3>2. InOrigin(n, M, L, i, k, i, k)
      BY <2>1 DEF InOrigin
    <3> QED BY <3>1, <3>2 DEF InFrom
  <2>2. CASE i = n - 1
    <3>1. Ins(t, i) = a.inputs /\ Ins(q, i) = prev.inputs
      BY <1>3, <2>2
    <3>2. k \in 1 .. M
      BY <3>1 DEF M
    <3>3. k \in 1 .. L /\ k <= L
      BY <1>8, <1>9, <3>2
    <3>4. Ins(t, i)[k] = Ins(q, i)[k]
      BY <1>2, <3>1, <3>2
    <3>5. InOrigin(n, M, L, i, k, i, k)
      BY <1>8, <2>2, <3>2 DEF InOrigin
    <3>6. k \in 1 .. Len(Ins(q, i))
      BY <3>1, <3>3 DEF L
    <3> QED BY <1>3, <2>2, <3>3, <3>4, <3>5, <3>6 DEF InFrom
  <2>3. CASE i = n
    <3>1. k \in 2 .. 1 + (L - M)
      BY <1>8, <1>9, <1>10, <1>11, <2>3
    <3>2. k - 1 \in 1 .. Len(X) /\ L + 2 - k \in 1 .. L /\ L + 1 - (k - 1) = L + 2 - k
      <4>1. Len(X) = L - M
        BY <1>2
      <4> QED BY <1>8, <1>9, <3>1, <4>1
    <3>3. Ins(t, i)[k] = prev.inputs[L + 2 - k]
      <4>1. Ins(t, n)[k] = X[k - 1]
        <5>1. k \in 1 .. 1 + Len(X) /\ ~(k <= 1)
          BY <3>1, <3>2
        <5> QED BY <1>10, <5>1
      <4> QED BY <1>2, <2>3, <3>2, <4>1
    <3>4. PICK l \in 1 .. L : l = L + 2 - k
      BY <3>2
    <3>5. InOrigin(n, M, L, i, k, n - 1, l)
      BY <1>8, <2>3, <3>1, <3>4 DEF InOrigin
    <3>6. l \in 1 .. Len(Ins(q, n - 1)) /\ Ins(t, i)[k] = Ins(q, n - 1)[l] /\ l <= L
      BY <1>3, <1>8, <3>3, <3>4 DEF L
    <3> QED BY <1>3, <3>5, <3>6 DEF InFrom
  <2> QED BY <1>1, <2>1, <2>2, <2>3
<1>12. InMoved(t, q, n, M, L)
  BY <1>1, <1>4, <1>7, <1>8, <1>9, <1>10, <1>11 DEF InMoved
<1>13. ASSUME NEW i \in Retained(t), NEW k \in 1 .. Len(Outs(t, i)), ~(i = n - 1 /\ k <= 2)
       PROVE  OutFrom(t, q, n, Mo, Lo, i, k)
  <2>1. CASE i <= n - 2
    <3>1. i \in Retained(q) /\ Outs(t, i) = Outs(q, i)
      BY <1>1, <1>6, <2>1
    <3>2. OutOrigin(n, Mo, Lo, i, k, i, k)
      BY <2>1 DEF OutOrigin
    <3> QED BY <3>1, <3>2 DEF OutFrom
  <2>2. CASE i = n - 1
    <3>1. Outs(t, i) = a.outputs /\ Outs(q, i) = prev.outputs
      BY <1>3, <2>2
    <3>2. k \in 1 .. Mo
      BY <3>1 DEF Mo
    <3>3. k \in 3 .. Mo /\ k - 2 \in 1 .. Lo
      BY <1>8, <1>9, <1>13, <2>2, <3>2
    <3>4. PICK l \in 1 .. Lo : l = k - 2
      BY <3>3
    <3>5. OutOrigin(n, Mo, Lo, i, k, n - 1, l)
      BY <1>8, <2>2, <3>3, <3>4 DEF OutOrigin
    <3>6. l \in 1 .. Len(Outs(q, n - 1)) /\ Outs(t, i)[k] = Outs(q, n - 1)[l]
      BY <1>2, <1>3, <2>2, <3>1, <3>3, <3>4 DEF Lo
    <3> QED BY <1>3, <3>5, <3>6 DEF OutFrom
  <2>3. CASE i = n
    <3>1. Outs(t, i) = E /\ k \in 1 .. (Lo + 2 - Mo) /\ k \in 1 .. Len(E)
      BY <1>2, <1>3, <2>3
    <3>2. Lo + 1 - k \in 1 .. Lo
      BY <1>8, <1>9, <3>1
    <3>3. PICK l \in 1 .. Lo : l = Lo + 1 - k
      BY <3>2
    <3>4. OutOrigin(n, Mo, Lo, i, k, n - 1, l)
      BY <1>8, <1>9, <2>3, <3>1, <3>3 DEF OutOrigin
    <3>5. l \in 1 .. Len(Outs(q, n - 1)) /\ Outs(t, i)[k] = Outs(q, n - 1)[l]
      BY <1>2, <1>3, <3>1, <3>3 DEF Lo
    <3> QED BY <1>3, <3>4, <3>5 DEF OutFrom
  <2> QED BY <1>1, <2>1, <2>2, <2>3
<1>14. Outs(t, n - 1)[1].to = <<"reserve">> /\ Outs(t, n - 1)[2].to = <<"timestamp">>
  BY <1>2, <1>3 DEF ReserveOutput, TimestampOutput
<1>15. OutMoved(t, q, n, Mo, Lo)
  BY <1>1, <1>7, <1>8, <1>13, <1>14 DEF OutMoved
<1>16. L >= 1 => M >= 1 /\ a.inputs[1] = prev.inputs[1]
  BY <1>2, <1>8, <1>9
<1>17. Len(Ins(t, n)) >= 1
  BY <1>8, <1>9, <1>10
<1> QED BY <1>9, <1>10, <1>12, <1>15, <1>16, <1>17 DEF M, L, Mo, Lo, res, PushMoved

(* A push keeps the ledger right.                                           *)
LEMMA PushLedger ==
    ASSUME NEW t, NEW q, NEW fee, PushedFunds(t, q, fee), TxsOK(q),
           NEW proc, NEW req, Ledger(q, proc, req)
    PROVE  Ledger(t, proc, req) /\ TxsOK(t)
<1> DEFINE n == t.index
<1>1. /\ n \in Nat /\ Retained(t) = 0 .. n /\ Retained(q) = 0 .. (n - 1)
      /\ n > 0 => q.index = n - 1
      /\ \A j \in 0 .. (n - 2) : t.cps[j] = q.cps[j]
      /\ TxOK(t.cps[n]) /\ t.cps[n].status = "Building"
  BY DEF PushedFunds
<1>2. CASE n = 0
  <2>1. Retained(t) = {0} /\ Ins(t, 0) = <<>> /\ Outs(t, 0) = <<>>
    BY <1>1, <1>2 DEF PushedFunds, Ins, Outs
  <2>2. 1 .. Len(Ins(t, 0)) = {} /\ 1 .. Len(Outs(t, 0)) = {} /\ 0 - 1 # 0
    BY <2>1
  <2>3. Chained(t) /\ HasExtras(t)
    BY <1>2, <2>1 DEF Chained, HasExtras
  <2>4. FeesRight(t)
    BY <1>1, <1>2, <2>1 DEF FeesRight
  <2>5. Sourced(t, proc) /\ SpentOnce(t) /\ Destined(t, req) /\ PaidOnce(t)
    BY <2>1, <2>2 DEF Sourced, SpentOnce, Destined, PaidOnce
  <2>6. TxsOK(t)
    BY <1>1, <1>2, <2>1 DEF TxsOK
  <2> QED BY <2>3, <2>4, <2>5, <2>6 DEF Ledger
<1>3. CASE n > 0
  <2> DEFINE prev == q.cps[n - 1]
             a    == t.cps[n - 1]
             res  == NewInput(ReserveOutpoint(n - 1), prev.signatories,
                              ReserveValue(prev, fee))
  <2>1. /\ InMoved(t, q, n, Len(a.inputs), Len(prev.inputs))
        /\ OutMoved(t, q, n, Len(a.outputs), Len(prev.outputs))
        /\ Len(a.outputs) >= 2
        /\ Ins(t, n)[1] = res
        /\ Len(Ins(t, n)) >= 1
        /\ Len(prev.inputs) >= 1 => Len(a.inputs) >= 1 /\ a.inputs[1] = prev.inputs[1]
    <3>1. t.index # 0
      BY <1>3
    <3>2. PushMoved(t, q, n, prev, a, fee)
      BY <3>1, PushMoves
    <3> QED BY <3>2 DEF PushMoved
  <2>2. /\ fee \in Nat /\ TxOK(prev) /\ AdvancedOK(prev, fee, a)
        /\ fee >= a.feeRate * FrozenVsize(a)
    BY <1>3 DEF PushedFunds
  <2>3. /\ TxOK(a) /\ MinerFees(a) = fee /\ a.signatories = prev.signatories
        /\ a.outputs[1] = ReserveOutput(ReserveValue(prev, fee))
    BY <2>2 DEF AdvancedOK
  <2>4. /\ Ins(t, n - 1) = a.inputs /\ Outs(t, n - 1) = a.outputs
        /\ Ins(q, n - 1) = prev.inputs /\ Outs(q, n - 1) = prev.outputs
        /\ \A i \in 0 .. (n - 2) : Ins(t, i) = Ins(q, i) /\ Outs(t, i) = Outs(q, i)
    BY <1>1 DEF Ins, Outs
  <2>5. q.index = n - 1
    BY <1>1, <1>3
  <2>6. /\ res.prevout = ReserveOutpoint(n - 1) /\ res.signatories = prev.signatories
        /\ res.amount = ReserveValue(prev, fee)
        /\ a.outputs[1].value = ReserveValue(prev, fee) /\ a.outputs[1].to = <<"reserve">>
    BY <2>3 DEF NewInput, ReserveOutput
  <2> HIDE DEF n, prev, a, res
  <2>7. Chained(t)
    <3> SUFFICES ASSUME NEW i \in Retained(t), i - 1 \in Retained(t)
                 PROVE  /\ Len(Ins(t, i)) >= 1
                        /\ Ins(t, i)[1].prevout = ReserveOutpoint(i - 1)
                        /\ Ins(t, i)[1].amount = Outs(t, i - 1)[1].value
                        /\ Ins(t, i)[1].signatories = t.cps[i - 1].signatories
                        /\ Outs(t, i - 1)[1].to = <<"reserve">>
      BY DEF Chained
    <3>1. i \in 1 .. n
      BY <1>1
    <3>2. CASE i = n
      <4>1. Outs(t, i - 1) = a.outputs /\ t.cps[i - 1] = a /\ Ins(t, i)[1] = res
        BY <2>1, <2>4, <3>2 DEF a
      <4> QED BY <2>1, <2>3, <2>6, <3>2, <4>1
    <3>3. CASE i # n
      <4>1. /\ i \in Retained(q) /\ i - 1 \in Retained(q) /\ i - 1 \in 0 .. (n - 2)
            /\ i \in 0 .. (n - 2) \/ i = n - 1
        BY <1>1, <3>1, <3>3
      <4>2. /\ Len(Ins(q, i)) >= 1
            /\ Ins(q, i)[1].prevout = ReserveOutpoint(i - 1)
            /\ Ins(q, i)[1].amount = Outs(q, i - 1)[1].value
            /\ Ins(q, i)[1].signatories = q.cps[i - 1].signatories
            /\ Outs(q, i - 1)[1].to = <<"reserve">>
        BY <4>1 DEF Ledger, Chained
      <4>3. Outs(t, i - 1) = Outs(q, i - 1) /\ t.cps[i - 1] = q.cps[i - 1]
        BY <1>1, <2>4, <4>1
      <4>4. Len(Ins(t, i)) >= 1 /\ Ins(t, i)[1] = Ins(q, i)[1]
        <5>1. CASE i \in 0 .. (n - 2)
          BY <2>4, <4>2, <5>1
        <5>2. CASE i = n - 1
          BY <2>1, <2>4, <4>2, <5>2
        <5> QED BY <4>1, <5>1, <5>2
      <4> QED BY <4>2, <4>3, <4>4
    <3> QED BY <3>2, <3>3
  <2>8. FeesRight(t) /\ HasExtras(t) /\ TxsOK(t)
    <3>1. \A i \in Retained(t) : i = n \/ i = n - 1
                                 \/ (i \in 0 .. (n - 2) /\ i \in Retained(q) /\ i < n - 1)
      BY <1>1
    <3>2. FeesRight(t)
      <4> SUFFICES ASSUME NEW i \in Retained(t), t.cps[i].status # "Building"
                   PROVE  MinerFees(t.cps[i]) >= t.cps[i].feeRate * FrozenVsize(t.cps[i])
        BY DEF FeesRight
      <4>1. CASE i = n
        BY <1>1, <4>1 DEF n
      <4>2. CASE i = n - 1
        BY <2>2, <2>3, <4>2 DEF a
      <4>3. CASE i \in 0 .. (n - 2) /\ i \in Retained(q)
        <5>1. t.cps[i] = q.cps[i]
          BY <1>1, <4>3
        <5> QED BY <4>3, <5>1 DEF Ledger, FeesRight
      <4> QED BY <3>1, <4>1, <4>2, <4>3
    <3>3. HasExtras(t)
      <4> SUFFICES ASSUME NEW i \in Retained(t), i < n
                   PROVE  Len(Outs(t, i)) >= 2
        BY DEF HasExtras, n
      <4>1. CASE i = n - 1
        BY <2>1, <2>4, <4>1
      <4>2. CASE i \in 0 .. (n - 2) /\ i \in Retained(q) /\ i < n - 1
        BY <2>4, <2>5, <4>2 DEF Ledger, HasExtras
      <4> QED BY <1>1, <3>1, <4>1, <4>2
    <3>4. TxsOK(t)
      <4> SUFFICES ASSUME NEW i \in Retained(t) PROVE TxOK(t.cps[i])
        BY DEF TxsOK
      <4>1. CASE i = n
        BY <1>1, <4>1 DEF n
      <4>2. CASE i = n - 1
        BY <2>3, <4>2 DEF a
      <4>3. CASE i \in 0 .. (n - 2) /\ i \in Retained(q)
        <5>1. t.cps[i] = q.cps[i]
          BY <1>1, <4>3
        <5> QED BY <4>3, <5>1 DEF TxsOK
      <4> QED BY <3>1, <4>1, <4>2, <4>3
    <3> QED BY <3>2, <3>3, <3>4
  <2>9. Sourced(t, proc) /\ SpentOnce(t)
    BY <1>3, <2>1, PushSources DEF Ledger
  <2>10. Destined(t, req) /\ PaidOnce(t)
    BY <2>1, PushDestinations DEF Ledger
  <2> QED BY <2>7, <2>8, <2>9, <2>10 DEF Ledger
<1> QED BY <1>1, <1>2, <1>3

-----------------------------------------------------------------------------
(* The transfers still to be paid.                                          *)

Pending(q) == [i \in Retained(q) |-> PendingAmount(q.cps[i])]

(* What waits in a checkpoint is an integer, and nothing waits in one       *)
(* without transfers.                                                       *)
LEMMA PendingType ==
    ASSUME NEW cp, TxOK(cp)
    PROVE  PendingAmount(cp) \in Int /\ (cp.pending = {} => PendingAmount(cp) = 0)
<1> DEFINE f == [p \in cp.pending |-> p.amount]
<1>1. PendingAmount(cp) = SumFunctionOnSet(f, cp.pending)
  BY DEF PendingAmount, SumFunction
<1>2. IsFiniteSet(cp.pending) /\ \A p \in cp.pending : f[p] \in Int
  BY DEF TxOK
<1>3. cp.pending = {} => SumFunctionOnSet(f, cp.pending) = 0
  BY SumEmpty
<1> HIDE DEF f
<1> QED BY <1>1, <1>2, <1>3, SumInt

(* One more transfer.                                                       *)
LEMMA PendingAdd ==
    ASSUME NEW cp, TxOK(cp), NEW new, NEW tr, tr \notin cp.pending, tr.amount \in Int,
           new.pending = cp.pending \cup {tr}
    PROVE  PendingAmount(new) = PendingAmount(cp) + tr.amount
<1> DEFINE S == cp.pending
           f == [p \in S |-> p.amount]
           g == [p \in S \cup {tr} |-> p.amount]
<1>1. PendingAmount(cp) = SumFunctionOnSet(f, S)
  BY DEF PendingAmount, SumFunction
<1>2. PendingAmount(new) = SumFunctionOnSet(g, S \cup {tr})
  BY DEF PendingAmount, SumFunction
<1>3. IsFiniteSet(S) /\ \A p \in S : f[p] = g[p]
  BY DEF TxOK
<1>4. \A p \in S \cup {tr} : g[p] \in Int
  BY DEF TxOK
<1>5. g[tr] = tr.amount
  OBVIOUS
<1>6. tr \notin S
  OBVIOUS
<1> HIDE DEF f, g, S
<1>7. SumFunctionOnSet(g, S \cup {tr}) = SumFunctionOnSet(g, S) + g[tr]
  BY <1>3, <1>4, <1>6, SumAdd
<1>8. SumFunctionOnSet(f, S) = SumFunctionOnSet(g, S)
  BY <1>3, SumSame
<1> QED BY <1>1, <1>2, <1>5, <1>7, <1>8

(* What waits in some of the checkpoints.                                   *)
LEMMA TransferType ==
    ASSUME NEW q, NEW u, QueueOK(q, u), TxsOK(q), NEW S, S \subseteq Retained(q)
    PROVE  /\ IsFiniteSet(S) /\ IsFiniteSet(Retained(q))
           /\ \A i \in Retained(q) : Pending(q)[i] = PendingAmount(q.cps[i])
           /\ \A i \in Retained(q) : Pending(q)[i] \in Int
           /\ TransferAmount(q, S) = SumFunctionOnSet(Pending(q), S)
           /\ TransferAmount(q, S) \in Int
<1> DEFINE f == [i \in S |-> PendingAmount(q.cps[i])]
<1>1. IsFiniteSet(Retained(q))
  <2>1. PICK a \in Int, b \in Int : Retained(q) = a .. b
    BY DEF QueueOK, Retained, Start
  <2> QED BY <2>1, FS_Interval
<1>2. IsFiniteSet(S)
  BY <1>1, FS_Subset
<1>3. \A i \in Retained(q) : Pending(q)[i] = PendingAmount(q.cps[i])
  BY DEF Pending
<1>4. \A i \in Retained(q) : Pending(q)[i] \in Int
  BY <1>3, PendingType DEF TxsOK
<1>5. TransferAmount(q, S) = SumFunctionOnSet(f, S)
  BY DEF TransferAmount, SumFunction
<1>6. \A i \in S : f[i] = Pending(q)[i]
  BY <1>3
<1>7. \A i \in S : Pending(q)[i] \in Int
  BY <1>4
<1> HIDE DEF f
<1>8. SumFunctionOnSet(f, S) = SumFunctionOnSet(Pending(q), S)
  BY <1>2, <1>6, SumSame
<1>9. SumFunctionOnSet(Pending(q), S) \in Int
  BY <1>2, <1>7, SumInt
<1> QED BY <1>1, <1>2, <1>3, <1>4, <1>5, <1>8, <1>9

(* A change of one checkpoint.                                              *)
LEMMA TransferChange ==
    ASSUME NEW q, NEW u, QueueOK(q, u), TxsOK(q), NEW t, NEW u2, QueueOK(t, u2), TxsOK(t),
           Retained(t) = Retained(q), NEW n \in Retained(q),
           \A j \in Retained(q) : j # n => t.cps[j].pending = q.cps[j].pending
    PROVE  TransferAmount(t, Retained(t)) - PendingAmount(t.cps[n])
             = TransferAmount(q, Retained(q)) - PendingAmount(q.cps[n])
<1> DEFINE R == Retained(q)
           f == Pending(q)
           g == Pending(t)
<1>1. /\ IsFiniteSet(R)
      /\ \A i \in R : f[i] = PendingAmount(q.cps[i])
      /\ \A i \in R : f[i] \in Int
      /\ TransferAmount(q, R) = SumFunctionOnSet(f, R)
  BY TransferType
<1>2. /\ \A i \in R : g[i] = PendingAmount(t.cps[i])
      /\ \A i \in R : g[i] \in Int
      /\ TransferAmount(t, R) = SumFunctionOnSet(g, R)
  BY TransferType
<1>3. \A i \in R \ {n} : f[i] = g[i]
  <2>1. \A j \in R \ {n} : PendingAmount(t.cps[j]) = PendingAmount(q.cps[j])
    BY DEF PendingAmount
  <2> QED BY <1>1, <1>2, <2>1
<1>4. IsFiniteSet(R \ {n}) /\ n \in R /\ \A i \in R \ {n} : f[i] \in Int
  BY <1>1, FS_Subset
<1> HIDE DEF R, f, g
<1>5. /\ SumFunctionOnSet(f, R) = f[n] + SumFunctionOnSet(f, R \ {n})
      /\ SumFunctionOnSet(g, R) = g[n] + SumFunctionOnSet(g, R \ {n})
      /\ SumFunctionOnSet(f, R \ {n}) \in Int
  BY <1>1, <1>2, <1>4, SumRemove, SumInt
<1>6. SumFunctionOnSet(f, R \ {n}) = SumFunctionOnSet(g, R \ {n})
  BY <1>3, <1>4, SumSame
<1>7. f[n] \in Int /\ g[n] \in Int /\ f[n] = PendingAmount(q.cps[n])
      /\ g[n] = PendingAmount(t.cps[n])
  BY <1>1, <1>2, <1>4
<1>8. TransferAmount(t, R) - PendingAmount(t.cps[n])
        = TransferAmount(q, R) - PendingAmount(q.cps[n])
  BY <1>1, <1>2, <1>5, <1>6, <1>7
<1> QED BY <1>8 DEF R

(* t is q without the transfers of the checkpoints S.                       *)
Cleared(t, q, S) ==
    /\ Retained(t) = Retained(q) /\ S \subseteq Retained(q)
    /\ \A j \in Retained(q) : t.cps[j].pending = IF j \in S THEN {} ELSE q.cps[j].pending

(* What waits in some checkpoints of t, as a sum over q.                    *)
LEMMA TransferCleared ==
    ASSUME NEW q, NEW u, QueueOK(q, u), TxsOK(q), NEW t, NEW u2, QueueOK(t, u2), TxsOK(t),
           NEW S, Cleared(t, q, S), NEW U, U \subseteq Retained(q)
    PROVE  TransferAmount(t, U) = SumFunctionOnSet(Pending(q), U \ S)
<1> DEFINE R == Retained(q)
           f == Pending(q)
           g == Pending(t)
<1>1. /\ Retained(t) = R /\ S \subseteq R
      /\ \A j \in R : t.cps[j].pending = IF j \in S THEN {} ELSE q.cps[j].pending
  BY DEF Cleared
<1>2. /\ IsFiniteSet(U)
      /\ \A i \in R : f[i] = PendingAmount(q.cps[i])
      /\ \A i \in R : f[i] \in Int
  BY TransferType
<1>3. /\ \A i \in R : g[i] = PendingAmount(t.cps[i])
      /\ \A i \in R : g[i] \in Int
      /\ TransferAmount(t, U) = SumFunctionOnSet(g, U)
  BY <1>1, TransferType
<1>4. \A i \in U \ S : f[i] = g[i]
  <2>1. \A j \in U \ S : t.cps[j].pending = q.cps[j].pending
    BY <1>1
  <2>2. \A j \in U \ S : PendingAmount(t.cps[j]) = PendingAmount(q.cps[j])
    BY <2>1 DEF PendingAmount
  <2> QED BY <1>2, <1>3, <2>2
<1>5. \A i \in U \cap S : g[i] = 0
  <2>1. \A j \in U \cap S : t.cps[j].pending = {} /\ TxOK(t.cps[j])
    BY <1>1 DEF TxsOK
  <2> QED BY <1>1, <1>3, <2>1, PendingType
<1>6. /\ IsFiniteSet(U \ S) /\ IsFiniteSet(U \cap S) /\ (U \ S) \cap (U \cap S) = {}
      /\ (U \ S) \cup (U \cap S) = U
  BY <1>2, FS_Subset
<1>7. \A i \in (U \ S) \cup (U \cap S) : g[i] \in Int
  BY <1>3
<1>8. U \subseteq R
  OBVIOUS
<1> HIDE DEF f, g, R
<1>9. SumFunctionOnSet(g, (U \ S) \cup (U \cap S))
        = SumFunctionOnSet(g, U \ S) + SumFunctionOnSet(g, U \cap S)
  BY <1>6, <1>7, SumUnion
<1>10. SumFunctionOnSet(g, U) = SumFunctionOnSet(g, (U \ S) \cup (U \cap S))
  BY <1>6, Zenon
<1>11. SumFunctionOnSet(g, U \cap S) = 0
  BY <1>5, <1>6, SumZero
<1>12. SumFunctionOnSet(f, U \ S) = SumFunctionOnSet(g, U \ S)
  BY <1>4, <1>6, SumSame
<1>13. SumFunctionOnSet(f, U \ S) \in Int
  <2>1. \A x \in U \ S : f[x] \in Int
    BY <1>2, <1>8
  <2> QED BY <1>6, <2>1, SumInt
<1>14. TransferAmount(t, U) = SumFunctionOnSet(f, U \ S)
  BY <1>3, <1>9, <1>10, <1>11, <1>12, <1>13
<1> QED BY <1>14 DEF f

-----------------------------------------------------------------------------
(* What the reserve will hold and what is owed, in nBTC units: sup is the   *)
(* supply, pool the fee pool, req the withdrawals requested.                *)

Net(q) == TotalIn(q.cps[q.index].inputs) - TotalOut(q.cps[q.index].outputs)
Surplus(q, sup, pool) ==
    Net(q) * UnitsPerSat - (sup + pool + TransferAmount(q, Retained(q)))

FundsOK(q, sup, pool, req) ==
    /\ sup \in Int /\ pool \in Int /\ IsFiniteSet(req)
    /\ q.len = 0 => sup + pool = 0
    /\ q.len > 0 => Surplus(q, sup, pool) \in 0 .. (Cardinality(req) * (UnitsPerSat - 1))

(* Everything about the transactions.                                       *)
FundsInv == /\ TxsOK(queue)
            /\ Ledger(queue, processed, requested)
            /\ FundsOK(queue, supply, feePool, requested)

(* A user's fee is a natural number of units.                               *)
LEMMA UserFeeType ==
    ASSUME NEW v \in Nat, NEW rate \in Nat
    PROVE  UserFee(v, rate) * UnitsPerSat \in Nat
<1>1. UserFeeFactor \in Nat /\ UnitsPerSat \in Nat
  BY LimitsAssumption
<1>2. v * rate * UserFeeFactor \in Nat
  BY <1>1
<1>3. PICK x \in Nat : x = v * rate * UserFeeFactor
  BY <1>2
<1>4. UserFee(v, rate) \in Nat
  BY <1>3 DEF UserFee
<1> QED BY <1>1, <1>4

(* A message that changes the checkpoint being built, of any queue.         *)
LEMMA SetRebuilds ==
    ASSUME NEW q, NEW u, QueueOK(q, u), Shape(q), Start(q) = 0, q.len > 0,
           NEW cp, cp.status = "Building", NEW t, t = SetCheckpoint(q, q.index, cp)
    PROVE  /\ Rebuilt(t, q, cp) /\ t.len = q.len
           /\ TxsOK(q) /\ TxOK(cp) => TxsOK(t)
<1>1. q.index \in Retained(q) /\ DOMAIN q.cps = Retained(q)
  BY DEF QueueOK, Retained, Start
<1>2. PICK n : n = q.index
  OBVIOUS
<1>3. n \in Retained(q) /\ t = SetCheckpoint(q, n, cp)
  BY <1>1, <1>2
<1>4. /\ t.index = q.index /\ t.len = q.len
      /\ Retained(t) = Retained(q)
      /\ t.cps[n] = cp
      /\ \A j \in Retained(q) : j # n => t.cps[j] = q.cps[j]
  BY <1>1, <1>3, SetFields
<1>5. q.cps[n].status = "Building"
  BY <1>2, <1>3 DEF Shape
<1>6. TxsOK(q) /\ TxOK(cp) => TxsOK(t)
  BY <1>4 DEF TxsOK
<1>7. q.index \in Nat /\ Retained(q) = 0 .. q.index
  BY DEF QueueOK, Retained
<1> QED BY <1>2, <1>4, <1>5, <1>6, <1>7 DEF Rebuilt

(* An intact queue in front of such a message.                              *)
LEMMA SetBuildingFunds ==
    ASSUME Whole, TInv', queue.len > 0, NEW cp, cp.status = "Building",
           queue' = SetCheckpoint(queue, queue.index, cp)
    PROVE  /\ Rebuilt(queue', queue, cp)
           /\ queue'.len = queue.len /\ QueueOK(queue, now) /\ QueueOK(queue', now')
           /\ TxsOK(queue) /\ TxOK(cp) => TxsOK(queue')
<1>1. QueueOK(queue, now) /\ Shape(queue) /\ Start(queue) = 0
  BY WholeParts
<1>2. QueueOK(queue', now')
  BY TInvPartsNext
<1> QED BY <1>1, <1>2, SetRebuilds

(* The values a message adds to the checkpoint being built.                 *)
LEMMA AppendTotals ==
    ASSUME NEW ins \in Seq(Input), NEW x \in Input, NEW outs \in Seq(Output), NEW y \in Output
    PROVE  /\ TotalIn(Append(ins, x)) = TotalIn(ins) + x.amount
           /\ TotalOut(Append(outs, y)) = TotalOut(outs) + y.value
           /\ Append(ins, x) \in Seq(Input) /\ Append(outs, y) \in Seq(Output)
<1>1. Append(ins, x) \in Seq(Input) /\ Append(outs, y) \in Seq(Output)
  OBVIOUS
<1>2. /\ IsJoin(Append(ins, x), ins, <<x>>) /\ <<x>> \in Seq(Input)
      /\ IsJoin(Append(outs, y), outs, <<y>>) /\ <<y>> \in Seq(Output)
  BY AppendIsJoin
<1>3. /\ TotalIn(Append(ins, x)) = TotalIn(ins) + TotalIn(<<x>>)
      /\ TotalOut(Append(outs, y)) = TotalOut(outs) + TotalOut(<<y>>)
  BY <1>1, <1>2, TotalInJoin, TotalOutJoin
<1>4. Len(<<x>>) = 1 /\ Len(<<y>>) = 1 /\ <<x>>[1] = x /\ <<y>>[1] = y /\ 1 .. 1 = {1}
  OBVIOUS
<1>5. x.amount \in Int /\ y.value \in Int
  BY DEF Input, Output
<1>6. TotalIn(<<x>>) = x.amount
  <2>1. /\ TotalIn(<<x>>) = SumFunctionOnSet(Amounts(<<x>>), 1 .. 1)
        /\ Amounts(<<x>>)[1] = x.amount
    BY <1>2, <1>4, TotalInType
  <2>2. SumFunctionOnSet(Amounts(<<x>>), {1}) = x.amount
    BY <1>5, <2>1, SumOne
  <2> QED BY <1>4, <2>1, <2>2, Zenon
<1>7. TotalOut(<<y>>) = y.value
  <2>1. /\ TotalOut(<<y>>) = SumFunctionOnSet(Values(<<y>>), 1 .. 1)
        /\ Values(<<y>>)[1] = y.value
    BY <1>2, <1>4, TotalOutType
  <2>2. SumFunctionOnSet(Values(<<y>>), {1}) = y.value
    BY <1>5, <2>1, SumOne
  <2> QED BY <1>4, <2>1, <2>2, Zenon
<1> QED BY <1>1, <1>3, <1>6, <1>7

(* relay_deposit, in time: what comes in is owed.                           *)
LEMMA RelayDepositFunds ==
    ASSUME Whole, TInv', FundsInv, NEW d \in Deposits, NEW i \in Retained(queue), NEW h,
           RelayDeposit(d, i, h)
    PROVE  FundsInv'
<1> DEFINE to   == queue.cps[i]
           fee  == UserFee(InputVsize(to.signatories), to.feeRate) * UnitsPerSat
           v    == DepositValue[d]
           tr   == [dep |-> d, amount |-> v * UnitsPerSat - fee]
           q    == GiveMinerFee(queue, fee)
           x    == NewInput(DepositOutpoint(d), to.signatories, v)
           n    == queue.index
           old  == queue.cps[n]
           new  == [Building(q) EXCEPT !.inputs = Append(@, x), !.pending = @ \cup {tr}]
<1>1. /\ d \notin processed
      /\ queue' = SetCheckpoint(q, q.index, new)
      /\ processed' = processed \cup {d} /\ feePool' = feePool + fee
      /\ supply' = supply /\ requested' = requested
  BY DEF RelayDeposit, DepositProven, SetBuilding
<1>2. QueueOK(queue, now) /\ OnePlace(queue, processed, credited, recovery)
  BY WholeParts
<1>3. queue.len > 0 /\ n \in Retained(queue)
  BY <1>2 DEF QueueOK, Retained, Start
<1>4. /\ DOMAIN Building(q) = CheckpointFields
      /\ Building(q) = WithFee(old, fee)
      /\ SetCheckpoint(q, q.index, new) = SetCheckpoint(queue, n, new)
      /\ Building(q).status = "Building"
  BY <1>3, GiveMinerFeeFields
<1>5. /\ TxsOK(queue) /\ Ledger(queue, processed, requested)
      /\ FundsOK(queue, supply, feePool, requested)
  BY DEF FundsInv
<1>6. TxOK(old) /\ TxOK(to) /\ DOMAIN old = CheckpointFields
  BY <1>2, <1>3, <1>5 DEF TxsOK, QueueOK, CheckpointOK
<1>7. v \in Nat /\ UnitsPerSat \in Nat \ {0}
  BY FundsAssumption, LimitsAssumption
<1>8. fee \in Nat
  <2>1. IsFiniteSet(to.signatories)
    BY <1>6, FundsAssumption, FS_Subset DEF TxOK
  <2>2. Cardinality(to.signatories) \in Nat /\ SigVsize \in Nat /\ WitVsize \in Nat
        /\ UserInVsize \in Nat
    BY <2>1, FS_CardinalityType, LimitsAssumption
  <2>3. InputVsize(to.signatories) \in Nat
    BY <2>2 DEF InputVsize, WitnessVsize
  <2>4. to.feeRate \in Nat
    BY <1>6 DEF TxOK
  <2> QED BY <2>3, <2>4, UserFeeType
<1>9. x \in Input /\ x.prevout = DepositOutpoint(d) /\ x.amount = v
  <2>1. x \in Input
    BY <1>6, <1>7 DEF NewInput, Input, Outpoint, TxOK
  <2> QED BY <2>1 DEF NewInput
<1>10. tr.amount = v * UnitsPerSat - fee /\ tr.dep = d /\ tr.amount \in Int
  BY <1>7, <1>8
<1>11. tr \notin old.pending
  BY <1>1, <1>2, <1>3, <1>10 DEF OnePlace
<1> HIDE DEF q, tr, x, fee, v, to
<1>12. /\ new.inputs = Append(old.inputs, x) /\ new.outputs = old.outputs
       /\ new.pending = old.pending \cup {tr} /\ new.signatories = old.signatories
       /\ new.feeRate = old.feeRate /\ new.status = "Building"
       /\ new.feesCollected = old.feesCollected + fee \div UnitsPerSat
  BY <1>4, <1>6 DEF CheckpointFields, WithFee
<1> HIDE DEF n, old, new
<1>13. /\ old.inputs \in Seq(Input) /\ old.outputs \in Seq(Output) /\ IsFiniteSet(old.pending)
       /\ old.feesCollected \in Nat /\ old.feeRate \in Nat
  BY <1>6 DEF TxOK
<1>14. TimestampOutput \in Output
  BY DEF TimestampOutput, Output, Payee
<1>15. new.inputs \in Seq(Input) /\ TotalIn(new.inputs) = TotalIn(old.inputs) + v
  BY <1>9, <1>12, <1>13, <1>14, AppendTotals
<1>16. TxOK(new)
  <2>1. fee \div UnitsPerSat \in Nat
    BY <1>7, <1>8
  <2>2. IsFiniteSet(new.pending)
    <3>1. IsFiniteSet(old.pending \cup {tr})
      BY <1>13, FS_AddElement
    <3> QED BY <1>12, <3>1
  <2>3. \A p \in new.pending : p.amount \in Int
    BY <1>6, <1>10, <1>12 DEF TxOK
  <2> QED BY <1>6, <1>12, <1>13, <1>15, <2>1, <2>2, <2>3 DEF TxOK
<1>17. queue' = SetCheckpoint(queue, queue.index, new)
  BY <1>1, <1>4 DEF n
<1>18. /\ Rebuilt(queue', queue, new) /\ queue'.len = queue.len
       /\ QueueOK(queue', now') /\ TxsOK(queue')
  BY <1>3, <1>5, <1>12, <1>16, <1>17, SetBuildingFunds
<1>19. Ledger(queue', processed', requested')
  BY <1>1, <1>5, <1>9, <1>12, <1>18, DepositLedger DEF n, old
<1>20. /\ queue'.index = n /\ queue'.cps[n] = new /\ Retained(queue') = Retained(queue)
       /\ \A j \in Retained(queue) : j # n => queue'.cps[j] = queue.cps[j]
  BY <1>18 DEF Rebuilt, n
<1>21. TransferAmount(queue', Retained(queue')) - PendingAmount(new)
         = TransferAmount(queue, Retained(queue)) - PendingAmount(old)
  <2>1. \A j \in Retained(queue) : j # n => queue'.cps[j].pending = queue.cps[j].pending
    BY <1>20
  <2> QED BY <1>2, <1>3, <1>5, <1>18, <1>20, <2>1, TransferChange DEF old
<1>22. PendingAmount(new) = PendingAmount(old) + (v * UnitsPerSat - fee)
  BY <1>6, <1>10, <1>11, <1>12, PendingAdd
<1>23. /\ TransferAmount(queue', Retained(queue')) \in Int
       /\ TransferAmount(queue, Retained(queue)) \in Int
       /\ PendingAmount(old) \in Int /\ PendingAmount(new) \in Int
       /\ TotalIn(old.inputs) \in Int /\ TotalOut(old.outputs) \in Int
  BY <1>2, <1>5, <1>6, <1>13, <1>16, <1>18, TransferType, PendingType, TotalInType, TotalOutType
<1>24. FundsOK(queue', supply', feePool', requested')
  <2>1. PICK a \in Int, b \in Int, s \in Int, s2 \in Int :
          /\ a = TransferAmount(queue, Retained(queue))
          /\ b = TransferAmount(queue', Retained(queue'))
          /\ s = TotalIn(old.inputs) - TotalOut(old.outputs)
          /\ s2 = TotalIn(new.inputs) - TotalOut(new.outputs)
    BY <1>7, <1>12, <1>15, <1>23
  <2>2. s2 = s + v
    BY <1>7, <1>12, <1>15, <1>23, <2>1
  <2>3. v * UnitsPerSat \in Int
    BY <1>7
  <2>4. b = a + (v * UnitsPerSat - fee)
    BY <1>8, <1>21, <1>22, <1>23, <2>1, <2>3
  <2>5. supply \in Int /\ feePool \in Int /\ IsFiniteSet(requested)
    BY <1>5 DEF FundsOK
  <2>6. s2 * UnitsPerSat = s * UnitsPerSat + v * UnitsPerSat /\ s * UnitsPerSat \in Int
    BY <1>7, <2>2
  <2>7. s2 * UnitsPerSat - (supply + (feePool + fee) + b) = s * UnitsPerSat - (supply + feePool + a)
    BY <1>8, <2>3, <2>4, <2>5, <2>6
  <2>8. Surplus(queue', supply, feePool + fee) = Surplus(queue, supply, feePool)
    BY <1>20, <2>1, <2>7 DEF Surplus, Net, old, n
  <2>9. ~(queue'.len = 0) /\ feePool + fee \in Int
    BY <1>3, <1>8, <1>18, <2>5
  <2> QED BY <1>1, <1>3, <1>5, <2>5, <2>8, <2>9 DEF FundsOK
<1> QED BY <1>18, <1>19, <1>24 DEF FundsInv


(* add_withdrawal pays whole satoshis: less than one of them is left over.  *)
LEMMA RoundedDown ==
    ASSUME NEW x \in Nat, NEW u \in Nat \ {0}
    PROVE  x - (x \div u) * u \in 0 .. (u - 1) /\ x \div u \in Nat
  OBVIOUS

(* withdraw_to_bitcoin: what is no longer in circulation goes out, to the   *)
(* fee pool, or is less than a satoshi.                                     *)
LEMMA WithdrawFunds ==
    ASSUME Whole, TInv', FundsInv, NEW w \in Withdrawals, WithdrawToBitcoin(w)
    PROVE  FundsInv'
<1> DEFINE n     == queue.index
           old   == queue.cps[n]
           amt   == WithdrawalAmount[w]
           fee   == UserFee(OutVsize, old.feeRate) * UnitsPerSat
           value == (amt - fee) \div UnitsPerSat
           q     == GiveMinerFee(queue, fee)
           y     == WithdrawalOutput(w, value)
           new   == [Building(q) EXCEPT !.outputs = Append(@, y)]
<1>1. /\ w \notin requested /\ queue.len > 0 /\ amt >= fee
      /\ queue' = SetCheckpoint(q, q.index, new)
      /\ processed' = processed /\ feePool' = feePool + fee
      /\ supply' = supply - amt /\ requested' = requested \cup {w}
  BY DEF WithdrawToBitcoin, SetBuilding, Building
<1>2. QueueOK(queue, now)
  BY WholeParts
<1>3. n \in Retained(queue)
  BY <1>1, <1>2 DEF QueueOK, Retained, Start
<1>4. /\ DOMAIN Building(q) = CheckpointFields
      /\ Building(q) = WithFee(old, fee)
      /\ SetCheckpoint(q, q.index, new) = SetCheckpoint(queue, n, new)
      /\ Building(q).status = "Building"
  BY <1>1, GiveMinerFeeFields
<1>5. /\ TxsOK(queue) /\ Ledger(queue, processed, requested)
      /\ FundsOK(queue, supply, feePool, requested)
  BY DEF FundsInv
<1>6. TxOK(old) /\ DOMAIN old = CheckpointFields
  BY <1>2, <1>3, <1>5 DEF TxsOK, QueueOK, CheckpointOK
<1>7. amt \in Nat /\ UnitsPerSat \in Nat \ {0} /\ OutVsize \in Nat
  BY FundsAssumption, LimitsAssumption
<1>8. fee \in Nat
  BY <1>6, <1>7, UserFeeType DEF TxOK
<1>9. PICK x \in Nat : x = amt - fee
  BY <1>1, <1>7, <1>8
<1>10. value \in Nat /\ x - value * UnitsPerSat \in 0 .. (UnitsPerSat - 1)
  BY <1>7, <1>9, RoundedDown
<1>11. y \in Output /\ y.to = <<"withdrawal", w>> /\ y.value = value
  <2> HIDE DEF value
  <2>1. y \in Output
    BY <1>10 DEF WithdrawalOutput, Output, Payee
  <2> QED BY <2>1 DEF WithdrawalOutput
<1> HIDE DEF q, y, fee, value, amt
<1>12. /\ new.outputs = Append(old.outputs, y) /\ new.inputs = old.inputs
       /\ new.pending = old.pending /\ new.signatories = old.signatories
       /\ new.feeRate = old.feeRate /\ new.status = "Building"
       /\ new.feesCollected = old.feesCollected + fee \div UnitsPerSat
  BY <1>4, <1>6 DEF CheckpointFields, WithFee
<1> HIDE DEF n, old, new
<1>13. /\ old.inputs \in Seq(Input) /\ old.outputs \in Seq(Output) /\ IsFiniteSet(old.pending)
       /\ old.feesCollected \in Nat /\ old.feeRate \in Nat
  BY <1>6 DEF TxOK
<1>14. new.outputs \in Seq(Output) /\ TotalOut(new.outputs) = TotalOut(old.outputs) + value
  <2>1. /\ IsJoin(Append(old.outputs, y), old.outputs, <<y>>) /\ <<y>> \in Seq(Output)
        /\ Append(old.outputs, y) \in Seq(Output)
    BY <1>11, <1>13, AppendIsJoin
  <2>2. PICK x0 \in Input : TRUE
    <3>1. [prevout |-> ReserveOutpoint(0), signatories |-> {}, amount |-> 0] \in Input
      BY DEF Input, Outpoint
    <3> QED BY <3>1
  <2> QED BY <1>11, <1>12, <1>13, <2>1, <2>2, AppendTotals
<1>15. TxOK(new)
  <2>1. fee \div UnitsPerSat \in Nat
    BY <1>7, <1>8
  <2> QED BY <1>6, <1>12, <1>13, <1>14, <2>1 DEF TxOK
<1>16. queue' = SetCheckpoint(queue, queue.index, new)
  BY <1>1, <1>4 DEF n
<1>17. /\ Rebuilt(queue', queue, new) /\ queue'.len = queue.len
       /\ QueueOK(queue', now') /\ TxsOK(queue')
  BY <1>1, <1>5, <1>12, <1>15, <1>16, SetBuildingFunds
<1>18. Ledger(queue', processed', requested')
  BY <1>1, <1>5, <1>11, <1>12, <1>17, WithdrawLedger DEF n, old
<1>19. /\ queue'.index = n /\ queue'.cps[n] = new /\ Retained(queue') = Retained(queue)
       /\ \A j \in Retained(queue) : j # n => queue'.cps[j] = queue.cps[j]
  BY <1>17 DEF Rebuilt, n
<1>20. TransferAmount(queue', Retained(queue')) - PendingAmount(new)
         = TransferAmount(queue, Retained(queue)) - PendingAmount(old)
  <2>1. \A j \in Retained(queue) : j # n => queue'.cps[j].pending = queue.cps[j].pending
    BY <1>19
  <2> QED BY <1>2, <1>3, <1>5, <1>17, <1>19, <2>1, TransferChange DEF old
<1>21. PendingAmount(new) = PendingAmount(old)
  BY <1>12 DEF PendingAmount
<1>22. /\ TransferAmount(queue', Retained(queue')) \in Int
       /\ TransferAmount(queue, Retained(queue)) \in Int
       /\ PendingAmount(old) \in Int
       /\ TotalIn(old.inputs) \in Int /\ TotalOut(old.outputs) \in Int
  BY <1>2, <1>5, <1>6, <1>13, <1>17, TransferType, PendingType, TotalInType, TotalOutType
<1>23. FundsOK(queue', supply', feePool', requested')
  <2>1. PICK a \in Int, s \in Int, s2 \in Int, c \in Nat :
          /\ a = TransferAmount(queue, Retained(queue))
          /\ a = TransferAmount(queue', Retained(queue'))
          /\ s = TotalIn(old.inputs) - TotalOut(old.outputs)
          /\ s2 = TotalIn(new.inputs) - TotalOut(new.outputs)
          /\ c = Cardinality(requested)
    <3>1. TransferAmount(queue', Retained(queue')) = TransferAmount(queue, Retained(queue))
      BY <1>20, <1>21, <1>22
    <3>2. TotalIn(new.inputs) - TotalOut(new.outputs) \in Int
      BY <1>10, <1>12, <1>14, <1>22
    <3>3. Cardinality(requested) \in Nat
      BY <1>5, FS_CardinalityType DEF FundsOK
    <3> QED BY <1>22, <3>1, <3>2, <3>3
  <2>2. s2 = s - value
    BY <1>10, <1>12, <1>14, <1>22, <2>1
  <2>3. supply \in Int /\ feePool \in Int /\ IsFiniteSet(requested)
    BY <1>5 DEF FundsOK
  <2>4. IsFiniteSet(requested \cup {w}) /\ Cardinality(requested \cup {w}) = c + 1
    BY <1>1, <2>1, <2>3, FS_AddElement
  <2>5. PICK vu \in Int, su \in Int : vu = value * UnitsPerSat /\ su = s * UnitsPerSat
    BY <1>7, <1>10
  <2>6. s2 * UnitsPerSat = su - vu
    BY <1>7, <1>10, <2>2, <2>5
  <2>7. su - (supply + feePool + a) \in 0 .. (c * (UnitsPerSat - 1))
    <3>1. Surplus(queue, supply, feePool) = su - (supply + feePool + a)
      BY <2>1, <2>5 DEF Surplus, Net, old, n
    <3>2. Surplus(queue, supply, feePool) \in 0 .. (c * (UnitsPerSat - 1))
      BY <1>1, <1>5, <2>1 DEF FundsOK
    <3> QED BY <3>1, <3>2
  <2>8. (c + 1) * (UnitsPerSat - 1) = c * (UnitsPerSat - 1) + (UnitsPerSat - 1)
        /\ c * (UnitsPerSat - 1) \in Int
    BY <1>7
  <2>9. s2 * UnitsPerSat - ((supply - amt) + (feePool + fee) + a)
          \in 0 .. ((c + 1) * (UnitsPerSat - 1))
    BY <1>7, <1>8, <1>9, <1>10, <2>3, <2>5, <2>6, <2>7, <2>8
  <2>10. Surplus(queue', supply', feePool')
          = s2 * UnitsPerSat - ((supply - amt) + (feePool + fee) + a)
    BY <1>1, <1>19, <2>1 DEF Surplus, Net
  <2>11. ~(queue'.len = 0) /\ feePool' \in Int /\ supply' \in Int
    BY <1>1, <1>7, <1>8, <1>17, <2>3
  <2>12. /\ IsFiniteSet(requested') /\ Cardinality(requested') = c + 1
    BY <1>1, <2>4
  <2> QED BY <2>9, <2>10, <2>11, <2>12 DEF FundsOK
<1> QED BY <1>17, <1>18, <1>23 DEF FundsInv


(* What is owed and what backs it depend on the transactions and on the     *)
(* transfers only.                                                          *)
LEMMA SameFunds ==
    ASSUME NEW q, NEW u, QueueOK(q, u), TxsOK(q), NEW t, NEW u2, QueueOK(t, u2), TxsOK(t),
           SameTxs(t, q), Cleared(t, q, {}), t.len = q.len, q.len > 0,
           NEW sup, NEW pool, NEW req, FundsOK(q, sup, pool, req)
    PROVE  FundsOK(t, sup, pool, req)
<1>1. Retained(t) = Retained(q) /\ t.index = q.index /\ q.index \in Retained(q)
  BY DEF SameTxs, QueueOK, Retained, Start
<1>2. TransferAmount(t, Retained(q)) = SumFunctionOnSet(Pending(q), Retained(q) \ {})
  BY TransferCleared
<1>3. TransferAmount(q, Retained(q)) = SumFunctionOnSet(Pending(q), Retained(q))
  BY TransferType
<1>4. TransferAmount(t, Retained(t)) = TransferAmount(q, Retained(q))
  <2>1. Retained(q) \ {} = Retained(q)
    OBVIOUS
  <2> QED BY <1>1, <1>2, <1>3, <2>1, Zenon
<1>5. Net(t) = Net(q)
  BY <1>1 DEF Net, SameTxs, SameTx
<1>6. Surplus(t, sup, pool) = Surplus(q, sup, pool)
  BY <1>4, <1>5 DEF Surplus
<1> QED BY <1>6 DEF FundsOK

(* submit_checkpoint_signature: no transaction changes.                     *)
LEMMA SignatureFunds ==
    ASSUME Whole, TInv', FundsInv, NEW s \in Signers, NEW i \in Retained(queue), NEW h,
           SubmitCheckpointSignature(s, i, h)
    PROVE  FundsInv'
<1> DEFINE cp  == queue.cps[i]
           at  == IF BecomesSigned(cp, s) THEN h ELSE cp.signedAt
           st  == IF cp.status = "Signing" /\ TxSigned(cp.inputs, cp.sigs \cup {s})
                  THEN "Complete" ELSE cp.status
           new == [cp EXCEPT !.sigs = cp.sigs \cup {s}, !.signedAt = at, !.status = st]
<1>1. /\ cp.status # "Building"
      /\ UNCHANGED <<feePool, processed, supply, requested>>
  BY DEF SubmitCheckpointSignature
<1>2. /\ QueueOK(queue, now) /\ (queue.len > 0 => Start(queue) = 0)
      /\ TxsOK(queue) /\ Ledger(queue, processed, requested)
      /\ FundsOK(queue, supply, feePool, requested)
  BY WholeParts DEF FundsInv
<1>3. CheckpointOK(cp, now) /\ TxOK(cp)
  BY <1>2 DEF QueueOK, TxsOK
<1>4. DOMAIN cp = CheckpointFields
  BY <1>3 DEF CheckpointOK
<1>5. queue' = SetCheckpoint(queue, i, new)
  <2>1. queue' = SetCheckpoint(queue, i,
                [cp EXCEPT !.sigs = cp.sigs \cup {s},
                           !.signedAt = IF BecomesSigned(cp, s) THEN h ELSE @,
                           !.status = IF @ = "Signing" /\ TxSigned(cp.inputs, cp.sigs \cup {s})
                                      THEN "Complete" ELSE @])
    BY DEF SubmitCheckpointSignature
  <2> QED BY <1>4, <2>1 DEF CheckpointFields
<1>6. st # "Building"
  BY <1>1
<1> HIDE DEF cp, at, st
<1>7. /\ new.status = st /\ new.pending = cp.pending
      /\ new.inputs = cp.inputs /\ new.outputs = cp.outputs
      /\ new.signatories = cp.signatories /\ new.feeRate = cp.feeRate
      /\ new.feesCollected = cp.feesCollected
  BY <1>4 DEF CheckpointFields
<1> HIDE DEF new
<1>8. TxOK(new) /\ SameTx(new, cp)
  BY <1>1, <1>3, <1>6, <1>7 DEF TxOK, SameTx
<1>9. Start(queue) = 0 /\ DOMAIN queue.cps = Retained(queue) /\ queue.len > 0
  BY <1>2 DEF QueueOK, Retained, Start
<1>10. /\ queue'.index = queue.index /\ queue'.len = queue.len
       /\ Retained(queue') = Retained(queue)
       /\ queue'.cps[i] = new
       /\ \A j \in Retained(queue) : j # i => queue'.cps[j] = queue.cps[j]
  BY <1>5, <1>9, SetFields
<1>11. SameTxs(queue', queue)
  <2>1. \A c : SameTx(c, c)
    BY DEF SameTx
  <2> QED BY <1>8, <1>10, <2>1 DEF SameTxs, cp
<1>12. TxsOK(queue')
  BY <1>2, <1>8, <1>10 DEF TxsOK
<1>13. Cleared(queue', queue, {})
  BY <1>7, <1>10 DEF Cleared, cp
<1>14. Ledger(queue', processed', requested')
  BY <1>1, <1>2, <1>11, SameLedger
<1>15. QueueOK(queue', now')
  BY TInvPartsNext
<1>16. FundsOK(queue', supply', feePool', requested')
  BY <1>1, <1>2, <1>9, <1>10, <1>11, <1>12, <1>13, <1>15, SameFunds
<1> QED BY <1>12, <1>14, <1>16 DEF FundsInv

(* relay_deposit, expired: the deposit is marked, and nothing comes in.     *)
LEMMA RelayExpiredFunds ==
    ASSUME Whole, FundsInv, NEW d, NEW i, NEW h, RelayExpiredDeposit(d, i, h)
    PROVE  FundsInv'
<1>1. /\ queue' = queue /\ processed' = processed \cup {d}
      /\ UNCHANGED <<supply, feePool, requested>>
  BY DEF RelayExpiredDeposit
<1>2. /\ TxsOK(queue) /\ Ledger(queue, processed, requested)
      /\ FundsOK(queue, supply, feePool, requested)
  BY DEF FundsInv
<1>3. SameTxs(queue, queue)
  BY DEF SameTxs, SameTx
<1>4. Ledger(queue, processed \cup {d}, requested)
  BY <1>2, <1>3, SameLedger
<1> QED BY <1>1, <1>2, <1>4 DEF FundsInv

(* A step that leaves the queue and the amounts alone.                      *)
LEMMA OtherFunds ==
    ASSUME FundsInv, UNCHANGED <<queue, processed, supply, feePool, requested>>
    PROVE  FundsInv'
  BY DEF FundsInv


-----------------------------------------------------------------------------
(* clock_end_block                                                          *)

(* A checkpoint without its transfers.                                      *)
LEMMA UntakenTx ==
    ASSUME NEW new, NEW old, Untaken(new, old), TxOK(old),
           new.pending \subseteq old.pending
    PROVE  TxOK(new) /\ SameTx(new, old)
<1>1. SameTx(new, old)
  BY DEF SameTx, Untaken
<1>2. IsFiniteSet(new.pending)
  BY FS_Subset DEF TxOK
<1> QED BY <1>1, <1>2 DEF TxOK, Untaken

(* The nBTC minted by the end block is what waited in the checkpoints that  *)
(* take_pending_completed empties, each counted once.                       *)
LEMMA TakenSum ==
    ASSUME Whole, TInv, TxsOK(queue), TakeSucceeds(queue)
    PROVE  TakenAmount(queue) = SumFunctionOnSet(Pending(queue), TakenFrom(queue))
<1> DEFINE r == AfterConfirmed(queue)
           U == UnhandledConfirmed(queue)
           C == UnconfirmedCompleted(queue)
           f == Pending(queue)
           R == Retained(queue)
<1>1. QueueOK(queue, now) /\ (queue.len > 0 => Start(queue) = 0)
  BY WholeParts
<1>2. /\ TakenFrom(queue) \subseteq R /\ TakenFrom(queue) = U \cup C
      /\ ~HasCompleted(queue) => TakenFrom(queue) = {}
      /\ UnconfirmedCompleted(r) = C
      /\ LastCompleted(r) = LastCompleted(queue)
  BY TakenRange DEF TakenFrom
<1>3. U \subseteq R /\ C \subseteq R
  BY <1>2
<1>4. TakenAmount(queue) = IF HasCompleted(queue)
                           THEN TransferAmount(queue, U) + TransferAmount(r, C)
                           ELSE 0
  BY <1>2 DEF TakenAmount, HasCompleted
<1>5. QueueOK(r, now) /\ r = ClearPending(queue, U)
  BY <1>1, <1>3, ClearType DEF AfterConfirmed
<1> HIDE DEF r, U, C
<1>6. /\ Retained(r) = R
      /\ \A j \in R :
            /\ Untaken(r.cps[j], queue.cps[j])
            /\ r.cps[j].pending = IF j \in U THEN {} ELSE queue.cps[j].pending
  BY <1>1, <1>5, ClearFields
<1>7. Cleared(r, queue, U)
  BY <1>3, <1>6 DEF Cleared
<1>8. TxsOK(r)
  <2> SUFFICES ASSUME NEW j \in R PROVE TxOK(r.cps[j])
    BY <1>6 DEF TxsOK
  <2>1. Untaken(r.cps[j], queue.cps[j]) /\ r.cps[j].pending \subseteq queue.cps[j].pending
    BY <1>6
  <2>2. TxOK(queue.cps[j])
    BY DEF TxsOK
  <2> QED BY <2>1, <2>2, UntakenTx
<1>9. TransferAmount(r, C) = SumFunctionOnSet(f, C \ U)
  BY <1>1, <1>3, <1>5, <1>7, <1>8, TransferCleared
<1>10. /\ TransferAmount(queue, U) = SumFunctionOnSet(f, U)
       /\ IsFiniteSet(U) /\ IsFiniteSet(C)
       /\ \A j \in R : f[j] \in Int
  BY <1>1, <1>3, TransferType
<1>11. /\ IsFiniteSet(C \ U) /\ U \cap (C \ U) = {} /\ U \cup (C \ U) = TakenFrom(queue)
       /\ \A j \in U \cup (C \ U) : f[j] \in Int
  BY <1>2, <1>3, <1>10, FS_Subset
<1> HIDE DEF f
<1>12. SumFunctionOnSet(f, U \cup (C \ U)) = SumFunctionOnSet(f, U) + SumFunctionOnSet(f, C \ U)
  BY <1>10, <1>11, SumUnion
<1>13. SumFunctionOnSet(f, TakenFrom(queue)) = SumFunctionOnSet(f, U \cup (C \ U))
  BY <1>11, Zenon
<1>14. CASE HasCompleted(queue)
  BY <1>4, <1>9, <1>10, <1>12, <1>13, <1>14 DEF f
<1>15. CASE ~HasCompleted(queue)
  <2>1. SumFunctionOnSet(f, {}) = 0
    BY SumEmpty
  <2>2. SumFunctionOnSet(f, TakenFrom(queue)) = 0
    BY <1>2, <1>15, <2>1
  <2> QED BY <1>4, <1>15, <2>2 DEF f
<1> QED BY <1>14, <1>15

(* take_pending_completed pays what waited: transfers become supply.        *)
LEMMA TakeFunds ==
    ASSUME Whole, TInv, FundsInv, TakeSucceeds(queue), NEW q, q = AfterTake(queue)
    PROVE  /\ TxsOK(q) /\ Ledger(q, processed, requested)
           /\ FundsOK(q, supply + TakenAmount(queue), feePool, requested)
<1> DEFINE S == TakenFrom(queue)
           R == Retained(queue)
           f == Pending(queue)
<1>1. /\ QueueOK(queue, now) /\ TxsOK(queue) /\ Ledger(queue, processed, requested)
      /\ FundsOK(queue, supply, feePool, requested)
  BY WholeParts DEF FundsInv
<1>2. S \subseteq R /\ (~HasCompleted(queue) => S = {})
  BY TakenRange
<1>3. /\ q.index = queue.index /\ q.len = queue.len /\ Retained(q) = R
      /\ \A j \in R : Untaken(q.cps[j], queue.cps[j])
      /\ \A j \in R : q.cps[j].pending = IF j \in S THEN {} ELSE queue.cps[j].pending
  BY AfterTakeFields
<1>4. QueueOK(q, now)
  BY TakeType
<1>5. \A j \in R : TxOK(q.cps[j]) /\ SameTx(q.cps[j], queue.cps[j])
  <2> TAKE j \in R
  <2>1. Untaken(q.cps[j], queue.cps[j]) /\ q.cps[j].pending \subseteq queue.cps[j].pending
    BY <1>3
  <2>2. TxOK(queue.cps[j])
    BY <1>1 DEF TxsOK
  <2> QED BY <2>1, <2>2, UntakenTx
<1>6. TxsOK(q) /\ SameTxs(q, queue) /\ Cleared(q, queue, S)
  BY <1>2, <1>3, <1>5 DEF TxsOK, SameTxs, Cleared
<1>7. Ledger(q, processed, requested)
  BY <1>1, <1>6, SameLedger
<1>8. TakenAmount(queue) = SumFunctionOnSet(f, S)
  BY <1>1, TakenSum
<1>9. TransferAmount(q, R) = SumFunctionOnSet(f, R \ S)
  BY <1>1, <1>4, <1>6, TransferCleared
<1>10. /\ TransferAmount(queue, R) = SumFunctionOnSet(f, R)
       /\ IsFiniteSet(S) /\ IsFiniteSet(R)
       /\ \A j \in R : f[j] \in Int
  BY <1>1, <1>2, TransferType
<1>11. /\ IsFiniteSet(R \ S) /\ S \cap (R \ S) = {} /\ S \cup (R \ S) = R
       /\ \A j \in S \cup (R \ S) : f[j] \in Int
       /\ \A j \in S : f[j] \in Int
       /\ \A j \in R \ S : f[j] \in Int
  BY <1>2, <1>10, FS_Subset
<1>12. q.len > 0 => Net(q) = Net(queue)
  <2>1. q.len > 0 => q.index \in R
    BY <1>3, <1>4 DEF QueueOK, Retained, Start
  <2> QED BY <1>3, <1>5, <2>1 DEF Net, SameTx
<1>13. queue.len = 0 => R = {}
  BY <1>1 DEF QueueOK, Retained, Start
<1> HIDE DEF f, S, R
<1>14. SumFunctionOnSet(f, S \cup (R \ S)) = SumFunctionOnSet(f, S) + SumFunctionOnSet(f, R \ S)
  BY <1>10, <1>11, SumUnion
<1>15. SumFunctionOnSet(f, R) = SumFunctionOnSet(f, S \cup (R \ S))
  BY <1>11, Zenon
<1>16. SumFunctionOnSet(f, S) \in Int /\ SumFunctionOnSet(f, R \ S) \in Int
  BY <1>10, <1>11, SumInt
<1>17. PICK a \in Int, b \in Int :
         /\ a = TakenAmount(queue) /\ b = TransferAmount(q, Retained(q))
         /\ a + b = TransferAmount(queue, Retained(queue))
  BY <1>3, <1>8, <1>9, <1>10, <1>14, <1>15, <1>16 DEF R
<1>18. supply \in Int /\ feePool \in Int /\ IsFiniteSet(requested)
  BY <1>1 DEF FundsOK
<1>19. CASE q.len = 0
  <2>1. S = {}
    BY <1>2, <1>3, <1>13, <1>19
  <2>2. SumFunctionOnSet(f, {}) = 0
    BY SumEmpty
  <2>3. a = 0
    BY <1>8, <1>17, <2>1, <2>2
  <2> QED BY <1>1, <1>3, <1>6, <1>7, <1>17, <1>18, <1>19, <2>3 DEF FundsOK
<1>20. CASE q.len # 0
  <2>1. q.len > 0
    BY <1>4, <1>20 DEF QueueOK
  <2>2. supply + a + feePool + b = supply + feePool + (a + b)
    BY <1>17, <1>18
  <2>3. Surplus(q, supply + a, feePool) = Surplus(queue, supply, feePool)
    BY <1>12, <1>17, <2>1, <2>2 DEF Surplus
  <2>4. supply + a \in Int
    BY <1>17, <1>18
  <2>5. FundsOK(q, supply + a, feePool, requested)
    BY <1>1, <1>3, <1>18, <1>20, <2>1, <2>3, <2>4 DEF FundsOK
  <2> QED BY <1>6, <1>7, <1>17, <2>5
<1> QED BY <1>19, <1>20

(* clock_end_block without a push.                                          *)
LEMMA EndBlockQuietFunds ==
    ASSUME Whole, TInv, FundsInv, EndBlockQuiet
    PROVE  FundsInv'
<1>1. /\ TakeSucceeds(queue) /\ queue' = AfterTake(queue)
      /\ supply' = supply + TakenAmount(queue)
      /\ UNCHANGED <<feePool, processed, requested>>
  BY DEF EndBlockQuiet, TakePendingCompleted
<1>2. /\ TxsOK(queue') /\ Ledger(queue', processed, requested)
      /\ FundsOK(queue', supply + TakenAmount(queue), feePool, requested)
  BY <1>1, TakeFunds
<1> QED BY <1>1, <1>2 DEF FundsInv


(* The reserve output of the frozen transaction, with the inputs and        *)
(* outputs handed on, is what the checkpoint had left, less the miner fee.  *)
LEMMA PushNet ==
    ASSUME NEW t, NEW q, NEW fee, PushedFunds(t, q, fee), t.index > 0
    PROVE  Net(q) \in Int /\ fee \in Nat /\ Net(t) = Net(q) - fee
<1> DEFINE n    == t.index
           prev == q.cps[n - 1]
           v    == ReserveValue(prev, fee)
           x    == NewInput(ReserveOutpoint(n - 1), prev.signatories, v)
           X    == ExcessInputs(prev)
           Y    == ExcessOutputs(prev)
<1>1. /\ n \in Nat /\ q.index = n - 1 /\ fee \in Nat /\ TxOK(prev)
      /\ AdvancedOK(prev, fee, t.cps[n - 1]) /\ v \in Nat
      /\ t.cps[n].inputs = <<x>> \o X /\ t.cps[n].outputs = Y
  BY DEF PushedFunds
<1>2. /\ X \in Seq(Input) /\ Y \in Seq(Output)
      /\ v + TotalIn(X) - TotalOut(Y) = TotalIn(prev.inputs) - TotalOut(prev.outputs) - fee
  BY <1>1 DEF AdvancedOK
<1>3. n - 1 \in Nat
  BY <1>1
<1>4. x \in Input /\ x.amount = v
  <2>1. x \in Input
    BY <1>1, <1>3, NextInputsType
  <2> QED BY <2>1 DEF NewInput
<1>5. Net(q) = TotalIn(prev.inputs) - TotalOut(prev.outputs)
  BY <1>1 DEF Net
<1>6. Net(t) = TotalIn(<<x>> \o X) - TotalOut(Y)
  BY <1>1 DEF Net
<1>7. prev.inputs \in Seq(Input) /\ prev.outputs \in Seq(Output)
  BY <1>1 DEF TxOK
<1> HIDE DEF n, prev, v, x, X, Y
<1>8. <<x>> \in Seq(Input) /\ <<x>> \o X \in Seq(Input)
  BY <1>2, <1>4
<1>9. TotalIn(<<x>> \o X) = TotalIn(<<x>>) + TotalIn(X)
  <2>1. IsJoin(<<x>> \o X, <<x>>, X)
    BY <1>2, <1>8, ConcatIsJoin
  <2> QED BY <1>2, <1>8, <2>1, TotalInJoin
<1>10. TotalIn(<<x>>) = v
  <2>1. Len(<<x>>) = 1 /\ <<x>>[1] = x /\ 1 .. 1 = {1}
    OBVIOUS
  <2>2. /\ TotalIn(<<x>>) = SumFunctionOnSet(Amounts(<<x>>), 1 .. 1)
        /\ Amounts(<<x>>)[1] = v
    BY <1>4, <1>8, <2>1, TotalInType
  <2>3. v \in Int
    BY <1>1
  <2>4. SumFunctionOnSet(Amounts(<<x>>), {1}) = v
    BY <2>2, <2>3, SumOne
  <2> QED BY <2>1, <2>2, <2>4, Zenon
<1>11. /\ TotalIn(X) \in Nat /\ TotalOut(Y) \in Nat
       /\ TotalIn(prev.inputs) \in Nat /\ TotalOut(prev.outputs) \in Nat
  BY <1>2, <1>7, TotalInType, TotalOutType
<1> QED BY <1>1, <1>2, <1>5, <1>6, <1>9, <1>10, <1>11

(* No transfer is added or lost by a push.                                  *)
LEMMA PushTransfers ==
    ASSUME NEW t, NEW q, NEW fee, PushedFunds(t, q, fee),
           NEW u, QueueOK(q, u), TxsOK(q), NEW u2, QueueOK(t, u2), TxsOK(t)
    PROVE  TransferAmount(t, Retained(t)) = TransferAmount(q, Retained(q))
<1> DEFINE n == t.index
           f == Pending(q)
           g == Pending(t)
<1>1. /\ n \in Nat /\ Retained(t) = 0 .. n /\ Retained(q) = 0 .. (n - 1)
      /\ \A j \in 0 .. (n - 2) : t.cps[j] = q.cps[j]
      /\ t.cps[n].pending = {} /\ TxOK(t.cps[n])
      /\ n > 0 => t.cps[n - 1].pending = q.cps[n - 1].pending
  BY DEF PushedFunds, AdvancedOK
<1>2. /\ TransferAmount(q, Retained(q)) = SumFunctionOnSet(f, Retained(q))
      /\ IsFiniteSet(Retained(q))
      /\ \A j \in Retained(q) : f[j] = PendingAmount(q.cps[j])
  BY TransferType
<1>3. /\ TransferAmount(t, Retained(t)) = SumFunctionOnSet(g, Retained(t))
      /\ \A j \in Retained(t) : g[j] = PendingAmount(t.cps[j])
      /\ \A j \in Retained(t) : g[j] \in Int
  BY TransferType
<1>4. \A j \in 0 .. (n - 1) : f[j] = g[j]
  <2> TAKE j \in 0 .. (n - 1)
  <2>1. t.cps[j].pending = q.cps[j].pending
    <3>1. CASE j = n - 1
      BY <1>1, <3>1
    <3>2. CASE j \in 0 .. (n - 2)
      BY <1>1, <3>2
    <3> QED BY <1>1, <3>1, <3>2
  <2>2. PendingAmount(t.cps[j]) = PendingAmount(q.cps[j])
    BY <2>1 DEF PendingAmount
  <2>3. j \in Retained(t) /\ j \in Retained(q)
    BY <1>1
  <2> QED BY <1>2, <1>3, <2>2, <2>3
<1>5. g[n] = 0 /\ n \in Retained(t)
  BY <1>1, <1>3, PendingType
<1> HIDE DEF f, g
<1>6. PICK m \in Int : m = n - 1
  BY <1>1
<1>7. /\ SumFunctionOnSet(g, 0 .. n) = SumFunctionOnSet(g, 0 .. m) + g[n]
      /\ SumFunctionOnSet(g, 0 .. m) \in Int
  <2>1. \A k \in 0 .. n : g[k] \in Int
    BY <1>1, <1>3
  <2>2. n = m + 1 /\ 0 <= n /\ 0 \in Int /\ n \in Int
    BY <1>1, <1>6
  <2> HIDE DEF n
  <2> QED BY <1>6, <2>1, <2>2, SumLast
<1>8. SumFunctionOnSet(f, 0 .. m) = SumFunctionOnSet(g, 0 .. m)
  <2>1. IsFiniteSet(0 .. m) /\ \A k \in 0 .. m : f[k] = g[k]
    BY <1>1, <1>2, <1>4, <1>6
  <2> QED BY <2>1, SumSame
<1>9. Retained(t) = 0 .. n /\ Retained(q) = 0 .. m
  BY <1>1, <1>6
<1>10. /\ TransferAmount(q, Retained(q)) = SumFunctionOnSet(f, 0 .. m)
       /\ TransferAmount(t, Retained(t)) = SumFunctionOnSet(g, 0 .. n)
  BY <1>2, <1>3, <1>9, Zenon
<1> HIDE DEF n
<1> QED BY <1>5, <1>7, <1>8, <1>10

(* A push takes the miner fee from the reserve and from the fee pool.       *)
LEMMA PushSurplus ==
    ASSUME NEW t, NEW q, NEW fee, PushedFunds(t, q, fee),
           NEW u, QueueOK(q, u), TxsOK(q), NEW u2, QueueOK(t, u2), TxsOK(t),
           NEW sup, NEW pool, NEW req, FundsOK(q, sup, pool, req)
    PROVE  FundsOK(t, sup, pool - fee * UnitsPerSat, req)
<1>1. UnitsPerSat \in Nat \ {0}
  BY LimitsAssumption
<1>2. sup \in Int /\ pool \in Int /\ IsFiniteSet(req)
  BY DEF FundsOK
<1>3. PICK a \in Int : a = TransferAmount(t, Retained(t)) /\ a = TransferAmount(q, Retained(q))
  BY PushTransfers, TransferType
<1>4. /\ t.index \in Nat /\ Retained(t) = 0 .. t.index /\ Retained(q) = 0 .. (t.index - 1)
      /\ t.index > 0 => q.index = t.index - 1
  BY DEF PushedFunds
<1>5. t.len \in Nat /\ t.len > 0
  BY <1>4 DEF QueueOK, Retained, Start
<1>6. CASE t.index = 0
  <2>1. fee = 0 /\ t.cps[0].inputs = <<>> /\ t.cps[0].outputs = <<>>
    BY <1>6 DEF PushedFunds
  <2>2. q.len = 0
    BY <1>4, <1>6 DEF QueueOK, Retained, Start
  <2>3. sup + pool = 0
    BY <2>2 DEF FundsOK
  <2>4. Net(t) = 0
    <3>1. <<>> \in Seq(Input) /\ <<>> \in Seq(Output) /\ Len(<<>>) = 0 /\ 1 .. 0 = {}
      OBVIOUS
    <3>2. /\ TotalIn(<<>>) = SumFunctionOnSet(Amounts(<<>>), 1 .. 0)
          /\ TotalOut(<<>>) = SumFunctionOnSet(Values(<<>>), 1 .. 0)
      BY <3>1, TotalInType, TotalOutType
    <3>3. SumFunctionOnSet(Amounts(<<>>), {}) = 0 /\ SumFunctionOnSet(Values(<<>>), {}) = 0
      BY SumEmpty
    <3>4. TotalIn(<<>>) = 0 /\ TotalOut(<<>>) = 0
      BY <3>1, <3>2, <3>3, Zenon
    <3> QED BY <1>6, <2>1, <3>4 DEF Net
  <2>5. a = 0
    <3>1. Retained(q) = {}
      BY <1>4, <1>6
    <3>2. TransferAmount(q, {}) = SumFunctionOnSet(Pending(q), {})
      BY <3>1, TransferType
    <3> QED BY <1>3, <3>1, <3>2, SumEmpty
  <2>6. Surplus(t, sup, pool - fee * UnitsPerSat) = 0
    <3>1. pool - fee * UnitsPerSat = pool
      BY <1>1, <1>2, <2>1
    <3>2. 0 * UnitsPerSat - (sup + pool + 0) = 0
      BY <1>1, <1>2, <2>3
    <3> QED BY <1>3, <2>4, <2>5, <3>1, <3>2 DEF Surplus
  <2>7. Cardinality(req) * (UnitsPerSat - 1) \in Nat
    BY <1>1, <1>2, FS_CardinalityType
  <2>8. pool - fee * UnitsPerSat \in Int
    BY <1>1, <1>2, <2>1
  <2> QED BY <1>2, <1>5, <2>6, <2>7, <2>8 DEF FundsOK
<1>7. CASE t.index > 0
  <2>1. PICK s \in Int : s = Net(q) /\ fee \in Nat /\ Net(t) = s - fee
    BY <1>7, PushNet
  <2>2. PICK su \in Int, fu \in Int : su = s * UnitsPerSat /\ fu = fee * UnitsPerSat
    BY <1>1, <2>1
  <2>3. (s - fee) * UnitsPerSat = su - fu
    BY <1>1, <2>1, <2>2
  <2>4. su - fu - (sup + (pool - fu) + a) = su - (sup + pool + a)
    BY <1>2, <1>3, <2>2
  <2>5. Surplus(t, sup, pool - fu) = Surplus(q, sup, pool)
    BY <1>3, <2>1, <2>2, <2>3, <2>4 DEF Surplus
  <2>6. q.len > 0
    BY <1>4, <1>7 DEF QueueOK, Retained, Start
  <2>7. pool - fu \in Int
    BY <1>2, <2>2
  <2>8. FundsOK(t, sup, pool - fu, req)
    BY <1>2, <1>5, <2>5, <2>6, <2>7 DEF FundsOK
  <2> QED BY <2>2, <2>8
<1> QED BY <1>4, <1>6, <1>7

(* An end block with a push that prunes nothing, step by step: q is the     *)
(* queue without the transfers paid, b whether the new checkpoint accepts   *)
(* deposits, and r the queue with it.                                       *)
PushStep(q, b, r) ==
    /\ Whole /\ FundsInv /\ TakeSucceeds(queue) /\ q = AfterTake(queue)
    /\ QueueOK(q, now) /\ RestOK /\ Shape(q) /\ (q.len > 0 => Start(q) = 0)
    /\ ShouldPush(q) /\ ShouldPushSucceeds(q)
    /\ b \in BOOLEAN /\ r = PrunedFrom(Pushed(q, b), 0) /\ StepSucceeds(r)
    /\ queue' = Stepped(r)
    /\ feePool' = feePool - FeesPaid(r) * UnitsPerSat
    /\ supply' = supply + TakenAmount(queue)
    /\ processed' = processed /\ requested' = requested
    /\ TxsOK(q) /\ PushedFunds(queue', q, FeesPaid(r))

(* A block that pushes a checkpoint and leaves the queue intact found it    *)
(* intact, and is made of those steps.                                      *)
LEMMA PushParts ==
    ASSUME TInv, TInv', Intact => Whole /\ FundsInv, EndBlockPush, Intact'
    PROVE  \E q, b, r : PushStep(q, b, r)
<1> DEFINE q == AfterTake(queue)
           b == ~ReachedCapacity(q)
           p == Pushed(q, b)
<1>1. PICK i \in Retained(p) :
        /\ IsPrunedStart(p, i)
        /\ StepSucceeds(PrunedFrom(p, i))
        /\ queue' = Stepped(PrunedFrom(p, i))
        /\ feePool' = feePool - FeesPaid(PrunedFrom(p, i)) * UnitsPerSat
  BY DEF EndBlockPush
<1>2. /\ TakeSucceeds(queue) /\ supply' = supply + TakenAmount(queue)
      /\ processed' = processed /\ requested' = requested
      /\ ShouldPush(q) /\ ShouldPushSucceeds(q)
  BY DEF EndBlockPush, TakePendingCompleted
<1>3. QueueOK(q, now) /\ q.index = queue.index /\ q.len = queue.len
  BY <1>2, TakeType
<1>4. QueueOK(queue, now) /\ RestOK
  BY TInvParts
<1>5. b \in BOOLEAN
  OBVIOUS
<1>6. q = AfterTake(queue)
  OBVIOUS
<1> HIDE DEF q, b
<1>7. queue'.len > 0 /\ Start(queue') = i
  BY <1>1, <1>3, <1>4, <1>5, PushType
<1>8. i = 0
  <2>1. queue'.len > 0 => Start(queue') = 0
    BY DEF Intact, Start
  <2> QED BY <1>7, <2>1
<1>9. q.len > 0 => Start(q) = 0
  <2>1. p.index = NextIndex(q) /\ p.len = q.len + 1
    BY <1>3, <1>4, <1>5, PushedType
  <2>2. q.index \in Nat /\ q.len \in 0 .. (q.index + 1)
    BY <1>3 DEF QueueOK
  <2>3. Start(p) <= 0
    BY <1>1, <1>8, <2>1, <2>2 DEF Retained
  <2> QED BY <2>1, <2>2, <2>3 DEF Start, NextIndex
<1>10. Intact
  BY <1>3, <1>9 DEF Intact, Start
<1>11. Whole /\ FundsInv
  BY <1>10
<1>12. TxsOK(q)
  BY <1>2, <1>6, <1>11, TakeFunds
<1>13. Shape(q)
  BY <1>2, <1>6, <1>11, AfterTakeInv
<1> HIDE DEF p
<1>14. PICK r : /\ r = PrunedFrom(p, 0) /\ StepSucceeds(r) /\ queue' = Stepped(r)
                /\ feePool' = feePool - FeesPaid(r) * UnitsPerSat
  BY <1>1, <1>8
<1>15. PushedFunds(queue', q, FeesPaid(r))
  BY <1>3, <1>4, <1>5, <1>9, <1>12, <1>13, <1>14, PushFunds DEF p
<1>16. PushStep(q, b, r)
  BY <1>2, <1>3, <1>4, <1>5, <1>6, <1>9, <1>11, <1>12, <1>13, <1>14, <1>15 DEF PushStep, p
<1> QED BY <1>16

(* clock_end_block with a push that prunes nothing.                         *)
LEMMA EndBlockPushFunds ==
    ASSUME TInv, TInv', Intact => Whole /\ FundsInv, EndBlockPush, Intact'
    PROVE  FundsInv'
<1>1. PICK q, b, r : PushStep(q, b, r)
  BY PushParts
<1> DEFINE sup == supply + TakenAmount(queue)
<1>2. /\ Whole /\ FundsInv /\ TakeSucceeds(queue) /\ q = AfterTake(queue)
      /\ QueueOK(q, now) /\ PushedFunds(queue', q, FeesPaid(r))
      /\ supply' = sup /\ feePool' = feePool - FeesPaid(r) * UnitsPerSat
      /\ processed' = processed /\ requested' = requested
  BY <1>1 DEF PushStep
<1>3. QueueOK(queue', now')
  BY TInvPartsNext
<1>4. /\ TxsOK(q) /\ Ledger(q, processed, requested)
      /\ FundsOK(q, sup, feePool, requested)
  BY <1>2, TakeFunds
<1> HIDE DEF sup
<1>5. Ledger(queue', processed, requested) /\ TxsOK(queue')
  BY <1>2, <1>4, PushLedger
<1>6. FundsOK(queue', sup, feePool - FeesPaid(r) * UnitsPerSat, requested)
  BY <1>2, <1>3, <1>4, <1>5, PushSurplus
<1> QED BY <1>2, <1>5, <1>6 DEF FundsInv

-----------------------------------------------------------------------------
(* The inductive invariant.                                                 *)
FInv == IInv /\ (Intact => FundsInv)

(* The state that instantiate leaves owes nothing.                          *)
LEMMA InitFInv == Init => FInv
<1> SUFFICES ASSUME Init PROVE FInv
  OBVIOUS
<1>1. IInv
  BY InitIInv
<1>2. queue.len = 0 /\ Retained(queue) = {}
  BY DEF Init, Retained, Start
<1>3. TxsOK(queue) /\ Ledger(queue, processed, requested)
  BY <1>2 DEF TxsOK, Ledger, Chained, FeesRight, HasExtras, Sourced, SpentOnce,
              Destined, PaidOnce
<1>4. FundsOK(queue, supply, feePool, requested)
  <2>1. supply = 0 /\ feePool = 0 /\ requested = {}
    BY DEF Init
  <2>2. IsFiniteSet(requested)
    BY <2>1, FS_EmptySet
  <2> QED BY <1>2, <2>1, <2>2 DEF FundsOK
<1> QED BY <1>1, <1>3, <1>4 DEF FInv, FundsInv

(* Every message, every end block and every step of the outside keeps it.   *)
LEMMA NextFInv == FInv /\ [Next]_vars => FInv'
<1> SUFFICES ASSUME FInv, [Next]_vars PROVE FInv'
  OBVIOUS
<1>1. IInv /\ IInv'
  BY NextIInv DEF FInv
<1>2. TInv /\ TInv'
  BY <1>1 DEF IInv
<1> SUFFICES ASSUME Intact' PROVE FundsInv'
  BY <1>1 DEF FInv
<1>3. Intact => Whole /\ FundsInv
  BY DEF FInv, IInv
<1>4. ASSUME NEW d \in Deposits, NEW i \in Retained(queue), NEW h \in 0 .. height,
             RelayDeposit(d, i, h)
      PROVE  FundsInv'
  <2>1. queue'.index = queue.index /\ queue'.len = queue.len
    <3>1. \E units, cp : queue' = SetBuilding(GiveMinerFee(queue, units), cp)
      BY <1>4 DEF RelayDeposit
    <3> QED BY <3>1, GiveMinerFeeLength
  <2> QED BY <2>1, <1>2, <1>3, <1>4, IntactBefore, RelayDepositFunds
<1>5. ASSUME NEW d \in Deposits, NEW i \in Retained(queue), NEW h \in 0 .. height,
             RelayExpiredDeposit(d, i, h)
      PROVE  FundsInv'
  <2>1. queue'.index = queue.index /\ queue'.len = queue.len
    BY <1>5 DEF RelayExpiredDeposit
  <2> QED BY <2>1, <1>3, <1>5, IntactBefore, RelayExpiredFunds
<1>6. ASSUME NEW w \in Withdrawals, WithdrawToBitcoin(w) PROVE FundsInv'
  <2>1. queue'.index = queue.index /\ queue'.len = queue.len
    <3>1. \E units, cp : queue' = SetBuilding(GiveMinerFee(queue, units), cp)
      BY <1>6 DEF WithdrawToBitcoin
    <3> QED BY <3>1, GiveMinerFeeLength
  <2> QED BY <2>1, <1>2, <1>3, <1>6, IntactBefore, WithdrawFunds
<1>7. ASSUME NEW s \in Signers, NEW i \in Retained(queue), NEW h \in Heights,
             SubmitCheckpointSignature(s, i, h)
      PROVE  FundsInv'
  <2>1. queue'.index = queue.index /\ queue'.len = queue.len
    BY <1>7, SetLength DEF SubmitCheckpointSignature
  <2> QED BY <2>1, <1>2, <1>3, <1>7, IntactBefore, SignatureFunds
<1>8. CASE EndBlockQuiet
  <2>1. queue'.index = queue.index /\ queue'.len = queue.len
    BY <1>8, TakeLength DEF EndBlockQuiet
  <2> QED BY <2>1, <1>2, <1>3, <1>8, IntactBefore, EndBlockQuietFunds
<1>9. CASE EndBlockPush
  BY <1>2, <1>3, <1>9, EndBlockPushFunds
<1>10. ASSUME UNCHANGED <<queue, processed, supply, feePool, requested>>
       PROVE  FundsInv'
  BY <1>3, <1>10, IntactBefore, OtherFunds
<1>11. ASSUME \/ \E i \in Retained(queue), h \in 0 .. height : RelayCheckpoint(i, h)
              \/ \E S \in SUBSET Signers : AddValidators(S)
              \/ \E s \in Signers : SetSignatoryKey(s)
              \/ Tick \/ MineBlock \/ Reorg \/ UNCHANGED vars
       PROVE  FundsInv'
  BY <1>10, <1>11
     DEF RelayCheckpoint, AddValidators, SetSignatoryKey, Tick, MineBlock, Reorg, vars,
         contractVars
<1> QED
  BY <1>4, <1>5, <1>6, <1>7, <1>8, <1>9, <1>11 DEF Next, ClockEndBlock

(* The inductive invariant holds in every reachable state.                  *)
THEOREM FundsInvariantHolds == Spec => []FInv
  BY InitFInv, NextFInv, PTL DEF Spec

(* Until the first checkpoint is pruned the checkpoint transactions form a  *)
(* chain: each but the first spends, as its first input, exactly the        *)
(* reserve output of the one before it, whatever deposits and withdrawals   *)
(* moved on (BuildingCheckpoint::advance, maybe_step).                      *)
THEOREM ReserveIsChained == Spec => [](Intact => ReserveChain)
<1>1. FInv => (Intact => ReserveChain)
  BY DEF FInv, FundsInv, Ledger, Chained, Ins, Outs, ReserveChain
<1> QED BY <1>1, FundsInvariantHolds, PTL

(* Until then every frozen transaction pays its miners at least its fee     *)
(* rate for each unit of its size, also after inputs and outputs over the   *)
(* limits moved to the next one (base_fee, advance).                        *)
THEOREM FeeRateIsPaid == Spec => [](Intact => FeeRatePaid)
<1>1. FInv => (Intact => FeeRatePaid)
  BY DEF FInv, FundsInv, Ledger, FeesRight, FeeRatePaid
<1> QED BY <1>1, FundsInvariantHolds, PTL

(* Until then the bridge is backed: what the reserve will hold once the     *)
(* checkpoint being built is paid out is the nBTC in circulation, the       *)
(* transfers still to pay and the fee pool, and less than one satoshi more  *)
(* for each withdrawal.                                                     *)
THEOREM BridgeIsBacked == Spec => [](Intact => Backed)
<1>1. FInv => (Intact => Backed)
  <2> SUFFICES ASSUME FInv, Intact, queue.len > 0
               PROVE  Backing - Owed \in 0 .. (Cardinality(requested) * (UnitsPerSat - 1))
    BY DEF Backed
  <2>1. Surplus(queue, supply, feePool)
          \in 0 .. (Cardinality(requested) * (UnitsPerSat - 1))
    BY DEF FInv, FundsInv, FundsOK
  <2>2. Backing - Owed = Surplus(queue, supply, feePool)
    BY DEF Backing, Owed, Surplus, Net, Building
  <2> QED BY <2>1, <2>2
<1> QED BY <1>1, FundsInvariantHolds, PTL

(* A sequence of different things has as many as it is long.                *)
LEMMA DistinctCount ==
    ASSUME NEW f, NEW n \in Nat, \A k, l \in 1 .. n : f[k] = f[l] => k = l
    PROVE  Cardinality({f[k] : k \in 1 .. n}) = n
<1> DEFINE T == {f[k] : k \in 1 .. n}
           b == [k \in 1 .. n |-> f[k]]
<1>1. b \in [1 .. n -> T] /\ \A y \in T : \E k \in 1 .. n : b[k] = y
  OBVIOUS
<1>2. \A k, l \in 1 .. n : b[k] = b[l] => k = l
  OBVIOUS
<1> HIDE DEF T, b
<1>3. b \in Bijection(1 .. n, T)
  BY <1>1, <1>2 DEF Bijection, Injection, Surjection, IsInjective
<1>4. ExistsBijection(1 .. n, T)
  BY <1>3 DEF ExistsBijection
<1>5. Cardinality(T) = n
  BY <1>4, FS_CountingElements
<1> QED BY <1>5 DEF T

(* Until then no output is spent twice, by one checkpoint or by two, and no *)
(* withdrawal is paid twice, also when inputs and outputs over the limits   *)
(* move to the next checkpoint and when a signed one is followed by more.   *)
THEOREM NothingSpentTwice == Spec => [](Intact => NoDoubleSpend)
<1>1. FInv => (Intact => NoDoubleSpend)
  <2> SUFFICES ASSUME FInv, Intact, NEW i \in Retained(queue)
               PROVE  /\ Cardinality(Spends(i)) = Len(queue.cps[i].inputs)
                      /\ Cardinality(Pays(i)) = Len(queue.cps[i].outputs)
                      /\ \A j \in Retained(queue) \ {i} :
                          /\ Spends(i) \cap Spends(j) = {}
                          /\ Pays(i) \cap Pays(j) \subseteq {<<"reserve">>, <<"timestamp">>}
    BY DEF NoDoubleSpend
  <2>1. /\ TxsOK(queue) /\ SpentOnce(queue) /\ PaidOnce(queue)
        /\ Destined(queue, requested)
    BY DEF FInv, FundsInv, Ledger
  <2>2. \A j \in Retained(queue) :
          /\ Ins(queue, j) \in Seq(Input) /\ Outs(queue, j) \in Seq(Output)
          /\ DOMAIN Ins(queue, j) = 1 .. Len(Ins(queue, j)) /\ Len(Ins(queue, j)) \in Nat
          /\ DOMAIN Outs(queue, j) = 1 .. Len(Outs(queue, j)) /\ Len(Outs(queue, j)) \in Nat
    BY <2>1 DEF TxsOK, TxOK, Ins, Outs
  <2>3. \A j \in Retained(queue) :
          /\ Spends(j) = {Ins(queue, j)[k].prevout : k \in 1 .. Len(Ins(queue, j))}
          /\ Pays(j) = {Outs(queue, j)[k].to : k \in 1 .. Len(Outs(queue, j))}
    BY <2>2 DEF Spends, Pays, Ins, Outs
  <2>4. Cardinality(Spends(i)) = Len(queue.cps[i].inputs)
    <3> DEFINE n == Len(Ins(queue, i))
               f == [k \in 1 .. n |-> Ins(queue, i)[k].prevout]
    <3>1. n \in Nat /\ \A k, l \in 1 .. n : f[k] = f[l] => k = l
      BY <2>1, <2>2 DEF SpentOnce
    <3>2. Spends(i) = {f[k] : k \in 1 .. n}
      BY <2>3
    <3> HIDE DEF f, n
    <3>3. Cardinality({f[k] : k \in 1 .. n}) = n
      BY <3>1, DistinctCount
    <3> QED BY <3>2, <3>3 DEF n, Ins
  <2>5. Cardinality(Pays(i)) = Len(queue.cps[i].outputs)
    <3> DEFINE n == Len(Outs(queue, i))
               f == [k \in 1 .. n |-> Outs(queue, i)[k].to]
    <3>1. n \in Nat
      BY <2>2
    <3>2. ASSUME NEW k \in 1 .. n, NEW l \in 1 .. n, f[k] = f[l] PROVE k = l
      <4>1. Outs(queue, i)[k].to = Outs(queue, i)[l].to
        BY <3>2
      <4>2. CASE ~IsExtra(queue, i, k) \/ ~IsExtra(queue, i, l)
        BY <2>1, <4>1, <4>2 DEF PaidOnce
      <4>3. CASE IsExtra(queue, i, k) /\ IsExtra(queue, i, l)
        <5>1. PaysExtra(queue, i, k) /\ PaysExtra(queue, i, l)
          BY <2>1, <4>3 DEF Destined, PaysWithdrawal
        <5>2. k \in {1, 2} /\ l \in {1, 2}
          BY <3>1, <4>3 DEF IsExtra
        <5>3. <<"reserve">> # <<"timestamp">>
          OBVIOUS
        <5>4. /\ k = 1 => Outs(queue, i)[k].to = <<"reserve">>
              /\ l = 1 => Outs(queue, i)[l].to = <<"reserve">>
              /\ k = 2 => Outs(queue, i)[k].to = <<"timestamp">>
              /\ l = 2 => Outs(queue, i)[l].to = <<"timestamp">>
          BY <5>1 DEF PaysExtra
        <5> QED BY <4>1, <5>2, <5>3, <5>4
      <4> QED BY <4>2, <4>3
    <3>3. Pays(i) = {f[k] : k \in 1 .. n}
      BY <2>3
    <3> HIDE DEF f, n
    <3>4. Cardinality({f[k] : k \in 1 .. n}) = n
      BY <3>1, <3>2, DistinctCount
    <3> QED BY <3>3, <3>4 DEF n, Outs
  <2>6. ASSUME NEW j \in Retained(queue) \ {i}
        PROVE  /\ Spends(i) \cap Spends(j) = {}
               /\ Pays(i) \cap Pays(j) \subseteq {<<"reserve">>, <<"timestamp">>}
    <3>1. Spends(i) \cap Spends(j) = {}
      BY <2>1, <2>3 DEF SpentOnce
    <3>2. ASSUME NEW y \in Pays(i), y \in Pays(j)
          PROVE  y \in {<<"reserve">>, <<"timestamp">>}
      <4>1. PICK k \in 1 .. Len(Outs(queue, i)) : y = Outs(queue, i)[k].to
        BY <2>3, <3>2
      <4>2. PICK l \in 1 .. Len(Outs(queue, j)) : y = Outs(queue, j)[l].to
        BY <2>3, <3>2
      <4>3. IsExtra(queue, i, k)
        BY <2>1, <4>1, <4>2 DEF PaidOnce
      <4>4. PaysExtra(queue, i, k)
        BY <2>1, <4>3 DEF Destined, PaysWithdrawal
      <4> QED BY <4>1, <4>4 DEF PaysExtra
    <3> QED BY <3>1, <3>2
  <2> QED BY <2>4, <2>5, <2>6
<1> QED BY <1>1, FundsInvariantHolds, PTL
=============================================================================
