------------------------------ MODULE HeaderQueue ------------------------------
(***************************************************************************)
(* The light client of the bridge: the queue of Bitcoin headers relayers    *)
(* extend and reorganise, from the trusted header of the configuration on.  *)
(*                                                                         *)
(* A message either succeeds as a whole or is reverted, so a batch of       *)
(* headers is one atomic action, disabled when the code returns an error or *)
(* panics (overflow checks are on, so an unsigned difference below zero     *)
(* panics).                                                                 *)
(*                                                                         *)
(* A block's hash commits to its header and, through prev_blockhash, to all *)
(* its ancestors: it is modelled as the sequence of the <<time, bits>> of   *)
(* the block and its ancestors, from the trusted header on.  A target and   *)
(* its compact form are one number, rounded as the compact form rounds.     *)
(***************************************************************************)
EXTENDS Integers, Sequences, FiniteSets, FiniteSetsExt, SequencesExt

CONSTANTS
    TrustedHeight, TrustedTime, TrustedBits, \* HeaderConfig.trusted_height, trusted_header
    RetargetInterval,    \* HeaderConfig.retarget_interval
    TargetSpacing,       \* HeaderConfig.target_spacing
    TargetTimespan,      \* HeaderConfig.target_timespan
    MaxTarget,           \* HeaderConfig.max_target
    MaxLength,           \* HeaderConfig.max_length
    Retargeting,         \* HeaderConfig.retargeting
    MinDifficultyBlocks, \* HeaderConfig.min_difficulty_blocks
    MaxRelay,            \* MAX_HEADERS_RELAY_ONE_TIME
    MedianSpan,          \* headers the median time is taken of (11 in the code)
    HashSpace,           \* number of hashes (2^256)
    Mantissa, Scales,    \* compact form: below 2^23 units of a power of 256
    Times,               \* bound: the timestamps of headers
    Targets,             \* bound: the targets of headers
    MaxBest              \* bound: last height of a header

ASSUME HeaderAssumption ==
    /\ TrustedHeight \in Nat /\ TrustedTime \in Nat /\ TrustedBits \in Nat
    /\ RetargetInterval \in Nat \ {0}
    /\ MaxLength \in Nat \ {0}
    /\ MedianSpan \in Nat \ {0}
    /\ MaxRelay \in Nat \ {0}
    /\ TargetSpacing \in Nat
    /\ HashSpace \in Nat /\ MaxBest \in Nat
    /\ Times \subseteq Nat /\ Targets \subseteq Nat

VARIABLES
    headers,      \* HEADERS: a sequence of [header, chainWork]
    currentWork   \* CURRENT_WORK

vars == <<headers, currentWork>>

-----------------------------------------------------------------------------
(* Headers.  BlockHeader of the bitcoin crate, with the height the relayer  *)
(* claims (WrappedHeader).                                                  *)

Hash(h) == Append(h.prev, <<h.time, h.bits>>)

(* work(): the expected number of hashes to find one below the target.      *)
Work(target) == HashSpace \div (target + 1)

WorkOf(hs) == SumFunction([k \in DOMAIN hs |-> Work(hs[k].bits)])

(* u256_from_compact_target after compact_target_from_u256                  *)
Rounded(target) ==
    LET unit == Min({s \in Scales : target < s * Mantissa})
    IN  (target \div unit) * unit

AtMost(a, b) == IF a < b THEN a ELSE b

Clamp(x, lo, hi) == IF x < lo THEN lo ELSE AtMost(x, hi)

-----------------------------------------------------------------------------
(* A chain q is a non-empty sequence of headers: the queue's, without those *)
(* a batch replaces, and with those of the batch already verified.          *)

HeadersOf(q) == [k \in DOMAIN q |-> q[k].header]

First(q) == q[1].height
Tip(q)   == q[Len(q)]

(* get_by_height, for a height in the queue                                 *)
At(q, height) == q[height - First(q) + 1]

(* validate_time: the header is later than the median of the last           *)
(* MedianSpan (the sorted list's middle element), that is, later than more  *)
(* than half of them.                                                       *)
MutantAfterMedian(q, time) ==
    LET last == (Len(q) - MedianSpan + 1) .. Len(q)
    IN  2 * Cardinality({k \in last : q[k].time <= time}) > MedianSpan

AfterMedian(q, time) ==
    LET last == (Len(q) - MedianSpan + 1) .. Len(q)
    IN  2 * Cardinality({k \in last : q[k].time < time}) > MedianSpan

-----------------------------------------------------------------------------
(* calculate_next_target: the target of a header at a retarget height.      *)
PeriodStart(q) == Tip(q).height + 1 - RetargetInterval

MutantRetargetSucceeds(q) ==
    Retargeting =>
        /\ Tip(q).height >= RetargetInterval
        /\ PeriodStart(q) > First(q)
        /\ Tip(q).time >= At(q, PeriodStart(q)).time

RetargetSucceeds(q) ==
    Retargeting =>
        /\ Tip(q).height >= RetargetInterval
        /\ PeriodStart(q) >= First(q)
        /\ Tip(q).time >= At(q, PeriodStart(q)).time

Retargeted(bits, timespan) ==
    AtMost(Rounded((bits * Clamp(timespan, TargetTimespan \div 4, TargetTimespan * 4))
                       \div TargetTimespan),
           MaxTarget)

RetargetedTarget(q) ==
    IF Retargeting
    THEN Retargeted(Tip(q).bits, Tip(q).time - At(q, PeriodStart(q)).time)
    ELSE Tip(q).bits

(* The search for the last target that was not the minimum-difficulty one.  *)
(* `cached` are the heights in cache_headers_map: the code stores under a   *)
(* height the bits of the header above it, which it only leaves behind when *)
(* they are MaxTarget, so the value stored is always MaxTarget.             *)
Seen(q, cached, height) ==
    IF height \in cached /\ height # Tip(q).height THEN MaxTarget ELSE At(q, height).bits

Readable(q, cached, height) == height \in cached \/ height >= First(q)

GoesOn(q, cached, height) ==
    /\ Readable(q, cached, height)
    /\ height > 0
    /\ height % RetargetInterval # 0
    /\ Seen(q, cached, height) = MaxTarget

StopHeight(q, cached) ==
    Max({height \in 0 .. Tip(q).height : ~GoesOn(q, cached, height)})

(* get_next_target *)
IsRetarget(header) == header.height % RetargetInterval = 0

IsLate(q, header) == header.time > Tip(q).time + TargetSpacing * 2

Searches(q, header) ==
    MinDifficultyBlocks /\ ~IsRetarget(header) /\ ~IsLate(q, header)

NextTargetSucceeds(q, header, cached) ==
    /\ IsRetarget(header) => RetargetSucceeds(q)
    /\ Searches(q, header) => Readable(q, cached, StopHeight(q, cached))

NextTarget(q, header, cached) ==
    CASE IsRetarget(header)                             -> RetargetedTarget(q)
      [] ~IsRetarget(header) /\ ~MinDifficultyBlocks    -> Tip(q).bits
      [] Searches(q, header)          -> Seen(q, cached, StopHeight(q, cached))
      [] ~IsRetarget(header) /\ MinDifficultyBlocks /\ IsLate(q, header) -> MaxTarget

MutantCachedAfter(q, header, cached) ==
    CASE Searches(q, header) -> cached \cup (StopHeight(q, cached) .. (Tip(q).height - 1))
      [] ~Searches(q, header) /\ IsLate(q, header) -> cached \cup {Tip(q).height}
      [] ~Searches(q, header) /\ ~IsLate(q, header) -> cached

CachedAfter(q, header, cached) ==
    IF Searches(q, header)
    THEN cached \cup (StopHeight(q, cached) .. (Tip(q).height - 1))
    ELSE cached

-----------------------------------------------------------------------------
(* verify_and_add_headers: each header of batch hs is verified against the  *)
(* chain so far.  That the hash is below the target is external: any header *)
(* can be mined.                                                            *)
ChainBefore(q, hs, k) == q \o SubSeq(hs, 1, k - 1)

CachedBefore(q, hs) ==
    LET cached[k \in 1 .. Len(hs)] ==
            IF k = 1 THEN {}
            ELSE CachedAfter(ChainBefore(q, hs, k - 1), hs[k - 1], cached[k - 1])
    IN  cached

MutantFollows(q, header) == header.height = Tip(q).height + 1

Follows(q, header) ==
    /\ header.height = Tip(q).height + 1
    /\ header.prev = Hash(Tip(q))

HeaderValid(q, header, cached) ==
    /\ Follows(q, header)
    /\ Len(q) >= MedianSpan => AfterMedian(q, header.time)
    /\ NextTargetSucceeds(q, header, cached)
    /\ header.bits = NextTarget(q, header, cached)

BatchValid(q, hs) ==
    \A k \in 1 .. Len(hs) :
        HeaderValid(ChainBefore(q, hs, k), hs[k], CachedBefore(q, hs)[k])

(* The stored headers of a batch.  CURRENT_WORK grows with each of them.    *)
WithWork(hs) ==
    [k \in 1 .. Len(hs) |->
        [header |-> hs[k], chainWork |-> currentWork + WorkOf(SubSeq(hs, 1, k))]]

-----------------------------------------------------------------------------
(* add_into_iter: the batch replaces the headers from its first height on   *)
(* (pop_back_to), and must bring more work than those had.  Then the front  *)
(* of the queue is pruned to MaxLength.                                     *)
KeptLen(hs) == AtMost(Len(headers), hs[1].height - headers[1].header.height)

Kept(hs)     == SubSeq(headers, 1, KeptLen(hs))
Replaced(hs) == SubSeq(headers, KeptLen(hs) + 1, Len(headers))

MutantMoreWork(added, removed) == added >= removed

MoreWork(added, removed) == added > removed

Accepted(hs) ==
    /\ Len(hs) \in 1 .. MaxRelay
    /\ KeptLen(hs) >= 1
    /\ Replaced(hs) # <<>> => Hash(hs[1]) # Hash(Replaced(hs)[1].header)
    /\ BatchValid(HeadersOf(Kept(hs)), hs)
    /\ MoreWork(WorkOf(hs), WorkOf(HeadersOf(Replaced(hs))))

Excess(q) == IF Len(q) > MaxLength THEN Len(q) - MaxLength ELSE 0

Pruned(q) == SubSeq(q, Excess(q) + 1, Len(q))

MutantPrunedWork(q) == WorkOf(HeadersOf(SubSeq(q, Len(q) - Excess(q) + 1, Len(q))))

PrunedWork(q) == WorkOf(HeadersOf(SubSeq(q, 1, Excess(q))))

RelayHeaders(hs) ==
    /\ Accepted(hs)
    /\ LET q == Kept(hs) \o WithWork(hs)
       IN  /\ headers' = Pruned(q)
           /\ currentWork' = currentWork + WorkOf(hs) - PrunedWork(q)

(* configure, by instantiate and by the owner's update_header_config        *)
TrustedHeader ==
    [height |-> TrustedHeight, prev |-> <<>>, time |-> TrustedTime, bits |-> TrustedBits]

TrustedQueue == <<[header |-> TrustedHeader, chainWork |-> Work(TrustedBits)]>>

UpdateHeaderConfig ==
    /\ headers' = TrustedQueue
    /\ currentWork' = Work(TrustedBits)

-----------------------------------------------------------------------------
(* What relayers send: up to MaxRelay headers mined on top of each other,   *)
(* the first of them on some header of the queue, claimed to be at          *)
(* consecutive heights from any height on.                                  *)
Mined(height, prev, times, bits) ==
    [k \in DOMAIN times |->
        [height |-> height + k - 1,
         prev   |-> prev \o [j \in 1 .. (k - 1) |-> <<times[j], bits[j]>>],
         time   |-> times[k],
         bits   |-> bits[k]]]

Init ==
    /\ headers = TrustedQueue
    /\ currentWork = Work(TrustedBits)

Next ==
    \/ \E n \in 1 .. MaxRelay, on \in DOMAIN headers,
          height \in headers[1].header.height .. AtMost(Tip(HeadersOf(headers)).height + 1, MaxBest) :
       \E times \in [1 .. n -> Times], bits \in [1 .. n -> Targets] :
          /\ height + n - 1 <= MaxBest
          /\ RelayHeaders(Mined(height, Hash(headers[on].header), times, bits))
    \/ UpdateHeaderConfig

Spec == Init /\ [][Next]_vars

-----------------------------------------------------------------------------
(* Properties.                                                              *)

Chain == HeadersOf(headers)

(* Every header has its type, the queue is never empty and never longer     *)
(* than max_length, and CURRENT_WORK is at least the work of its headers,   *)
(* so that the subtraction when pruning never panics.  (It is more after a  *)
(* reorganisation: the work of the headers popped is not taken off.)        *)
TypeOK ==
    /\ Len(headers) \in 1 .. MaxLength
    /\ \A k \in DOMAIN headers :
        /\ Chain[k].height \in Nat
        /\ Chain[k].time \in Times \cup {TrustedTime}
        /\ Chain[k].bits \in Targets \cup {TrustedBits}
    /\ currentWork - WorkOf(Chain) \in Nat

(* verify_and_add_headers, get_by_height: through every reorganisation and  *)
(* prune, the queue is one chain of blocks, each the child of the one       *)
(* before it, and a header's place in the deque is its height above the     *)
(* first's: indexing the deque by height finds the right header.            *)
Linked ==
    \A k \in 2 .. Len(Chain) :
        /\ Chain[k].height = Chain[1].height + k - 1
        /\ Chain[k].prev = Hash(Chain[k - 1])

(* The difficulty rule of Bitcoin on a whole branch (a hash), as a          *)
(* reference: what the target of a block at time t on top of it must be.    *)
RuleDefined(path) ==
    (TrustedHeight + Len(path)) % RetargetInterval = 0 /\ Retargeting
        => Len(path) >= RetargetInterval

RuleTarget(path, t) ==
    LET n      == Len(path)
        height == TrustedHeight + n
        period == {k \in 1 .. n : TrustedHeight + k - 1 >= height - (height % RetargetInterval)}
        normal == {k \in period : path[k][2] # MaxTarget}
    IN  CASE height % RetargetInterval = 0 /\ Retargeting ->
               Retargeted(path[n][2], path[n][1] - path[n + 1 - RetargetInterval][1])
          [] height % RetargetInterval = 0 /\ ~Retargeting -> path[n][2]
          [] height % RetargetInterval # 0 /\ ~MinDifficultyBlocks -> path[n][2]
          [] height % RetargetInterval # 0 /\ MinDifficultyBlocks ->
               IF t > path[n][1] + 2 * TargetSpacing \/ normal = {}
               THEN MaxTarget
               ELSE path[Max(normal)][2]

(* get_next_target: every header carries the target Bitcoin's rule demands  *)
(* of its branch, although the code reads it from a queue that is being     *)
(* reorganised and pruned, and from a cache that holds the bits of the      *)
(* header above the one asked for.                                          *)
TargetsRight ==
    \A k \in 2 .. Len(Chain) : Chain[k].bits = RuleTarget(Chain[k].prev, Chain[k].time)

(* A list of numbers, rearranged in ascending order.                        *)
Sorted(s) ==
    CHOOSE t \in {[i \in DOMAIN s |-> s[p[i]]] : p \in Bijection(DOMAIN s, DOMAIN s)} :
        \A i, j \in DOMAIN s : i < j => t[i] <= t[j]

(* validate_time: a header with MedianSpan headers before it in the queue   *)
(* is later than their median, whatever was replaced or pruned since it was *)
(* checked (headers closer to the front may never have been checked).       *)
MedianTime ==
    \A k \in (MedianSpan + 1) .. Len(Chain) :
        LET before == [j \in 1 .. MedianSpan |-> Chain[k - j].time]
        IN  Chain[k].time > Sorted(before)[(MedianSpan + 1) \div 2]

(* add: "The headers [...] must bring the chain to a final state that has   *)
(* more work than the current chain", and "it can not process reorgs that   *)
(* are deeper than the length of the queue": a step other than the owner's  *)
(* reset brings a branch of more work, from the trusted header on, and that *)
(* branch extends the first header the queue had.                           *)
Branch(q)      == Hash(Tip(HeadersOf(q)))
BranchWork(b)  == SumFunction([k \in DOMAIN b |-> Work(b[k][2])])

BestBranch ==
    [][\/ headers' = TrustedQueue
       \/ /\ BranchWork(Branch(headers')) > BranchWork(Branch(headers))
          /\ IsStrictPrefix(Hash(headers[1].header), Branch(headers'))]_vars

(* add: "If the headers are valid, they will be added to the header queue." *)
(* A block that is valid on top of the best branch is accepted.             *)
NextValid(t) ==
    [height |-> Tip(Chain).height + 1, prev |-> Branch(headers), time |-> t,
     bits |-> RuleTarget(Branch(headers), t)]

ValidTime(t) == Len(Chain) >= MedianSpan => AfterMedian(Chain, t)

ValidIsAccepted ==
    RuleDefined(Branch(headers)) =>
        \A t \in Times : ValidTime(t) => Accepted(<<NextValid(t)>>)

(* The same, but on top of a period whose last block is older than its      *)
(* first: the timespan is an unsigned difference.                           *)
PeriodOrdered ==
    /\ (Tip(Chain).height + 1) % RetargetInterval = 0
    /\ PeriodStart(Chain) >= First(Chain)
    => Tip(Chain).time >= At(Chain, PeriodStart(Chain)).time

OrderedIsAccepted == PeriodOrdered => ValidIsAccepted
=============================================================================
