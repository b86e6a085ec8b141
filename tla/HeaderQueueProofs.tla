-------------------------- MODULE HeaderQueueProofs ---------------------------
(***************************************************************************)
(* The light client's queue, for any trusted header, lengths, relayed       *)
(* batches, timestamps and targets: it is one chain of blocks, never empty  *)
(* and never too long, its work accounts for its headers, and no message    *)
(* but the owner's reset replaces the best branch by one of less work.  Its *)
(* timestamps and targets follow Bitcoin's rules, and blocks that follow    *)
(* them are accepted.                                                       *)
(***************************************************************************)
EXTENDS HeaderQueue, SequenceTheorems, SumTheorems

(* The timestamps and targets of stored headers.                            *)
AllTimes == Times \cup {TrustedTime}
AllBits  == Targets \cup {TrustedBits}

(* A block's contribution to the hashes of its descendants.                 *)
Block == AllTimes \X AllBits

Header == [height : Nat, prev : Seq(Block), time : AllTimes, bits : AllBits]
Entry  == [header : Header, chainWork : Int]

(* Headers that are each the child of the one before.                       *)
IsChain(q) ==
    \A k \in 2 .. Len(q) :
        /\ q[k].height = q[1].height + k - 1
        /\ q[k].prev = Hash(q[k - 1])

(* The inductive invariant: the entries' types, with the type of the hashes,*)
(* and the two facts that each step needs of the queue before it.           *)
IInv ==
    /\ headers \in Seq(Entry)
    /\ Len(headers) \in 1 .. MaxLength
    /\ IsChain(Chain)
    /\ currentWork \in Int
    /\ currentWork - WorkOf(Chain) \in Nat

-----------------------------------------------------------------------------
(* Types.                                                                   *)

(* Timestamps, targets and the work of a target are numbers.                *)
LEMMA BasicTypes ==
    /\ AllTimes \subseteq Nat
    /\ AllBits \subseteq Nat
    /\ \A b \in AllBits : Work(b) \in Nat
BY HeaderAssumption DEF AllTimes, AllBits, Work

(* The headers of a sequence of entries are a sequence of headers.          *)
LEMMA HeadersOfType ==
    ASSUME NEW q \in Seq(Entry)
    PROVE  /\ HeadersOf(q) \in Seq(Header)
           /\ Len(HeadersOf(q)) = Len(q)
           /\ DOMAIN HeadersOf(q) = 1 .. Len(q)
           /\ \A k \in 1 .. Len(q) : HeadersOf(q)[k] = q[k].header
<1>1. DOMAIN q = 1 .. Len(q) /\ Len(q) \in Nat
  OBVIOUS
<1>2. \A k \in 1 .. Len(q) : q[k].header \in Header
  <2>1. \A k \in 1 .. Len(q) : q[k] \in Entry
    BY ElementOfSeq
  <2>2. QED
    BY <2>1 DEF Entry
<1>3. HeadersOf(q) = [k \in 1 .. Len(q) |-> q[k].header]
  BY <1>1 DEF HeadersOf
<1>4. QED
  BY <1>1, <1>2, <1>3

(* The hash of a header is a sequence of blocks, one longer than prev.      *)
LEMMA HashType ==
    ASSUME NEW h \in Header
    PROVE  /\ Hash(h) \in Seq(Block)
           /\ Len(Hash(h)) = Len(h.prev) + 1
           /\ \A i \in 1 .. Len(h.prev) : Hash(h)[i] = h.prev[i]
           /\ Hash(h)[Len(h.prev) + 1] = <<h.time, h.bits>>
<1>1. h.prev \in Seq(Block) /\ <<h.time, h.bits>> \in Block
  BY DEF Header, Block
<1>2. QED
  BY <1>1, AppendProperties DEF Hash

-----------------------------------------------------------------------------
(* Work.                                                                    *)

(* The work of the headers k of q, for a sum over part of them.             *)
WorkAt(q) == [k \in DOMAIN q |-> Work(q[k].bits)]

(* Each header's work is a natural, and the work of a chain is their sum.   *)
LEMMA WorkAtType ==
    ASSUME NEW q \in Seq(Header)
    PROVE  /\ DOMAIN WorkAt(q) = 1 .. Len(q)
           /\ \A k \in 1 .. Len(q) : WorkAt(q)[k] \in Nat /\ WorkAt(q)[k] = Work(q[k].bits)
           /\ WorkOf(q) = SumFunctionOnSet(WorkAt(q), 1 .. Len(q))
<1>1. DOMAIN q = 1 .. Len(q)
  OBVIOUS
<1>2. \A k \in 1 .. Len(q) : q[k].bits \in AllBits
  <2>1. \A k \in 1 .. Len(q) : q[k] \in Header
    BY ElementOfSeq
  <2>2. QED
    BY <2>1 DEF Header
<1>3. DOMAIN WorkAt(q) = 1 .. Len(q)
  BY <1>1 DEF WorkAt
<1>4. QED
  BY <1>1, <1>2, <1>3, BasicTypes DEF WorkAt, WorkOf, SumFunction

(* The work of headers is a number.                                         *)
LEMMA WorkOfType ==
    ASSUME NEW q \in Seq(Header)
    PROVE  WorkOf(q) \in Nat
<1>1. IsFiniteSet(1 .. Len(q))
  BY FS_Interval
<1>2. QED
  BY <1>1, WorkAtType, SumNat

(* The work of part of the headers, as a sum over their places.             *)
LEMMA WorkOfPart ==
    ASSUME NEW q \in Seq(Header), NEW m \in Int, NEW n \in Int,
           1 <= m, m <= n + 1, n <= Len(q)
    PROVE  WorkOf(SubSeq(q, m, n)) = SumFunctionOnSet(WorkAt(q), m .. n)
<1> DEFINE p == SubSeq(q, m, n)
<1>1. \A i \in m .. n : q[i] \in Header
  OBVIOUS
<1>2. /\ p \in Seq(Header)
      /\ Len(p) = n - m + 1
      /\ \A i \in 1 .. n - m + 1 : p[i] = q[m + i - 1]
  BY <1>1, SubSeqProperties
<1> HIDE DEF p
<1>3. ASSUME NEW k \in 1 .. Len(p)
      PROVE  WorkAt(p)[k] \in Int /\ WorkAt(q)[k + (m - 1)] = WorkAt(p)[k]
  <2>1. m + k - 1 \in 1 .. Len(q) /\ k + (m - 1) = m + k - 1
    BY <1>2
  <2>2. p[k] = q[m + k - 1]
    BY <1>2
  <2>3. WorkAt(q)[m + k - 1] = Work(q[m + k - 1].bits)
    BY <2>1, WorkAtType
  <2>4. WorkAt(p)[k] = Work(p[k].bits) /\ WorkAt(p)[k] \in Nat
    BY <1>2, WorkAtType
  <2>5. QED
    BY <2>1, <2>2, <2>3, <2>4
<1>4. Shifted(WorkAt(p), 1, Len(p), WorkAt(q), m, n)
  BY <1>2, <1>3 DEF Shifted
<1>5. SumFunctionOnSet(WorkAt(q), m .. n) = SumFunctionOnSet(WorkAt(p), 1 .. Len(p))
  BY <1>4, SumShift
<1>6. WorkOf(p) = SumFunctionOnSet(WorkAt(p), 1 .. Len(p))
  BY <1>2, WorkAtType
<1>7. QED
  BY <1>5, <1>6 DEF p

(* The work of the first m headers and of the others.                       *)
LEMMA WorkOfSplit ==
    ASSUME NEW q \in Seq(Header), NEW m \in 0 .. Len(q)
    PROVE  WorkOf(q) = WorkOf(SubSeq(q, 1, m)) + WorkOf(SubSeq(q, m + 1, Len(q)))
<1>1. \A k \in 1 .. Len(q) : WorkAt(q)[k] \in Int
  BY WorkAtType
<1>2. SumFunctionOnSet(WorkAt(q), 1 .. Len(q))
        = SumFunctionOnSet(WorkAt(q), 1 .. m) + SumFunctionOnSet(WorkAt(q), (m + 1) .. Len(q))
  BY <1>1, SumSplit
<1>3. QED
  BY <1>2, WorkOfPart, WorkAtType

-----------------------------------------------------------------------------
(* Parts of sequences.                                                      *)

(* The headers of part of the queue are that part of the headers.           *)
LEMMA HeadersOfPart ==
    ASSUME NEW q \in Seq(Entry), NEW m \in Int, NEW n \in Int,
           1 <= m, m <= n + 1, n <= Len(q)
    PROVE  /\ SubSeq(q, m, n) \in Seq(Entry)
           /\ Len(SubSeq(q, m, n)) = n - m + 1
           /\ HeadersOf(SubSeq(q, m, n)) = SubSeq(HeadersOf(q), m, n)
           /\ \A k \in 1 .. n - m + 1 : HeadersOf(SubSeq(q, m, n))[k] = q[m + k - 1].header
<1> DEFINE p == SubSeq(q, m, n)
           h == HeadersOf(q)
           s == SubSeq(h, m, n)
<1>1. \A i \in m .. n : q[i] \in Entry /\ h[i] \in Header
  <2>1. \A i \in m .. n : i \in 1 .. Len(q)
    OBVIOUS
  <2>2. QED
    BY <2>1, HeadersOfType, ElementOfSeq
<1>2. /\ p \in Seq(Entry)
      /\ Len(p) = n - m + 1
      /\ \A i \in 1 .. n - m + 1 : p[i] = q[m + i - 1]
  BY <1>1, SubSeqProperties
<1>3. /\ s \in Seq(Header)
      /\ Len(s) = n - m + 1
      /\ \A i \in 1 .. n - m + 1 : s[i] = h[m + i - 1]
  BY <1>1, SubSeqProperties
<1> HIDE DEF p, s, h
<1>4. ASSUME NEW k \in 1 .. n - m + 1
      PROVE  HeadersOf(p)[k] = s[k] /\ HeadersOf(p)[k] = q[m + k - 1].header
  <2>1. m + k - 1 \in 1 .. Len(q) /\ k \in 1 .. Len(p)
    BY <1>2
  <2>2. h[m + k - 1] = q[m + k - 1].header
    BY <2>1, HeadersOfType DEF h
  <2>3. HeadersOf(p)[k] = p[k].header
    BY <1>2, <2>1, HeadersOfType
  <2>4. QED
    BY <1>2, <1>3, <2>2, <2>3
<1>5. HeadersOf(p) \in Seq(Header) /\ Len(HeadersOf(p)) = n - m + 1
  BY <1>2, HeadersOfType
<1>6. HeadersOf(p) = s
  BY <1>3, <1>4, <1>5, SeqEqual
<1>7. QED
  BY <1>2, <1>4, <1>6 DEF p, s, h

(* What a relayer mines is a batch of headers at consecutive heights.       *)
LEMMA MinedType ==
    ASSUME IInv, NEW n \in 1 .. MaxRelay, NEW on \in DOMAIN headers,
           NEW height \in headers[1].header.height
                             .. AtMost(Tip(HeadersOf(headers)).height + 1, MaxBest),
           NEW times \in [1 .. n -> Times], NEW bits \in [1 .. n -> Targets]
    PROVE  LET hs == Mined(height, Hash(headers[on].header), times, bits)
           IN  /\ hs \in Seq(Header)
               /\ Len(hs) = n
               /\ \A k \in 1 .. n : hs[k].height = hs[1].height + k - 1
<1> DEFINE hs == Mined(height, Hash(headers[on].header), times, bits)
           prev == Hash(headers[on].header)
<1>1. n \in Nat /\ n >= 1 /\ DOMAIN times = 1 .. n
  BY HeaderAssumption
<1>2. headers[on] \in Entry /\ headers[1] \in Entry
  BY ElementOfSeq DEF IInv
<1>3. headers[on].header \in Header /\ headers[1].header \in Header
  BY <1>2 DEF Entry
<1>4. prev \in Seq(Block)
  BY <1>3, HashType
<1>5. height \in Nat
  <2>1. headers[1].header.height \in Nat
    BY <1>3 DEF Header
  <2>2. Tip(HeadersOf(headers)).height \in Nat
    <3>1. /\ HeadersOf(headers) \in Seq(Header)
          /\ Len(HeadersOf(headers)) = Len(headers)
          /\ Len(headers) \in 1 .. MaxLength
      BY HeadersOfType DEF IInv
    <3>2. Tip(HeadersOf(headers)) \in Header
      BY <3>1, ElementOfSeq DEF Tip
    <3>3. QED
      BY <3>2 DEF Header
  <2>3. AtMost(Tip(HeadersOf(headers)).height + 1, MaxBest) \in Int
    BY <2>2, HeaderAssumption DEF AtMost
  <2>4. QED
    BY <2>1, <2>3
<1> HIDE DEF prev
<1>6. ASSUME NEW k \in 1 .. n
      PROVE  /\ hs[k].height = height + k - 1
             /\ hs[k] \in Header
  <2> DEFINE tail == [j \in 1 .. (k - 1) |-> <<times[j], bits[j]>>]
  <2>1. hs[k] = [height |-> height + k - 1, prev |-> prev \o tail,
                 time |-> times[k], bits |-> bits[k]]
    BY <1>1 DEF Mined, prev
  <2>2. tail \in Seq(Block)
    <3>1. \A j \in 1 .. (k - 1) : <<times[j], bits[j]>> \in Block
      BY DEF Block, AllTimes, AllBits
    <3>2. k - 1 \in Nat
      BY <1>1
    <3>3. QED
      BY <3>1, <3>2
  <2> HIDE DEF tail, hs
  <2>3. prev \o tail \in Seq(Block)
    BY <1>4, <2>2, ConcatProperties
  <2>4. times[k] \in AllTimes /\ bits[k] \in AllBits
    BY DEF AllTimes, AllBits
  <2>5. height + k - 1 \in Nat
    BY <1>1, <1>5
  <2>6. QED
    BY <2>1, <2>3, <2>4, <2>5 DEF Header
<1>7. hs = [k \in 1 .. n |-> hs[k]]
  BY <1>1 DEF Mined
<1> HIDE DEF hs
<1>8. hs \in Seq(Header) /\ Len(hs) = n
  <2>1. hs \in [1 .. n -> Header]
    BY <1>6, <1>7
  <2>2. QED
    BY <1>1, <2>1
<1>9. \A k \in 1 .. n : hs[k].height = hs[1].height + k - 1
  <2>1. 1 \in 1 .. n
    BY <1>1
  <2>2. hs[1].height = height + 1 - 1
    BY <1>6, <2>1
  <2>3. QED
    BY <1>5, <1>6, <2>2
<1>10. QED
  BY <1>8, <1>9 DEF hs

-----------------------------------------------------------------------------
(* The queue with an accepted batch.                                        *)

(* The tip of the chain a header of the batch is verified against.          *)
LEMMA TipBefore ==
    ASSUME NEW q \in Seq(Header), Len(q) >= 1, NEW hs \in Seq(Header),
           NEW k \in 1 .. Len(hs)
    PROVE  Tip(ChainBefore(q, hs, k)) = IF k = 1 THEN q[Len(q)] ELSE hs[k - 1]
<1> DEFINE t == SubSeq(hs, 1, k - 1)
<1>1. \A i \in 1 .. (k - 1) : hs[i] \in Header
  OBVIOUS
<1>2. /\ t \in Seq(Header)
      /\ Len(t) = k - 1
      /\ \A i \in 1 .. (k - 1) - 1 + 1 : t[i] = hs[1 + i - 1]
  BY <1>1, SubSeqProperties
<1> HIDE DEF t
<1>3. /\ Len(q \o t) = Len(q) + Len(t)
      /\ \A i \in 1 .. Len(q) + Len(t) : (q \o t)[i] = IF i <= Len(q) THEN q[i] ELSE t[i - Len(q)]
  BY <1>2, ConcatProperties
<1>4. CASE k = 1
  BY <1>2, <1>3, <1>4 DEF Tip, ChainBefore, t
<1>5. CASE k # 1
  <2>1. (q \o t)[Len(q) + Len(t)] = t[k - 1]
    BY <1>2, <1>3, <1>5
  <2>2. t[k - 1] = hs[k - 1]
    BY <1>2, <1>5
  <2>3. QED
    BY <1>3, <1>5, <2>1, <2>2 DEF Tip, ChainBefore, t
<1>6. QED
  BY <1>4, <1>5

(* A batch the queue may take: headers, at consecutive heights.             *)
IsBatch(hs) ==
    /\ hs \in Seq(Header)
    /\ Len(hs) >= 1
    /\ \A k \in 1 .. Len(hs) : hs[k].height = hs[1].height + k - 1

(* What an accepted batch keeps and replaces of the queue.                  *)
LEMMA KeptType ==
    ASSUME IInv, NEW hs, IsBatch(hs), Accepted(hs)
    PROVE  /\ KeptLen(hs) \in 1 .. Len(headers)
           /\ Kept(hs) \in Seq(Entry)
           /\ Len(Kept(hs)) = KeptLen(hs)
           /\ HeadersOf(Kept(hs)) = SubSeq(Chain, 1, KeptLen(hs))
           /\ HeadersOf(Kept(hs)) \in Seq(Header)
           /\ Len(HeadersOf(Kept(hs))) = KeptLen(hs)
           /\ \A k \in 1 .. KeptLen(hs) : /\ Kept(hs)[k] = headers[k]
                                          /\ HeadersOf(Kept(hs))[k] = Chain[k]
           /\ HeadersOf(Replaced(hs)) = SubSeq(Chain, KeptLen(hs) + 1, Len(Chain))
<1>1. /\ headers \in Seq(Entry) /\ Len(headers) \in Nat /\ Len(headers) >= 1
      /\ Chain \in Seq(Header) /\ Len(Chain) = Len(headers)
      /\ \A k \in 1 .. Len(headers) : Chain[k] = headers[k].header
  BY HeadersOfType, HeaderAssumption DEF IInv, Chain
<1>2. hs[1].height \in Nat /\ headers[1].header.height \in Nat
  <2>1. hs[1] \in Header
    BY ElementOfSeq DEF IsBatch
  <2>2. Chain[1] \in Header
    BY <1>1, ElementOfSeq
  <2>3. QED
    BY <1>1, <2>1, <2>2 DEF Header
<1> DEFINE n == KeptLen(hs)
<1>3. n \in 1 .. Len(headers)
  BY <1>1, <1>2 DEF KeptLen, AtMost, Accepted
<1> HIDE DEF n
<1>4. /\ Kept(hs) = SubSeq(headers, 1, n)
      /\ Replaced(hs) = SubSeq(headers, n + 1, Len(headers))
  BY DEF Kept, Replaced, n
<1>5. /\ SubSeq(headers, 1, n) \in Seq(Entry)
      /\ Len(SubSeq(headers, 1, n)) = n
      /\ HeadersOf(SubSeq(headers, 1, n)) = SubSeq(Chain, 1, n)
      /\ \A k \in 1 .. n : HeadersOf(SubSeq(headers, 1, n))[k] = headers[k].header
  <2>1. 1 \in Int /\ n \in Int /\ 1 <= 1 /\ 1 <= n + 1 /\ n <= Len(headers)
    BY <1>1, <1>3
  <2>2. /\ SubSeq(headers, 1, n) \in Seq(Entry)
        /\ Len(SubSeq(headers, 1, n)) = n - 1 + 1
        /\ HeadersOf(SubSeq(headers, 1, n)) = SubSeq(HeadersOf(headers), 1, n)
        /\ \A k \in 1 .. n - 1 + 1 : HeadersOf(SubSeq(headers, 1, n))[k] = headers[1 + k - 1].header
    BY <1>1, <2>1, HeadersOfPart
  <2>3. \A k \in 1 .. n : k \in 1 .. n - 1 + 1 /\ 1 + k - 1 = k
    BY <1>3
  <2>4. n - 1 + 1 = n
    BY <1>3
  <2>5. QED
    BY <2>2, <2>3, <2>4 DEF Chain
<1>6. \A k \in 1 .. n : SubSeq(headers, 1, n)[k] = headers[k]
  BY <1>1, <1>3
<1>7. HeadersOf(SubSeq(headers, n + 1, Len(headers))) = SubSeq(Chain, n + 1, Len(Chain))
  <2>1. n + 1 \in Int /\ Len(headers) \in Int /\ 1 <= n + 1 /\ n + 1 <= Len(headers) + 1
    BY <1>1, <1>3
  <2>2. PICK l \in Int : l = Len(headers)
    BY <1>1
  <2>3. PICK m \in Int : m = n + 1
    BY <2>1
  <2>4. HeadersOf(SubSeq(headers, m, l)) = SubSeq(HeadersOf(headers), m, l)
    BY <1>1, <2>1, <2>2, <2>3, HeadersOfPart
  <2>5. QED
    BY <1>1, <2>2, <2>3, <2>4 DEF Chain
<1>8. HeadersOf(Kept(hs)) \in Seq(Header) /\ Len(HeadersOf(Kept(hs))) = n
  BY <1>4, <1>5, HeadersOfType
<1>9. \A k \in 1 .. n : Chain[k] = headers[k].header
  BY <1>1, <1>3
<1>10. QED
  BY <1>3, <1>4, <1>5, <1>6, <1>7, <1>8, <1>9 DEF n

(* An accepted batch continues the headers it keeps.                        *)
LEMMA BatchLinks ==
    ASSUME IInv, NEW hs, IsBatch(hs), Accepted(hs)
    PROVE  /\ hs[1].height = Chain[KeptLen(hs)].height + 1
           /\ hs[1].prev = Hash(Chain[KeptLen(hs)])
           /\ \A k \in 2 .. Len(hs) : hs[k].prev = Hash(hs[k - 1])
<1> DEFINE q == HeadersOf(Kept(hs))
<1>1. /\ q \in Seq(Header) /\ Len(q) = KeptLen(hs) /\ Len(q) >= 1
      /\ q[Len(q)] = Chain[KeptLen(hs)]
  <2>1. /\ q \in Seq(Header) /\ Len(q) = KeptLen(hs) /\ KeptLen(hs) \in 1 .. Len(headers)
        /\ \A k \in 1 .. KeptLen(hs) : q[k] = Chain[k]
    BY KeptType
  <2> HIDE DEF q
  <2>2. Len(q) >= 1 /\ Len(q) \in 1 .. KeptLen(hs)
    BY <2>1
  <2>3. QED
    BY <2>1, <2>2
<1>2. hs \in Seq(Header) /\ Len(hs) \in Nat /\ Len(hs) >= 1
  BY DEF IsBatch
<1>3. \A k \in 1 .. Len(hs) : Follows(ChainBefore(q, hs, k), hs[k])
  BY DEF Accepted, BatchValid, HeaderValid
<1> HIDE DEF q
<1>4. \A k \in 1 .. Len(hs) :
        /\ hs[k].height = Tip(ChainBefore(q, hs, k)).height + 1
        /\ hs[k].prev = Hash(Tip(ChainBefore(q, hs, k)))
  BY <1>3 DEF Follows
<1>5. 1 \in 1 .. Len(hs) /\ Tip(ChainBefore(q, hs, 1)) = q[Len(q)]
  BY <1>1, <1>2, TipBefore
<1>6. ASSUME NEW k \in 2 .. Len(hs) PROVE hs[k].prev = Hash(hs[k - 1])
  <2>1. k \in 1 .. Len(hs) /\ k # 1
    OBVIOUS
  <2>2. Tip(ChainBefore(q, hs, k)) = hs[k - 1]
    BY <1>1, <1>2, <2>1, TipBefore
  <2>3. QED
    BY <1>4, <2>1, <2>2
<1>7. QED
  BY <1>1, <1>4, <1>5, <1>6

(* The queue with the batch, before the front is pruned.                    *)
Joined(hs) == Kept(hs) \o WithWork(hs)

(* It is the headers kept, then those of the batch, each an entry.          *)
LEMMA JoinedType ==
    ASSUME IInv, NEW hs, IsBatch(hs), Accepted(hs)
    PROVE  /\ Joined(hs) \in Seq(Entry)
           /\ Len(Joined(hs)) = KeptLen(hs) + Len(hs)
           /\ \A k \in 1 .. KeptLen(hs) : HeadersOf(Joined(hs))[k] = Chain[k]
           /\ \A k \in 1 .. Len(hs) : HeadersOf(Joined(hs))[KeptLen(hs) + k] = hs[k]
<1> DEFINE w == WithWork(hs)
           n == KeptLen(hs)
<1>1. hs \in Seq(Header) /\ Len(hs) \in Nat
  BY DEF IsBatch
<1>2. \A k \in 1 .. Len(hs) : w[k].header = hs[k] /\ w[k] \in Entry
  <2> TAKE k \in 1 .. Len(hs)
  <2>1. SubSeq(hs, 1, k) \in Seq(Header)
    BY <1>1
  <2>2. WorkOf(SubSeq(hs, 1, k)) \in Nat
    BY <2>1, WorkOfType
  <2>3. hs[k] \in Header
    BY <1>1, ElementOfSeq
  <2>4. w[k] = [header |-> hs[k], chainWork |-> currentWork + WorkOf(SubSeq(hs, 1, k))]
    BY DEF WithWork
  <2>5. currentWork + WorkOf(SubSeq(hs, 1, k)) \in Int
    BY <2>2 DEF IInv
  <2>6. QED
    BY <2>3, <2>4, <2>5 DEF Entry
<1>3. w \in [1 .. Len(hs) -> Entry]
  BY <1>2 DEF WithWork
<1> HIDE DEF w
<1>4. w \in Seq(Entry) /\ Len(w) = Len(hs)
  BY <1>1, <1>3
<1>5. Kept(hs) \in Seq(Entry) /\ Len(Kept(hs)) = n /\ n \in Nat
  BY KeptType
<1> HIDE DEF n
<1>6. /\ Kept(hs) \o w \in Seq(Entry)
      /\ Len(Kept(hs) \o w) = n + Len(hs)
      /\ \A i \in 1 .. n + Len(hs) : (Kept(hs) \o w)[i] = IF i <= n THEN Kept(hs)[i] ELSE w[i - n]
  <2>1. /\ Kept(hs) \o w \in Seq(Entry)
        /\ Len(Kept(hs) \o w) = Len(Kept(hs)) + Len(w)
        /\ \A i \in 1 .. Len(Kept(hs)) + Len(w) :
              (Kept(hs) \o w)[i] = IF i <= Len(Kept(hs)) THEN Kept(hs)[i] ELSE w[i - Len(Kept(hs))]
    BY <1>4, <1>5, ConcatProperties
  <2>2. Len(Kept(hs)) = n /\ Len(w) = Len(hs)
    BY <1>4, <1>5
  <2>3. QED
    BY <2>1, <2>2
<1>7. ASSUME NEW k \in 1 .. n PROVE HeadersOf(Kept(hs) \o w)[k] = Chain[k]
  <2>1. Chain[k] = Kept(hs)[k].header
    <3>1. HeadersOf(Kept(hs))[k] = Chain[k]
      BY KeptType DEF n
    <3>2. QED
      BY <1>5, <3>1, HeadersOfType
  <2>2. k \in 1 .. n + Len(hs) /\ k <= n
    BY <1>1, <1>5
  <2>3. HeadersOf(Kept(hs) \o w)[k] = (Kept(hs) \o w)[k].header
    BY <1>6, <2>2, HeadersOfType
  <2>4. QED
    BY <1>6, <2>1, <2>2, <2>3
<1>8. ASSUME NEW k \in 1 .. Len(hs) PROVE HeadersOf(Kept(hs) \o w)[n + k] = hs[k]
  <2>1. n + k \in 1 .. n + Len(hs) /\ ~(n + k <= n) /\ (n + k) - n = k
    BY <1>1, <1>5
  <2>2. HeadersOf(Kept(hs) \o w)[n + k] = (Kept(hs) \o w)[n + k].header
    BY <1>6, <2>1, HeadersOfType
  <2>3. (Kept(hs) \o w)[n + k] = w[k]
    BY <1>6, <2>1
  <2>4. w[k].header = hs[k]
    BY <1>2
  <2>5. QED
    BY <2>2, <2>3, <2>4
<1>9. QED
  BY <1>6, <1>7, <1>8 DEF Joined, w, n

(* It is one chain of blocks.                                               *)
LEMMA JoinedIsChain ==
    ASSUME IInv, NEW hs, IsBatch(hs), Accepted(hs)
    PROVE  IsChain(HeadersOf(Joined(hs)))
<1> DEFINE n == KeptLen(hs)
           q == HeadersOf(Joined(hs))
<1>1. /\ n \in Nat /\ n >= 1 /\ n <= Len(Chain)
      /\ Len(Chain) \in Nat
  <2>1. Len(Chain) = Len(headers) /\ Len(headers) \in Nat
    BY HeadersOfType DEF IInv, Chain
  <2>2. QED
    BY <2>1, KeptType
<1>2. Len(hs) \in Nat /\ Len(hs) >= 1
  BY DEF IsBatch
<1>3. /\ Len(q) = n + Len(hs)
      /\ \A k \in 1 .. n : q[k] = Chain[k]
      /\ \A k \in 1 .. Len(hs) : q[n + k] = hs[k]
  BY JoinedType, HeadersOfType
<1>4. /\ hs[1].height = Chain[n].height + 1
      /\ hs[1].prev = Hash(Chain[n])
      /\ \A k \in 2 .. Len(hs) : hs[k].prev = Hash(hs[k - 1])
      /\ \A k \in 1 .. Len(hs) : hs[k].height = hs[1].height + k - 1
  BY BatchLinks DEF IsBatch
<1>5. \A k \in 2 .. n : /\ Chain[k].height = Chain[1].height + k - 1
                        /\ Chain[k].prev = Hash(Chain[k - 1])
  BY <1>1 DEF IInv, IsChain
<1>6. Chain[1].height \in Nat
  <2>1. Chain \in Seq(Header)
    BY HeadersOfType DEF IInv, Chain
  <2>2. Chain[1] \in Header
    BY <1>1, <2>1, ElementOfSeq
  <2>3. QED
    BY <2>2 DEF Header
<1> HIDE DEF n, q
<1>7. Chain[n].height = Chain[1].height + n - 1
  BY <1>1, <1>5, <1>6
<1>8. ASSUME NEW k \in 2 .. Len(q)
      PROVE  q[k].height = q[1].height + k - 1 /\ q[k].prev = Hash(q[k - 1])
  <2>0. q[1] = Chain[1]
    BY <1>1, <1>3
  <2>1. CASE k <= n
    <3>1. k \in 1 .. n /\ k - 1 \in 1 .. n /\ k \in 2 .. n
      BY <1>1, <1>2, <1>3, <2>1
    <3>2. QED
      BY <1>3, <1>5, <2>0, <3>1
  <2>2. CASE k = n + 1
    <3>1. q[n + 1] = hs[1] /\ q[n] = Chain[n]
      BY <1>1, <1>2, <1>3
    <3>2. k - 1 = n
      BY <1>1, <2>2
    <3>3. q[k] = hs[1] /\ q[k - 1] = Chain[n]
      BY <2>2, <3>1, <3>2
    <3>4. q[k].prev = Hash(q[k - 1])
      BY <1>4, <3>3
    <3>5. q[k].height = (Chain[1].height + n - 1) + 1
      BY <1>4, <1>7, <3>3
    <3>6. (Chain[1].height + n - 1) + 1 = Chain[1].height + k - 1
      BY <1>1, <1>6, <2>2
    <3>7. q[k].height = q[1].height + k - 1
      BY <2>0, <3>5, <3>6
    <3>8. QED
      BY <3>4, <3>7
  <2>3. CASE k > n + 1
    <3>1. PICK j \in 2 .. Len(hs) : k = n + j
      <4>1. k - n \in 2 .. Len(hs)
        BY <1>1, <1>2, <1>3, <2>3
      <4>2. k = n + (k - n)
        BY <1>1
      <4>3. QED
        BY <4>1, <4>2
    <3>2. j \in 1 .. Len(hs) /\ j - 1 \in 1 .. Len(hs) /\ k - 1 = n + (j - 1)
      BY <1>1, <1>2, <3>1
    <3>3. q[k] = hs[j] /\ q[k - 1] = hs[j - 1]
      BY <1>3, <3>1, <3>2
    <3>4. q[k].prev = Hash(q[k - 1])
      BY <1>4, <3>1, <3>3
    <3>5. q[k].height = ((Chain[1].height + n - 1) + 1) + j - 1
      BY <1>4, <1>7, <3>2, <3>3
    <3>6. ((Chain[1].height + n - 1) + 1) + j - 1 = Chain[1].height + k - 1
      BY <1>1, <1>6, <3>1
    <3>7. QED
      BY <2>0, <3>4, <3>5, <3>6
  <2>4. QED
    BY <1>1, <1>2, <1>3, <2>1, <2>2, <2>3
<1>9. QED
  BY <1>8 DEF IsChain, q

(* Its work is that of the headers kept and of the batch.                   *)
LEMMA JoinedWork ==
    ASSUME IInv, NEW hs, IsBatch(hs), Accepted(hs)
    PROVE  /\ WorkOf(HeadersOf(Joined(hs))) = WorkOf(HeadersOf(Kept(hs))) + WorkOf(hs)
           /\ WorkOf(Chain) = WorkOf(HeadersOf(Kept(hs))) + WorkOf(HeadersOf(Replaced(hs)))
           /\ WorkOf(HeadersOf(Kept(hs))) \in Nat
           /\ WorkOf(HeadersOf(Replaced(hs))) \in Nat
           /\ WorkOf(hs) \in Nat
<1> DEFINE n == KeptLen(hs)
           q == HeadersOf(Joined(hs))
           l == n + Len(hs)
           p == SubSeq(q, n + 1, l)
<1>1. /\ Chain \in Seq(Header) /\ Len(Chain) = Len(headers)
      /\ Len(headers) \in Nat
  BY HeadersOfType DEF IInv, Chain
<1>2. n \in Nat /\ n >= 1 /\ n <= Len(Chain)
  BY <1>1, KeptType
<1>3. hs \in Seq(Header) /\ Len(hs) \in Nat /\ Len(hs) >= 1
  BY DEF IsBatch
<1>4. /\ q \in Seq(Header)
      /\ Len(q) = l
      /\ \A k \in 1 .. n : q[k] = Chain[k]
      /\ \A k \in 1 .. Len(hs) : q[n + k] = hs[k]
  BY JoinedType, HeadersOfType
<1>5. HeadersOf(Kept(hs)) = SubSeq(Chain, 1, n)
  BY KeptType
<1>6. HeadersOf(Replaced(hs)) = SubSeq(Chain, n + 1, Len(Chain))
  BY KeptType
<1> HIDE DEF n, q
<1>7. SubSeq(q, 1, n) = SubSeq(Chain, 1, n)
  <2>1. \A k \in 1 .. n : q[k] \in Header /\ Chain[k] \in Header
    BY <1>1, <1>2, <1>3, <1>4, ElementOfSeq
  <2>2. /\ SubSeq(q, 1, n) \in Seq(Header)
        /\ Len(SubSeq(q, 1, n)) = n
        /\ \A i \in 1 .. n - 1 + 1 : SubSeq(q, 1, n)[i] = q[1 + i - 1]
    BY <1>2, <2>1, SubSeqProperties
  <2>3. /\ SubSeq(Chain, 1, n) \in Seq(Header)
        /\ Len(SubSeq(Chain, 1, n)) = n
        /\ \A i \in 1 .. n - 1 + 1 : SubSeq(Chain, 1, n)[i] = Chain[1 + i - 1]
    BY <1>2, <2>1, SubSeqProperties
  <2>4. ASSUME NEW i \in 1 .. n PROVE SubSeq(q, 1, n)[i] = SubSeq(Chain, 1, n)[i]
    <3>1. i \in 1 .. n - 1 + 1 /\ 1 + i - 1 = i
      BY <1>2
    <3>2. QED
      BY <1>4, <2>2, <2>3, <3>1
  <2>5. QED
    BY <2>2, <2>3, <2>4, SeqEqual
<1>8. p = hs
  <2>1. \A k \in n + 1 .. l : q[k] \in Header
    BY <1>2, <1>3, <1>4, ElementOfSeq
  <2>2. n + 1 \in Int /\ l \in Int /\ n + 1 <= l /\ l - (n + 1) + 1 = Len(hs)
    BY <1>2, <1>3
  <2>3. /\ p \in Seq(Header)
        /\ Len(p) = l - (n + 1) + 1
        /\ \A i \in 1 .. l - (n + 1) + 1 : p[i] = q[(n + 1) + i - 1]
    BY <2>1, <2>2, SubSeqProperties
  <2> HIDE DEF p
  <2>4. ASSUME NEW i \in 1 .. Len(hs) PROVE p[i] = hs[i]
    <3>1. (n + 1) + i - 1 = n + i
      BY <1>2, <1>3
    <3>2. QED
      BY <1>4, <2>2, <2>3, <3>1
  <2>5. QED
    BY <1>3, <2>2, <2>3, <2>4, SeqEqual
<1>9. WorkOf(q) = WorkOf(SubSeq(q, 1, n)) + WorkOf(p)
  <2>1. n \in 0 .. Len(q)
    BY <1>2, <1>3, <1>4
  <2>2. QED
    BY <1>4, <2>1, WorkOfSplit
<1>10. WorkOf(Chain) = WorkOf(SubSeq(Chain, 1, n)) + WorkOf(SubSeq(Chain, n + 1, Len(Chain)))
  <2>1. n \in 0 .. Len(Chain)
    BY <1>1, <1>2
  <2>2. QED
    BY <1>1, <2>1, WorkOfSplit
<1>11. /\ WorkOf(SubSeq(Chain, 1, n)) \in Nat
       /\ WorkOf(SubSeq(Chain, n + 1, Len(Chain))) \in Nat
       /\ WorkOf(hs) \in Nat
  <2>1. SubSeq(Chain, 1, n) \in Seq(Header) /\ SubSeq(Chain, n + 1, Len(Chain)) \in Seq(Header)
    BY <1>1, <1>2
  <2>2. QED
    BY <1>3, <2>1, WorkOfType
<1>12. WorkOf(q) = WorkOf(SubSeq(Chain, 1, n)) + WorkOf(hs)
  BY <1>7, <1>8, <1>9, Zenon
<1>13. QED
  BY <1>5, <1>6, <1>10, <1>11, <1>12 DEF q

-----------------------------------------------------------------------------
(* Pruning the front.                                                       *)

(* Pruning takes entries off the front only, and always leaves one.         *)
LEMMA PrunedType ==
    ASSUME NEW q \in Seq(Entry), Len(q) >= 1
    PROVE  /\ Excess(q) \in 0 .. Len(q) - 1
           /\ Pruned(q) \in Seq(Entry)
           /\ Len(Pruned(q)) = Len(q) - Excess(q)
           /\ Len(Pruned(q)) \in 1 .. MaxLength
           /\ \A k \in 1 .. Len(Pruned(q)) :
                 HeadersOf(Pruned(q))[k] = HeadersOf(q)[Excess(q) + k]
           /\ IsChain(HeadersOf(q)) => IsChain(HeadersOf(Pruned(q)))
           /\ WorkOf(HeadersOf(q)) = PrunedWork(q) + WorkOf(HeadersOf(Pruned(q)))
           /\ PrunedWork(q) \in Nat
<1> DEFINE e == Excess(q)
           l == Len(q)
           h == HeadersOf(q)
           p == Pruned(q)
           hp == HeadersOf(p)
<1>1. l \in Nat /\ l >= 1 /\ MaxLength \in Nat /\ MaxLength >= 1
  BY HeaderAssumption
<1>2. e \in Nat /\ e <= l - 1 /\ l - e <= MaxLength
  BY <1>1 DEF Excess
<1>3. h \in Seq(Header) /\ Len(h) = l /\ \A k \in 1 .. l : h[k] = q[k].header
  BY HeadersOfType
<1> HIDE DEF e, l, h
<1>4. PICK m \in Int : m = e + 1
  BY <1>2
<1>5. /\ SubSeq(q, m, l) \in Seq(Entry)
      /\ Len(SubSeq(q, m, l)) = l - m + 1
      /\ HeadersOf(SubSeq(q, m, l)) = SubSeq(h, m, l)
      /\ \A k \in 1 .. l - m + 1 : HeadersOf(SubSeq(q, m, l))[k] = q[m + k - 1].header
  <2>1. l \in Int /\ 1 <= m /\ m <= l + 1
    BY <1>1, <1>2, <1>4
  <2>2. l <= Len(q)
    BY <1>1 DEF l
  <2>3. h = HeadersOf(q)
    BY DEF h
  <2>4. QED
    BY <2>1, <2>2, <2>3, HeadersOfPart
<1>6. p = SubSeq(q, m, l)
  BY <1>4 DEF Pruned, e, l
<1> HIDE DEF p
<1>7. p \in Seq(Entry) /\ Len(p) = l - e /\ Len(p) \in 1 .. MaxLength
  BY <1>1, <1>2, <1>4, <1>5, <1>6
<1>8. ASSUME NEW k \in 1 .. Len(p) PROVE hp[k] = h[e + k]
  <2>1. k \in 1 .. l - m + 1 /\ m + k - 1 = e + k /\ e + k \in 1 .. l
    BY <1>1, <1>2, <1>4, <1>7
  <2>2. hp[k] = q[m + k - 1].header
    BY <1>5, <1>6, <2>1
  <2>3. QED
    BY <1>3, <2>1, <2>2
<1>9. ASSUME IsChain(h) PROVE IsChain(hp)
  <2>1. Len(hp) = Len(p)
    BY <1>7, HeadersOfType
  <2>2. h[1].height \in Nat
    <3>1. h[1] \in Header
      BY <1>1, <1>3, ElementOfSeq
    <3>2. QED
      BY <3>1 DEF Header
  <2>3. \A k \in 1 .. l : h[k].height = h[1].height + k - 1
    <3> TAKE k \in 1 .. l
    <3>1. CASE k = 1
      BY <2>2, <3>1
    <3>2. CASE k # 1
      BY <1>1, <1>3, <1>9, <3>2 DEF IsChain
    <3>3. QED
      BY <3>1, <3>2
  <2> HIDE DEF hp
  <2>4. ASSUME NEW k \in 2 .. Len(hp)
        PROVE  hp[k].height = hp[1].height + k - 1 /\ hp[k].prev = Hash(hp[k - 1])
    <3>1. /\ k \in 1 .. Len(p) /\ k - 1 \in 1 .. Len(p) /\ 1 \in 1 .. Len(p)
          /\ e + k \in 2 .. l /\ e + k \in 1 .. l /\ e + 1 \in 1 .. l
          /\ e + (k - 1) = (e + k) - 1
      BY <1>1, <1>2, <1>7, <2>1
    <3>2. hp[k] = h[e + k] /\ hp[k - 1] = h[(e + k) - 1] /\ hp[1] = h[e + 1]
      BY <1>8, <3>1
    <3>3. h[e + k].prev = Hash(h[(e + k) - 1])
      BY <1>3, <1>9, <3>1 DEF IsChain
    <3>4. /\ h[e + k].height = h[1].height + (e + k) - 1
          /\ h[e + 1].height = h[1].height + (e + 1) - 1
      BY <2>3, <3>1
    <3>5. h[1].height + (e + k) - 1 = (h[1].height + (e + 1) - 1) + k - 1
      <4>1. k \in Int
        BY <1>7, <2>1
      <4>2. QED
        BY <1>2, <2>2, <4>1
    <3>6. QED
      BY <3>2, <3>3, <3>4, <3>5
  <2>5. QED
    BY <2>4 DEF IsChain
<1>10. /\ PrunedWork(q) = WorkOf(SubSeq(h, 1, e))
       /\ PrunedWork(q) \in Nat
  <2>1. 1 \in Int /\ e \in Int /\ 1 <= e + 1 /\ e <= Len(q)
    BY <1>1, <1>2 DEF l
  <2>2. HeadersOf(SubSeq(q, 1, e)) = SubSeq(h, 1, e) /\ SubSeq(q, 1, e) \in Seq(Entry)
    BY <2>1, HeadersOfPart DEF h
  <2>3. HeadersOf(SubSeq(q, 1, e)) \in Seq(Header)
    BY <2>2, HeadersOfType
  <2>4. QED
    BY <2>2, <2>3, WorkOfType DEF PrunedWork, e
<1>11. WorkOf(h) = WorkOf(SubSeq(h, 1, e)) + WorkOf(SubSeq(h, e + 1, Len(h)))
  <2>1. e \in 0 .. Len(h)
    BY <1>1, <1>2, <1>3
  <2>2. QED
    BY <1>3, <2>1, WorkOfSplit
<1>12. hp = SubSeq(h, e + 1, Len(h))
  BY <1>3, <1>4, <1>5, <1>6
<1>13. WorkOf(h) = PrunedWork(q) + WorkOf(hp)
  BY <1>10, <1>11, <1>12
<1>14. e \in 0 .. l - 1
  BY <1>1, <1>2
<1>15. QED
  BY <1>7, <1>8, <1>9, <1>10, <1>13, <1>14 DEF e, l, h, p

-----------------------------------------------------------------------------
(* Invariance.                                                              *)

(* The queue of the trusted header alone.                                   *)
LEMMA TrustedInv ==
    /\ TrustedQueue \in Seq(Entry)
    /\ Len(TrustedQueue) = 1
    /\ TrustedQueue[1].header = TrustedHeader
    /\ IsChain(HeadersOf(TrustedQueue))
    /\ WorkOf(HeadersOf(TrustedQueue)) = Work(TrustedBits)
    /\ Work(TrustedBits) \in Nat
<1> DEFINE e == [header |-> TrustedHeader, chainWork |-> Work(TrustedBits)]
<1>1. TrustedBits \in AllBits /\ Work(TrustedBits) \in Nat
  BY BasicTypes DEF AllBits
<1>2. TrustedHeader \in Header
  BY <1>1, HeaderAssumption DEF TrustedHeader, Header, AllTimes, AllBits
<1>3. e \in Entry
  BY <1>1, <1>2 DEF Entry
<1>4. TrustedQueue = <<e>>
  BY DEF TrustedQueue
<1>5. TrustedQueue \in Seq(Entry) /\ Len(TrustedQueue) = 1 /\ TrustedQueue[1] = e
  BY <1>3, <1>4
<1> HIDE DEF e
<1> DEFINE h == HeadersOf(TrustedQueue)
<1>6. h \in Seq(Header) /\ Len(h) = 1 /\ h[1] = TrustedHeader
  <2>1. h \in Seq(Header) /\ Len(h) = 1 /\ h[1] = TrustedQueue[1].header
    BY <1>5, HeadersOfType
  <2>2. e.header = TrustedHeader
    BY DEF e
  <2>3. QED
    BY <1>5, <2>1, <2>2
<1> HIDE DEF h
<1>7. IsChain(h)
  BY <1>6 DEF IsChain
<1>8. WorkOf(h) = Work(TrustedBits)
  <2>1. WorkAt(h)[1] = Work(TrustedBits) /\ WorkOf(h) = SumFunctionOnSet(WorkAt(h), 1 .. 1)
    <3>1. h[1].bits = TrustedBits
      BY <1>6 DEF TrustedHeader
    <3>2. QED
      BY <1>6, <3>1, WorkAtType
  <2>2. 1 .. 1 = {1}
    OBVIOUS
  <2>3. SumFunctionOnSet(WorkAt(h), {1}) = WorkAt(h)[1]
    BY <1>1, <2>1, SumOne
  <2>4. SumFunctionOnSet(WorkAt(h), 1 .. 1) = SumFunctionOnSet(WorkAt(h), {1})
    BY <2>2, Zenon
  <2>5. QED
    BY <2>1, <2>3, <2>4
<1>9. QED
  BY <1>1, <1>5, <1>7, <1>8 DEF e, h

(* instantiate leaves the trusted header alone in the queue.                *)
LEMMA InitInv == Init => IInv
<1> SUFFICES ASSUME Init PROVE IInv
  OBVIOUS
<1>1. headers = TrustedQueue /\ currentWork = Work(TrustedBits)
  BY DEF Init
<1>2. 1 \in 1 .. MaxLength
  BY HeaderAssumption
<1>3. QED
  BY <1>1, <1>2, TrustedInv DEF IInv, Chain

(* So does the owner's update_header_config.                                *)
LEMMA UpdateHeaderConfigInv ==
    ASSUME UpdateHeaderConfig
    PROVE  IInv'
<1>1. headers' = TrustedQueue /\ currentWork' = Work(TrustedBits)
  BY DEF UpdateHeaderConfig
<1>2. 1 \in 1 .. MaxLength
  BY HeaderAssumption
<1>3. IsChain(HeadersOf(headers'))
  BY <1>1, TrustedInv
<1>4. currentWork' - WorkOf(HeadersOf(headers')) \in Nat
  BY <1>1, TrustedInv
<1>5. headers' \in Seq(Entry) /\ Len(headers') \in 1 .. MaxLength /\ currentWork' \in Int
  BY <1>1, <1>2, TrustedInv
<1>6. QED
  BY <1>3, <1>4, <1>5 DEF IInv, Chain

(* relay_headers keeps the invariant: a batch is verified, then pruned.     *)
LEMMA RelayHeadersInv ==
    ASSUME IInv, NEW hs, IsBatch(hs), RelayHeaders(hs)
    PROVE  IInv'
<1> DEFINE q == Joined(hs)
<1>1. Accepted(hs) /\ headers' = Pruned(q)
      /\ currentWork' = currentWork + WorkOf(hs) - PrunedWork(q)
  BY DEF RelayHeaders, Joined
<1>2. q \in Seq(Entry) /\ Len(q) >= 1
  <2>1. Len(hs) \in Nat /\ Len(hs) >= 1 /\ KeptLen(hs) \in Nat
    BY <1>1, KeptType DEF IsBatch
  <2>2. QED
    BY <1>1, <2>1, JoinedType
<1>3. IsChain(HeadersOf(q))
  BY <1>1, JoinedIsChain
<1>4. /\ WorkOf(HeadersOf(q)) = WorkOf(HeadersOf(Kept(hs))) + WorkOf(hs)
      /\ WorkOf(Chain) = WorkOf(HeadersOf(Kept(hs))) + WorkOf(HeadersOf(Replaced(hs)))
      /\ WorkOf(HeadersOf(Kept(hs))) \in Nat
      /\ WorkOf(HeadersOf(Replaced(hs))) \in Nat
      /\ WorkOf(hs) \in Nat
  BY <1>1, JoinedWork
<1> HIDE DEF q
<1>5. /\ Pruned(q) \in Seq(Entry)
      /\ Len(Pruned(q)) \in 1 .. MaxLength
      /\ IsChain(HeadersOf(Pruned(q)))
      /\ WorkOf(HeadersOf(q)) = PrunedWork(q) + WorkOf(HeadersOf(Pruned(q)))
      /\ PrunedWork(q) \in Nat
  BY <1>2, <1>3, PrunedType
<1>6. WorkOf(HeadersOf(Pruned(q))) \in Nat
  <2>1. HeadersOf(Pruned(q)) \in Seq(Header)
    BY <1>5, HeadersOfType
  <2>2. QED
    BY <2>1, WorkOfType
<1>7. currentWork \in Int /\ currentWork - WorkOf(Chain) \in Nat
  BY DEF IInv
<1>8. currentWork' \in Int /\ currentWork' - WorkOf(HeadersOf(headers')) \in Nat
  <2>1. PICK k, a, r, d, w : /\ k = WorkOf(HeadersOf(Kept(hs))) /\ a = WorkOf(hs)
                             /\ r = WorkOf(HeadersOf(Replaced(hs)))
                             /\ d = PrunedWork(q) /\ w = WorkOf(HeadersOf(Pruned(q)))
    OBVIOUS
  <2>2. /\ k \in Nat /\ a \in Nat /\ r \in Nat /\ d \in Nat /\ w \in Nat
        /\ k + a = d + w
        /\ currentWork \in Int /\ currentWork - (k + r) \in Nat
    BY <1>4, <1>5, <1>6, <1>7, <2>1
  <2>3. currentWork' = currentWork + a - d /\ WorkOf(HeadersOf(headers')) = w
    BY <1>1, <2>1
  <2>4. currentWork + a - d \in Int /\ (currentWork + a - d) - w \in Nat
    BY <2>2
  <2>5. QED
    BY <2>3, <2>4
<1>9. /\ headers' \in Seq(Entry)
      /\ Len(headers') \in 1 .. MaxLength
      /\ IsChain(HeadersOf(headers'))
  BY <1>1, <1>5
<1>10. QED
  BY <1>8, <1>9 DEF IInv, Chain

(* A step relays a batch, resets the queue or leaves it alone.              *)
LEMMA NextSteps ==
    ASSUME IInv, [Next]_vars
    PROVE  \/ \E hs : IsBatch(hs) /\ RelayHeaders(hs)
           \/ UpdateHeaderConfig
           \/ UNCHANGED vars
<1>1. CASE Next /\ ~UpdateHeaderConfig
  <2>1. PICK n \in 1 .. MaxRelay, on \in DOMAIN headers,
             height \in headers[1].header.height .. AtMost(Tip(HeadersOf(headers)).height + 1, MaxBest) :
          \E times \in [1 .. n -> Times], bits \in [1 .. n -> Targets] :
             RelayHeaders(Mined(height, Hash(headers[on].header), times, bits))
    BY <1>1 DEF Next
  <2>2. PICK times \in [1 .. n -> Times], bits \in [1 .. n -> Targets] :
             RelayHeaders(Mined(height, Hash(headers[on].header), times, bits))
    BY <2>1
  <2> DEFINE hs == Mined(height, Hash(headers[on].header), times, bits)
  <2>3. /\ hs \in Seq(Header)
        /\ Len(hs) = n
        /\ \A k \in 1 .. n : hs[k].height = hs[1].height + k - 1
    BY MinedType
  <2>4. n >= 1
    BY HeaderAssumption
  <2> HIDE DEF hs
  <2>5. IsBatch(hs)
    BY <2>3, <2>4 DEF IsBatch
  <2>6. RelayHeaders(hs)
    BY <2>2 DEF hs
  <2>7. QED
    BY <2>5, <2>6
<1>2. QED
  BY <1>1

(* Every step keeps the invariant.                                          *)
LEMMA NextInv == IInv /\ [Next]_vars => IInv'
<1> SUFFICES ASSUME IInv, [Next]_vars PROVE IInv'
  OBVIOUS
<1>1. CASE \E hs : IsBatch(hs) /\ RelayHeaders(hs)
  BY <1>1, RelayHeadersInv
<1>2. CASE UpdateHeaderConfig
  BY <1>2, UpdateHeaderConfigInv
<1>3. CASE UNCHANGED vars
  BY <1>3 DEF vars, IInv, Chain
<1>4. QED
  BY <1>1, <1>2, <1>3, NextSteps

(* The inductive invariant holds of every reachable state.                  *)
LEMMA Invariant == Spec => []IInv
BY InitInv, NextInv, PTL DEF Spec

(* add_into_iter, get_by_height: whatever is relayed, reorganised and       *)
(* pruned, the queue is one chain of blocks and a header's place in the     *)
(* deque is its height above the first's.                                   *)
THEOREM QueueIsLinked == Spec => []Linked
<1>1. IInv => Linked
  BY DEF IInv, IsChain, Linked
<1>2. QED
  BY <1>1, Invariant, PTL

(* add_into_iter: the queue is never empty and never longer than            *)
(* max_length, and CURRENT_WORK is at least the work of the headers in the  *)
(* queue, so that taking off the work of those pruned never panics.         *)
THEOREM HeaderTypeCorrect == Spec => []TypeOK
<1>1. IInv => TypeOK
  <2> SUFFICES ASSUME IInv PROVE TypeOK
    OBVIOUS
  <2>1. headers \in Seq(Entry) /\ Chain \in Seq(Header) /\ DOMAIN headers = 1 .. Len(headers)
        /\ Len(Chain) = Len(headers)
    BY HeadersOfType DEF IInv, Chain
  <2>2. ASSUME NEW k \in DOMAIN headers
        PROVE  /\ Chain[k].height \in Nat
               /\ Chain[k].time \in Times \cup {TrustedTime}
               /\ Chain[k].bits \in Targets \cup {TrustedBits}
    <3>1. Chain[k] \in Header
      BY <2>1, ElementOfSeq
    <3>2. QED
      BY <3>1 DEF Header, AllTimes, AllBits
  <2>3. QED
    BY <2>2 DEF TypeOK, IInv
<1>2. QED
  BY <1>1, Invariant, PTL

-----------------------------------------------------------------------------
(* The best branch.                                                         *)

PathWorkAt(b) == [k \in DOMAIN b |-> Work(b[k][2])]

(* A branch is worth its parts.                                             *)
LEMMA BranchWorkType ==
    ASSUME NEW b \in Seq(Block)
    PROVE  /\ \A k \in 1 .. Len(b) : PathWorkAt(b)[k] = Work(b[k][2]) /\ PathWorkAt(b)[k] \in Nat
           /\ BranchWork(b) = SumFunctionOnSet(PathWorkAt(b), 1 .. Len(b))
           /\ BranchWork(b) \in Nat
<1>1. DOMAIN b = 1 .. Len(b)
  OBVIOUS
<1>2. \A k \in 1 .. Len(b) : b[k][2] \in AllBits
  <2>1. \A k \in 1 .. Len(b) : b[k] \in Block
    BY ElementOfSeq
  <2>2. QED
    BY <2>1 DEF Block
<1>3. \A k \in 1 .. Len(b) : PathWorkAt(b)[k] = Work(b[k][2]) /\ PathWorkAt(b)[k] \in Nat
  BY <1>1, <1>2, BasicTypes DEF PathWorkAt
<1>4. DOMAIN PathWorkAt(b) = 1 .. Len(b)
  BY <1>1 DEF PathWorkAt
<1>5. BranchWork(b) = SumFunctionOnSet(PathWorkAt(b), 1 .. Len(b))
  BY <1>1, <1>4 DEF BranchWork, PathWorkAt, SumFunction
<1>6. IsFiniteSet(1 .. Len(b))
  BY FS_Interval
<1>7. QED
  BY <1>3, <1>5, <1>6, SumNat

(* A block adds its work to the branch it extends.                          *)
LEMMA BranchWorkOfHash ==
    ASSUME NEW h \in Header
    PROVE  BranchWork(Hash(h)) = BranchWork(h.prev) + Work(h.bits)
<1> DEFINE b == Hash(h)
           p == h.prev
           n == Len(p)
<1>1. /\ b \in Seq(Block) /\ Len(b) = n + 1
      /\ \A i \in 1 .. n : b[i] = p[i]
      /\ b[n + 1] = <<h.time, h.bits>>
  BY HashType
<1>2. p \in Seq(Block) /\ n \in Nat /\ Work(h.bits) \in Nat
  <2>1. p \in Seq(Block) /\ h.bits \in AllBits
    BY DEF Header
  <2> HIDE DEF p
  <2>2. n \in Nat
    BY <2>1
  <2>3. Work(h.bits) \in Nat
    BY <2>1, BasicTypes
  <2>4. QED
    BY <2>1, <2>2, <2>3
<1> HIDE DEF b, p
<1>3. /\ \A k \in 1 .. n + 1 : PathWorkAt(b)[k] = Work(b[k][2]) /\ PathWorkAt(b)[k] \in Nat
      /\ BranchWork(b) = SumFunctionOnSet(PathWorkAt(b), 1 .. n + 1)
  BY <1>1, BranchWorkType
<1>4. /\ \A k \in 1 .. n : PathWorkAt(p)[k] = Work(p[k][2])
      /\ BranchWork(p) = SumFunctionOnSet(PathWorkAt(p), 1 .. n)
      /\ BranchWork(p) \in Nat
  BY <1>2, BranchWorkType
<1> HIDE DEF n
<1>5. \A k \in 1 .. n : PathWorkAt(b)[k] = PathWorkAt(p)[k]
  <2> TAKE k \in 1 .. n
  <2>1. k \in 1 .. n + 1 /\ b[k] = p[k]
    BY <1>1, <1>2
  <2>2. QED
    BY <1>3, <1>4, <2>1
<1>6. IsFiniteSet(1 .. n)
  BY <1>2, FS_Interval
<1>7. PICK m \in Int : m = n + 1
  BY <1>2
<1>8. SumFunctionOnSet(PathWorkAt(b), 1 .. m)
        = SumFunctionOnSet(PathWorkAt(b), 1 .. n) + PathWorkAt(b)[m]
  <2>1. \A k \in 1 .. m : PathWorkAt(b)[k] \in Int
    BY <1>3, <1>7
  <2>2. n \in Int /\ 1 <= m
    BY <1>2, <1>7
  <2>3. QED
    BY <1>7, <2>1, <2>2, SumLast
<1>9. SumFunctionOnSet(PathWorkAt(b), 1 .. n) = SumFunctionOnSet(PathWorkAt(p), 1 .. n)
  BY <1>5, <1>6, SumSame
<1>10. PathWorkAt(b)[n + 1] = Work(h.bits)
  BY <1>1, <1>2, <1>3
<1>11. QED
  BY <1>2, <1>3, <1>4, <1>7, <1>8, <1>9, <1>10 DEF b, p

(* The branch of a header of a chain: the first's, and what is above it.    *)
OnFirst(q, n) ==
    /\ Len(Hash(q[n])) = Len(Hash(q[1])) + n - 1
    /\ \A i \in 1 .. Len(Hash(q[1])) : Hash(q[n])[i] = Hash(q[1])[i]
    /\ BranchWork(Hash(q[n])) = BranchWork(Hash(q[1])) + SumFunctionOnSet(WorkAt(q), 2 .. n)

(* A chain's hashes extend its first one, with the work in between.         *)
LEMMA BranchOfChain ==
    ASSUME NEW q \in Seq(Header), IsChain(q), NEW n \in 1 .. Len(q)
    PROVE  OnFirst(q, n)
<1> DEFINE Bad == {k \in 1 .. Len(q) : ~OnFirst(q, k)}
<1>1. SUFFICES ASSUME Bad # {} PROVE FALSE
  BY <1>1
<1>2. PICK m \in Bad : \A k \in Bad : m <= k
  <2>1. Bad \in SUBSET Nat
    OBVIOUS
  <2> HIDE DEF Bad
  <2>2. QED
    BY <1>1, <2>1, LeastNat
<1>3. m \in 1 .. Len(q) /\ ~OnFirst(q, m) /\ Len(q) \in Nat /\ m \in Nat
  OBVIOUS
<1>4. q[1] \in Header /\ q[m] \in Header
  BY <1>3, ElementOfSeq
<1>5. BranchWork(Hash(q[1])) \in Nat /\ Len(Hash(q[1])) \in Nat
  BY <1>4, HashType, BranchWorkType
<1>6. CASE m = 1
  <2>1. 2 .. 1 = {}
    OBVIOUS
  <2>2. SumFunctionOnSet(WorkAt(q), 2 .. 1) = 0
    <3>1. SumFunctionOnSet(WorkAt(q), 2 .. 1) = SumFunctionOnSet(WorkAt(q), {})
      BY <2>1, Zenon
    <3>2. QED
      BY <3>1, SumEmpty
  <2>3. OnFirst(q, 1)
    BY <1>5, <2>2 DEF OnFirst
  <2>4. QED
    BY <1>3, <1>6, <2>3
<1>7. CASE m # 1
  <2>1. m - 1 \in 1 .. Len(q) /\ m \in 2 .. Len(q) /\ ~(m <= m - 1)
    BY <1>3, <1>7
  <2>2. OnFirst(q, m - 1)
    <3>1. m - 1 \notin Bad
      BY <1>2, <2>1
    <3>2. QED
      BY <2>1, <3>1
  <2>3. q[m].prev = Hash(q[m - 1]) /\ q[m - 1] \in Header
    BY <2>1, ElementOfSeq DEF IsChain
  <2> DEFINE a == Hash(q[1])
             c == Hash(q[m - 1])
             b == Hash(q[m])
             w == Work(q[m].bits)
             W == WorkAt(q)
  <2>4. /\ c \in Seq(Block) /\ Len(c) \in Nat /\ BranchWork(c) \in Nat
        /\ Len(b) = Len(c) + 1
        /\ \A i \in 1 .. Len(c) : b[i] = c[i]
        /\ BranchWork(b) = BranchWork(c) + w
    <3>1. c \in Seq(Block)
      BY <2>3, HashType
    <3>2. BranchWork(c) \in Nat /\ Len(c) \in Nat
      BY <3>1, BranchWorkType
    <3>3. q[m].prev = c
      BY <2>3
    <3>4. /\ Len(b) = Len(q[m].prev) + 1
          /\ \A i \in 1 .. Len(q[m].prev) : b[i] = q[m].prev[i]
      BY <1>4, HashType
    <3>5. BranchWork(b) = BranchWork(q[m].prev) + w
      BY <1>4, BranchWorkOfHash
    <3> HIDE DEF b, c, w
    <3>6. QED
      BY <3>1, <3>2, <3>3, <3>4, <3>5
  <2>5. /\ Len(c) = Len(a) + (m - 1) - 1
        /\ \A i \in 1 .. Len(a) : c[i] = a[i]
        /\ BranchWork(c) = BranchWork(a) + SumFunctionOnSet(W, 2 .. (m - 1))
    BY <2>2 DEF OnFirst
  <2>6. \A k \in 1 .. Len(q) : W[k] \in Nat /\ W[k] = Work(q[k].bits)
    BY WorkAtType
  <2>7. Len(a) \in Nat /\ BranchWork(a) \in Nat
    BY <1>5
  <2> HIDE DEF a, b, c, w, W, Bad
  <2>8. PICK j \in Int : j = m - 1
    BY <1>3
  <2>9. /\ SumFunctionOnSet(W, 2 .. m) = SumFunctionOnSet(W, 2 .. j) + W[m]
        /\ SumFunctionOnSet(W, 2 .. j) \in Int
    <3>1. \A k \in 2 .. m : W[k] \in Int
      BY <1>3, <2>6
    <3>2. m \in Int /\ m = j + 1 /\ 2 <= m
      BY <1>3, <2>1, <2>8
    <3>3. QED
      BY <3>1, <3>2, SumLast
  <2>12. W[m] = w /\ w \in Nat
    BY <1>3, <2>6 DEF w
  <2>13. BranchWork(b) = BranchWork(a) + SumFunctionOnSet(W, 2 .. m)
    BY <2>4, <2>5, <2>7, <2>8, <2>9, <2>12
  <2>14. Len(b) = Len(a) + m - 1
    BY <1>3, <2>4, <2>5, <2>7
  <2>15. \A i \in 1 .. Len(a) : b[i] = a[i]
    <3> TAKE i \in 1 .. Len(a)
    <3>1. i \in 1 .. Len(c)
      BY <1>3, <2>1, <2>5, <2>7
    <3>2. QED
      BY <2>4, <2>5, <3>1
  <2>16. OnFirst(q, m)
    BY <2>13, <2>14, <2>15 DEF OnFirst, a, b, W
  <2>17. QED
    BY <1>3, <2>16
<1>8. QED
  BY <1>6, <1>7

(* A branch that extends another is longer, and has it as a strict prefix.  *)
LEMMA StrictPrefix ==
    ASSUME NEW a \in Seq(Block), NEW b \in Seq(Block), Len(a) < Len(b),
           \A i \in 1 .. Len(a) : b[i] = a[i]
    PROVE  IsStrictPrefix(a, b)
<1> DEFINE n == Len(a)
<1>1. n \in Nat /\ n <= Len(b) /\ Len(b) \in Nat
  OBVIOUS
<1>2. \A i \in 1 .. n : a[i] \in Block /\ b[i] \in Block
  BY <1>1, ElementOfSeq
<1>3. /\ SubSeq(a, 1, n) \in Seq(Block)
      /\ Len(SubSeq(a, 1, n)) = n
      /\ \A i \in 1 .. n - 1 + 1 : SubSeq(a, 1, n)[i] = a[1 + i - 1]
  BY <1>1, <1>2, SubSeqProperties
<1>4. /\ SubSeq(b, 1, n) \in Seq(Block)
      /\ Len(SubSeq(b, 1, n)) = n
      /\ \A i \in 1 .. n - 1 + 1 : SubSeq(b, 1, n)[i] = b[1 + i - 1]
  BY <1>1, <1>2, SubSeqProperties
<1> HIDE DEF n
<1>5. ASSUME NEW i \in 1 .. n PROVE SubSeq(a, 1, n)[i] = SubSeq(b, 1, n)[i]
  <2>1. i \in 1 .. n - 1 + 1 /\ 1 + i - 1 = i
    BY <1>1
  <2>2. a[i] = b[i]
    BY DEF n
  <2>3. QED
    BY <1>3, <1>4, <2>1, <2>2
<1>6. SubSeq(a, 1, n) = SubSeq(b, 1, n)
  BY <1>3, <1>4, <1>5, SeqEqual
<1>7. a # b
  OBVIOUS
<1>8. QED
  BY <1>1, <1>6, <1>7 DEF IsStrictPrefix, IsPrefix, n

(* Pruning leaves the tip alone.                                            *)
LEMMA PrunedTip ==
    ASSUME NEW q \in Seq(Entry), Len(q) >= 1
    PROVE  Branch(Pruned(q)) = Hash(HeadersOf(q)[Len(q)])
<1> DEFINE p == Pruned(q)
<1>1. /\ Excess(q) \in 0 .. Len(q) - 1
      /\ p \in Seq(Entry)
      /\ Len(p) = Len(q) - Excess(q)
      /\ \A k \in 1 .. Len(p) : HeadersOf(p)[k] = HeadersOf(q)[Excess(q) + k]
  BY PrunedType
<1> HIDE DEF p
<1>2. Len(HeadersOf(p)) = Len(p)
  BY <1>1, HeadersOfType
<1>3. Len(p) \in 1 .. Len(p) /\ Excess(q) + Len(p) = Len(q)
  BY <1>1
<1>4. HeadersOf(p)[Len(p)] = HeadersOf(q)[Len(q)]
  BY <1>1, <1>3
<1>5. QED
  BY <1>2, <1>4 DEF Branch, Tip, p

(* A relayed batch brings a branch of more work that extends the queue's    *)
(* first header.                                                            *)
LEMMA RelayIsBetter ==
    ASSUME IInv, NEW hs, IsBatch(hs), RelayHeaders(hs)
    PROVE  /\ BranchWork(Branch(headers')) > BranchWork(Branch(headers))
           /\ IsStrictPrefix(Hash(headers[1].header), Branch(headers'))
<1> DEFINE j == Joined(hs)
           q == HeadersOf(j)
           n == KeptLen(hs)
           a == Hash(Chain[1])
           Wq == WorkAt(q)
           Wc == WorkAt(Chain)
           r == HeadersOf(Replaced(hs))
<1>1. Accepted(hs) /\ headers' = Pruned(j)
  BY DEF RelayHeaders, Joined
<1>2. /\ headers \in Seq(Entry) /\ Chain \in Seq(Header) /\ IsChain(Chain)
      /\ Len(Chain) = Len(headers) /\ Len(Chain) \in Nat /\ Len(Chain) >= 1
      /\ Chain[1] = headers[1].header
  BY HeadersOfType, HeaderAssumption DEF IInv, Chain
<1>3. n \in Nat /\ n >= 1 /\ n <= Len(Chain)
  BY <1>1, <1>2, KeptType
<1>4. hs \in Seq(Header) /\ Len(hs) \in Nat /\ Len(hs) >= 1
  BY DEF IsBatch
<1>5. /\ j \in Seq(Entry) /\ Len(j) = n + Len(hs)
      /\ \A k \in 1 .. n : q[k] = Chain[k]
      /\ \A k \in 1 .. Len(hs) : q[n + k] = hs[k]
  BY <1>1, JoinedType
<1>6. q \in Seq(Header) /\ Len(q) = n + Len(hs)
  BY <1>5, HeadersOfType
<1>7. IsChain(q)
  BY <1>1, JoinedIsChain
<1>8. Branch(headers') = Hash(q[Len(q)]) /\ Branch(headers) = Hash(Chain[Len(Chain)])
  <2>1. Len(j) >= 1
    BY <1>3, <1>4, <1>5
  <2>2. QED
    BY <1>1, <1>5, <1>6, <2>1, PrunedTip DEF Branch, Tip, Chain
<1>9. q[1] = Chain[1]
  BY <1>3, <1>5
<1>10. /\ WorkOf(q) = WorkOf(HeadersOf(Kept(hs))) + WorkOf(hs)
       /\ WorkOf(Chain) = WorkOf(HeadersOf(Kept(hs))) + WorkOf(r)
       /\ WorkOf(HeadersOf(Kept(hs))) \in Nat /\ WorkOf(r) \in Nat /\ WorkOf(hs) \in Nat
  BY <1>1, JoinedWork
<1>11. WorkOf(hs) > WorkOf(r)
  BY <1>1, <1>10 DEF Accepted, MoreWork
<1> HIDE DEF j, q, n, r
<1>12. /\ Len(q) \in 1 .. Len(q) /\ OnFirst(q, Len(q))
       /\ Len(Chain) \in 1 .. Len(Chain) /\ OnFirst(Chain, Len(Chain))
  <2>1. Len(q) \in 1 .. Len(q) /\ Len(Chain) \in 1 .. Len(Chain)
    BY <1>2, <1>3, <1>4, <1>6
  <2>2. QED
    BY <1>2, <1>6, <1>7, <2>1, BranchOfChain
<1>13. /\ BranchWork(Branch(headers')) = BranchWork(a) + SumFunctionOnSet(Wq, 2 .. Len(q))
       /\ BranchWork(Branch(headers)) = BranchWork(a) + SumFunctionOnSet(Wc, 2 .. Len(Chain))
       /\ Len(Branch(headers')) = Len(a) + Len(q) - 1
       /\ \A i \in 1 .. Len(a) : Branch(headers')[i] = a[i]
  BY <1>8, <1>9, <1>12 DEF OnFirst
<1>14. /\ WorkOf(q) = Wq[1] + SumFunctionOnSet(Wq, 2 .. Len(q))
       /\ WorkOf(Chain) = Wc[1] + SumFunctionOnSet(Wc, 2 .. Len(Chain))
       /\ Wq[1] = Wc[1] /\ Wq[1] \in Nat
       /\ SumFunctionOnSet(Wq, 2 .. Len(q)) \in Int
       /\ SumFunctionOnSet(Wc, 2 .. Len(Chain)) \in Int
  <2>1. ASSUME NEW s \in Seq(Header), Len(s) >= 1
        PROVE  /\ WorkOf(s) = WorkAt(s)[1] + SumFunctionOnSet(WorkAt(s), 2 .. Len(s))
               /\ WorkAt(s)[1] = Work(s[1].bits) /\ WorkAt(s)[1] \in Nat
               /\ SumFunctionOnSet(WorkAt(s), 2 .. Len(s)) \in Int
    <3> DEFINE W == WorkAt(s)
               l == Len(s)
    <3>1. l \in Int /\ l >= 1
      BY <2>1
    <3>2. /\ \A k \in 1 .. l : W[k] \in Nat /\ W[k] = Work(s[k].bits)
          /\ WorkOf(s) = SumFunctionOnSet(W, 1 .. l)
      BY WorkAtType
    <3> HIDE DEF W, l
    <3>3. SumFunctionOnSet(W, 1 .. l) = W[1] + SumFunctionOnSet(W, (1 .. l) \ {1})
      <4>1. IsFiniteSet(1 .. l) /\ 1 \in 1 .. l
        BY <3>1, FS_Interval
      <4>2. \A k \in 1 .. l : W[k] \in Int
        BY <3>2
      <4>3. QED
        BY <4>1, <4>2, SumRemove
    <3>4. SumFunctionOnSet(W, (1 .. l) \ {1}) = SumFunctionOnSet(W, 2 .. l)
      <4>1. (1 .. l) \ {1} = 2 .. l
        BY <3>1
      <4>2. QED
        BY <4>1, Zenon
    <3>5. SumFunctionOnSet(W, 2 .. l) \in Int
      <4>1. IsFiniteSet(2 .. l)
        BY <3>1, FS_Interval
      <4>2. \A k \in 2 .. l : W[k] \in Int
        BY <3>1, <3>2
      <4>3. QED
        BY <4>1, <4>2, SumInt
    <3>6. W[1] = Work(s[1].bits) /\ W[1] \in Nat
      BY <3>1, <3>2
    <3>7. QED
      BY <3>2, <3>3, <3>4, <3>5, <3>6 DEF W, l
  <2>2. Len(q) >= 1
    BY <1>3, <1>4, <1>6
  <2>3. QED
    BY <1>2, <1>6, <1>9, <2>1, <2>2
<1>15. BranchWork(a) \in Nat /\ a \in Seq(Block) /\ Branch(headers') \in Seq(Block)
  <2>1. Chain[1] \in Header /\ q[Len(q)] \in Header
    BY <1>2, <1>6, <1>12, ElementOfSeq
  <2>2. QED
    BY <1>8, <2>1, HashType, BranchWorkType
<1> HIDE DEF a, Wq, Wc
<1>16. BranchWork(Branch(headers')) > BranchWork(Branch(headers))
  <2>1. PICK x, y : /\ x = SumFunctionOnSet(Wq, 2 .. Len(q))
                    /\ y = SumFunctionOnSet(Wc, 2 .. Len(Chain))
    OBVIOUS
  <2>2. PICK f, k, b, c, w : /\ f = Wq[1] /\ k = WorkOf(HeadersOf(Kept(hs)))
                             /\ b = WorkOf(hs) /\ c = WorkOf(r) /\ w = BranchWork(a)
    OBVIOUS
  <2>3. /\ f \in Nat /\ k \in Nat /\ b \in Nat /\ c \in Nat /\ w \in Nat
        /\ x \in Int /\ y \in Int
    BY <1>10, <1>14, <1>15, <2>1, <2>2
  <2>4. k + b = f + x /\ k + c = f + y /\ b > c
    BY <1>10, <1>11, <1>14, <2>1, <2>2
  <2>5. w + x > w + y
    BY <2>3, <2>4
  <2>6. BranchWork(Branch(headers')) = w + x /\ BranchWork(Branch(headers)) = w + y
    BY <1>13, <2>1, <2>2
  <2>7. QED
    BY <2>5, <2>6
<1>17. Len(a) < Len(Branch(headers'))
  <2>1. Len(a) \in Nat
    BY <1>15
  <2>2. QED
    BY <1>3, <1>4, <1>6, <1>13, <2>1
<1>18. IsStrictPrefix(a, Branch(headers'))
  BY <1>13, <1>15, <1>17, StrictPrefix
<1>19. QED
  BY <1>2, <1>16, <1>18 DEF a

(* add: a step other than the owner's reset replaces the best branch only   *)
(* by one of more work from the trusted header on, and never reaches below  *)
(* the first header of the queue.                                           *)
THEOREM OnlyMoreWork == Spec => BestBranch
<1>1. IInv /\ [Next]_vars
        => [\/ headers' = TrustedQueue
            \/ /\ BranchWork(Branch(headers')) > BranchWork(Branch(headers))
               /\ IsStrictPrefix(Hash(headers[1].header), Branch(headers'))]_vars
  <2> SUFFICES ASSUME IInv, [Next]_vars, ~UNCHANGED vars
               PROVE  \/ headers' = TrustedQueue
                      \/ /\ BranchWork(Branch(headers')) > BranchWork(Branch(headers))
                         /\ IsStrictPrefix(Hash(headers[1].header), Branch(headers'))
    OBVIOUS
  <2>1. CASE \E hs : IsBatch(hs) /\ RelayHeaders(hs)
    BY <2>1, RelayIsBetter
  <2>2. CASE UpdateHeaderConfig
    BY <2>2 DEF UpdateHeaderConfig
  <2>3. QED
    BY <2>1, <2>2, NextSteps
<1>2. QED
  BY <1>1, Invariant, PTL DEF Spec, BestBranch

-----------------------------------------------------------------------------
(* Times.                                                                   *)

(* p rearranges the first n numbers of s in ascending order.                *)
IsSorting(p, s, n) ==
    /\ p \in [1 .. n -> 1 .. n]
    /\ \A i, j \in 1 .. n : p[i] = p[j] => i = j
    /\ \A k \in 1 .. n : \E i \in 1 .. n : p[i] = k
    /\ \A i, j \in 1 .. n : i < j => s[p[i]] <= s[p[j]]

(* k is the place of a largest of the first n numbers of s.                 *)
IsLargest(k, s, n) == k \in 1 .. n /\ \A i \in 1 .. n : s[i] <= s[k]

(* Among finitely many numbers there is a largest.                          *)
LEMMA LargestExists ==
    ASSUME NEW n \in Nat, n > 0, NEW s \in [1 .. n -> Int]
    PROVE  \E k : IsLargest(k, s, n)
<1> DEFINE Bad == {m \in Nat : m > 0 /\ m <= n /\ ~\E k : IsLargest(k, s, m)}
<1> SUFFICES ASSUME ~\E k : IsLargest(k, s, n) PROVE FALSE
  OBVIOUS
<1>1. n \in Bad
  OBVIOUS
<1>2. Bad \in SUBSET Nat
  OBVIOUS
<1>3. PICK m \in Bad : \A j \in Bad : m <= j
  <2> HIDE DEF Bad
  <2> QED BY <1>1, <1>2, LeastNat
<1>4. CASE m = 1
  <2>1. IsLargest(1, s, 1)
    BY DEF IsLargest
  <2> QED BY <1>4, <2>1
<1>5. CASE m # 1
  <2>1. m - 1 \in Nat /\ m - 1 > 0 /\ m - 1 <= n /\ m - 1 \notin Bad /\ m \in 1 .. n
    BY <1>3, <1>5
  <2>2. PICK k : IsLargest(k, s, m - 1)
    BY <2>1
  <2>3. k \in 1 .. m - 1 /\ \A i \in 1 .. m - 1 : s[i] <= s[k]
    BY <2>2 DEF IsLargest
  <2>4. s[k] \in Int /\ s[m] \in Int /\ \A i \in 1 .. m - 1 : s[i] \in Int
    BY <2>1, <2>3
  <2>5. CASE s[k] <= s[m]
    <3>1. IsLargest(m, s, m)
      BY <2>1, <2>3, <2>4, <2>5 DEF IsLargest
    <3> QED BY <3>1
  <2>6. CASE ~(s[k] <= s[m])
    <3>1. IsLargest(k, s, m)
      BY <2>1, <2>3, <2>4, <2>6 DEF IsLargest
    <3> QED BY <3>1
  <2> QED BY <2>5, <2>6
<1> QED BY <1>4, <1>5

(* u is s without its last number, which stands in for the m-th.            *)
IsRest(u, s, m, n) == u = [k \in 1 .. n - 1 |-> IF k = m THEN s[n] ELSE s[k]]

(* Moving the largest to the end and sorting the rest sorts all.            *)
LEMMA SortingStep ==
    ASSUME NEW n \in Nat, n > 0, NEW s \in [1 .. n -> Int],
           NEW m, IsLargest(m, s, n),
           NEW u, IsRest(u, s, m, n), NEW l, l = n - 1, NEW r, IsSorting(r, u, l)
    PROVE  \E p : IsSorting(p, s, n)
<1> DEFINE p == [i \in 1 .. n |-> IF i = n THEN m ELSE IF r[i] = m THEN n ELSE r[i]]
<1>1. /\ m \in 1 .. n /\ \A i \in 1 .. n : s[i] <= s[m]
      /\ r \in [1 .. n - 1 -> 1 .. n - 1]
      /\ \A i, j \in 1 .. n - 1 : r[i] = r[j] => i = j
      /\ \A k \in 1 .. n - 1 : \E i \in 1 .. n - 1 : r[i] = k
      /\ \A i, j \in 1 .. n - 1 : i < j => u[r[i]] <= u[r[j]]
  BY DEF IsLargest, IsSorting
<1>0. u = [k \in 1 .. n - 1 |-> IF k = m THEN s[n] ELSE s[k]]
  BY DEF IsRest
<1>2. /\ p[n] = m
      /\ \A i \in 1 .. n - 1 : p[i] = (IF r[i] = m THEN n ELSE r[i]) /\ p[i] \in 1 .. n
      /\ \A i \in 1 .. n - 1 : r[i] \in 1 .. n - 1
  <2>1. p[n] = m
    OBVIOUS
  <2>2. \A i \in 1 .. n - 1 : r[i] \in 1 .. n - 1
    BY <1>1
  <2>3. ASSUME NEW i \in 1 .. n - 1
        PROVE  p[i] = (IF r[i] = m THEN n ELSE r[i]) /\ p[i] \in 1 .. n
    <3>1. i \in 1 .. n /\ i # n
      OBVIOUS
    <3>2. r[i] \in 1 .. n /\ n \in 1 .. n
      BY <2>2
    <3> QED BY <3>1, <3>2
  <2> QED BY <2>1, <2>2, <2>3
<1>3. p \in [1 .. n -> 1 .. n]
  BY <1>1
<1> HIDE DEF p
<1>4. \A i \in 1 .. n - 1 : p[i] # m /\ s[p[i]] = u[r[i]]
  <2> SUFFICES ASSUME NEW i \in 1 .. n - 1 PROVE p[i] # m /\ s[p[i]] = u[r[i]]
    OBVIOUS
  <2>1. r[i] \in 1 .. n - 1
    BY <1>2
  <2>2. u[r[i]] = IF r[i] = m THEN s[n] ELSE s[r[i]]
    BY <1>0, <2>1
  <2>3. p[i] = IF r[i] = m THEN n ELSE r[i]
    BY <1>2
  <2>4. CASE r[i] = m
    BY <2>1, <2>2, <2>3, <2>4
  <2>5. CASE r[i] # m
    BY <2>1, <2>2, <2>3, <2>5
  <2> QED BY <2>4, <2>5
<1>5. ASSUME NEW i \in 1 .. n, NEW j \in 1 .. n, p[i] = p[j] PROVE i = j
  <2>1. CASE i = n \/ j = n
    BY <1>2, <1>4, <1>5, <2>1
  <2>2. CASE i # n /\ j # n
    <3>1. i \in 1 .. n - 1 /\ j \in 1 .. n - 1
      BY <2>2
    <3>2. r[i] = r[j]
      BY <1>2, <1>5, <3>1
    <3> QED BY <1>1, <3>1, <3>2
  <2> QED BY <2>1, <2>2
<1>6. ASSUME NEW k \in 1 .. n PROVE \E i \in 1 .. n : p[i] = k
  <2>1. CASE k = m
    BY <1>2, <2>1
  <2>2. CASE k # m /\ k = n
    <3>1. m \in 1 .. n - 1
      BY <1>1, <2>2
    <3>2. PICK i \in 1 .. n - 1 : r[i] = m
      BY <1>1, <3>1
    <3>3. p[i] = n /\ i \in 1 .. n
      BY <1>2, <3>2
    <3> QED BY <2>2, <3>3
  <2>3. CASE k # m /\ k # n
    <3>1. k \in 1 .. n - 1
      BY <2>3
    <3>2. PICK i \in 1 .. n - 1 : r[i] = k
      BY <1>1, <3>1
    <3>3. p[i] = k /\ i \in 1 .. n
      BY <1>2, <2>3, <3>2
    <3> QED BY <3>3
  <2> QED BY <2>1, <2>2, <2>3
<1>7. ASSUME NEW i \in 1 .. n, NEW j \in 1 .. n, i < j PROVE s[p[i]] <= s[p[j]]
  <2>1. i \in 1 .. n - 1
    BY <1>7
  <2>2. CASE j = n
    BY <1>1, <1>2, <1>3, <2>2
  <2>3. CASE j # n
    <3>1. j \in 1 .. n - 1
      BY <2>3
    <3> QED BY <1>1, <1>4, <1>7, <2>1, <3>1
  <2> QED BY <2>2, <2>3
<1> QED BY <1>3, <1>5, <1>6, <1>7 DEF IsSorting

(* Every list of numbers can be sorted.                                     *)
LEMMA SortingExists ==
    ASSUME NEW n \in Nat, NEW s \in [1 .. n -> Int]
    PROVE  \E p : IsSorting(p, s, n)
<1> DEFINE Bad == {m \in Nat : \E t \in [1 .. m -> Int] : ~\E p : IsSorting(p, t, m)}
<1>1. SUFFICES ASSUME Bad # {} PROVE FALSE
  OBVIOUS
<1>2. Bad \in SUBSET Nat
  OBVIOUS
<1>3. PICK m \in Bad : \A j \in Bad : m <= j
  <2> HIDE DEF Bad
  <2> QED BY <1>1, <1>2, LeastNat
<1>4. PICK t \in [1 .. m -> Int] : ~\E p : IsSorting(p, t, m)
  BY <1>3
<1>5. CASE m = 0
  <2>1. IsSorting([i \in 1 .. 0 |-> i], t, 0)
    BY DEF IsSorting
  <2> QED BY <1>4, <1>5, <2>1
<1>6. CASE m # 0
  <2>1. m \in Nat /\ m > 0 /\ m - 1 \in Nat /\ m - 1 \notin Bad
    <3> HIDE DEF Bad
    <3> QED BY <1>2, <1>3, <1>6
  <2>2. PICK k : IsLargest(k, t, m)
    BY <1>4, <2>1, LargestExists
  <2>3. PICK u : u = [i \in 1 .. m - 1 |-> IF i = k THEN t[m] ELSE t[i]]
    OBVIOUS
  <2>7. IsRest(u, t, k, m)
    BY <2>3 DEF IsRest
  <2>4. u \in [1 .. m - 1 -> Int]
    <3>1. \A i \in 1 .. m : t[i] \in Int
      BY <1>4
    <3> QED BY <2>1, <2>3, <3>1
  <2>5. PICK r : IsSorting(r, u, m - 1)
    BY <2>1, <2>4
  <2> HIDE DEF Bad
  <2>6. \E p : IsSorting(p, t, m)
    <3>1. PICK l : l = m - 1
      OBVIOUS
    <3>2. IsSorting(r, u, l)
      BY <2>5, <3>1
    <3>3. m \in Nat /\ m > 0
      BY <2>1
    <3> QED BY <1>4, <2>2, <2>7, <3>1, <3>2, <3>3, SortingStep
  <2> QED BY <1>4, <2>6
<1> QED BY <1>5, <1>6

(* So Sorted is the list sorted.                                            *)
LEMMA SortedIs ==
    ASSUME NEW n \in Nat, NEW s \in [1 .. n -> Int]
    PROVE  \E p : IsSorting(p, s, n) /\ Sorted(s) = [i \in 1 .. n |-> s[p[i]]]
<1> DEFINE B == Bijection(1 .. n, 1 .. n)
           T == {[i \in 1 .. n |-> s[p[i]]] : p \in B}
           Up(t) == \A i, j \in 1 .. n : i < j => t[i] <= t[j]
<1>1. Sorted(s) = CHOOSE t \in T : Up(t)
  BY DEF Sorted
<1>2. PICK r : IsSorting(r, s, n)
  BY SortingExists
<1>3. r \in B
  BY <1>2 DEF IsSorting, Bijection, Injection, Surjection, IsInjective
<1>4. [i \in 1 .. n |-> s[r[i]]] \in T /\ Up([i \in 1 .. n |-> s[r[i]]])
  BY <1>2, <1>3 DEF IsSorting
<1>5. Sorted(s) \in T /\ Up(Sorted(s))
  <2> HIDE DEF T, Up
  <2> QED BY <1>1, <1>4
<1>6. PICK p \in B : Sorted(s) = [i \in 1 .. n |-> s[p[i]]]
  BY <1>5
<1>7. /\ p \in [1 .. n -> 1 .. n]
      /\ \A i, j \in 1 .. n : p[i] = p[j] => i = j
      /\ \A k \in 1 .. n : \E i \in 1 .. n : p[i] = k
  BY <1>6 DEF Bijection, Injection, Surjection, IsInjective
<1>8. \A i, j \in 1 .. n : i < j => s[p[i]] <= s[p[j]]
  BY <1>5, <1>6
<1> QED BY <1>6, <1>7, <1>8 DEF IsSorting

(* What is above more than half of a list is above its middle element.      *)
LEMMA AboveMiddle ==
    ASSUME NEW n \in Nat, n > 0, NEW s \in [1 .. n -> Int], NEW t \in Int,
           NEW L, L = {j \in 1 .. n : s[j] < t}, 2 * Cardinality(L) > n
    PROVE  Sorted(s)[(n + 1) \div 2] < t
<1>1. PICK m \in Nat : m = (n + 1) \div 2 /\ 1 <= m /\ m <= n /\ 2 * m <= n + 1
  OBVIOUS
<1>2. PICK p : IsSorting(p, s, n) /\ Sorted(s) = [i \in 1 .. n |-> s[p[i]]]
  BY SortedIs
<1>3. /\ p \in [1 .. n -> 1 .. n]
      /\ \A i, j \in 1 .. n : p[i] = p[j] => i = j
      /\ \A k \in 1 .. n : \E i \in 1 .. n : p[i] = k
      /\ \A i, j \in 1 .. n : i < j => s[p[i]] <= s[p[j]]
  BY <1>2 DEF IsSorting
<1>4. m \in 1 .. n /\ Sorted(s)[m] = s[p[m]] /\ s[p[m]] \in Int
  <2>1. m \in 1 .. n
    BY <1>1
  <2>2. Sorted(s)[m] = s[p[m]]
    BY <1>2, <2>1
  <2>3. p[m] \in 1 .. n
    BY <1>3, <2>1
  <2> QED BY <2>1, <2>2, <2>3
<1> SUFFICES ASSUME ~(s[p[m]] < t) PROVE FALSE
  BY <1>1, <1>4
<1> DEFINE I == {i \in 1 .. m - 1 : p[i] \in L}
           f == [i \in I |-> p[i]]
<1>5. \A j \in L : \E i \in I : p[i] = j
  <2> SUFFICES ASSUME NEW j \in L PROVE \E i \in I : p[i] = j
    OBVIOUS
  <2>1. j \in 1 .. n /\ s[j] < t
    OBVIOUS
  <2>2. PICK i \in 1 .. n : p[i] = j
    BY <1>3, <2>1
  <2>3. i # m
    BY <2>1, <2>2
  <2>4. ~(m < i)
    <3>1. SUFFICES ASSUME m < i PROVE FALSE
      OBVIOUS
    <3>2. s[p[m]] <= s[p[i]]
      BY <1>3, <1>4, <3>1
    <3>3. s[p[i]] \in Int /\ s[p[i]] < t
      BY <2>1, <2>2
    <3> QED BY <1>4, <3>2, <3>3
  <2>5. i \in 1 .. m - 1
    BY <1>1, <2>3, <2>4
  <2> QED BY <2>2, <2>5
<1>6. f \in Surjection(I, L)
  <2>1. f \in [I -> L]
    OBVIOUS
  <2>2. \A j \in L : \E i \in I : f[i] = j
    BY <1>5
  <2> QED BY <2>1, <2>2 DEF Surjection
<1>7. IsFiniteSet(1 .. m - 1) /\ Cardinality(1 .. m - 1) = m - 1
  <2>1. PICK l \in Int : l = m - 1 /\ l >= 0
    BY <1>1
  <2>2. /\ IsFiniteSet(1 .. l)
        /\ Cardinality(1 .. l) = IF 1 > l THEN 0 ELSE l - 1 + 1
    BY FS_Interval, 1 \in Int, Zenon
  <2> QED BY <2>1, <2>2
<1>8. I \in SUBSET (1 .. m - 1)
  OBVIOUS
<1> HIDE DEF I, f
<1>9. IsFiniteSet(I) /\ Cardinality(I) <= m - 1 /\ Cardinality(I) \in Nat
  <2>1. PICK R : R = 1 .. m - 1
    OBVIOUS
  <2>2. IsFiniteSet(I) /\ Cardinality(I) <= Cardinality(R)
    BY <1>7, <1>8, <2>1, FS_Subset
  <2>3. Cardinality(I) \in Nat
    BY <2>2, FS_CardinalityType
  <2> QED BY <1>7, <2>1, <2>2, <2>3
<1>10. IsFiniteSet(L) /\ Cardinality(L) <= Cardinality(I)
  BY <1>6, <1>9, FS_Surjection
<1>11. Cardinality(L) \in Nat
  BY <1>10, FS_CardinalityType
<1> QED BY <1>1, <1>9, <1>10, <1>11

(* Header k of q is later than more than half of the MedianSpan before it.  *)
Later(q, k) == 2 * Cardinality({d \in 1 .. MedianSpan : q[k - d].time < q[k].time}) > MedianSpan

(* The inductive invariant of validate_time.                                *)
MInv == \A k \in (MedianSpan + 1) .. Len(Chain) : Later(Chain, k)

(* Header k of q and header l of r have the same time, and so have the      *)
(* MedianSpan before them.                                                  *)
SameTimes(q, k, r, l) == \A d \in 0 .. MedianSpan : q[k - d].time = r[l - d].time

(* Being later depends on these times only.                                 *)
LEMMA LaterMoved ==
    ASSUME NEW q, NEW k \in Int, NEW r, NEW l \in Int, SameTimes(q, k, r, l), Later(q, k)
    PROVE  Later(r, l)
<1>1. q[k].time = r[l].time
  <2>1. q[k - 0].time = r[l - 0].time
    BY HeaderAssumption DEF SameTimes
  <2> QED BY <2>1
<1>2. \A d \in 1 .. MedianSpan : q[k - d].time = r[l - d].time
  BY HeaderAssumption DEF SameTimes
<1>3. {d \in 1 .. MedianSpan : q[k - d].time < q[k].time}
        = {d \in 1 .. MedianSpan : r[l - d].time < r[l].time}
  BY <1>1, <1>2
<1> QED BY <1>3 DEF Later

(* The chain c is q followed by the headers of hs before the k-th.          *)
IsBefore(c, q, hs, k) ==
    /\ c \in Seq(Header)
    /\ Len(c) = Len(q) + k - 1
    /\ \A i \in 1 .. Len(q) : c[i] = q[i]
    /\ \A i \in 1 .. k - 1 : c[Len(q) + i] = hs[i]

(* The headers a batch is verified against.                                 *)
LEMMA BeforeFields ==
    ASSUME NEW q \in Seq(Header), Len(q) >= 1, NEW hs \in Seq(Header),
           NEW k \in 1 .. Len(hs), NEW c, c = ChainBefore(q, hs, k)
    PROVE  IsBefore(c, q, hs, k)
<1> DEFINE t == SubSeq(hs, 1, k - 1)
<1>1. \A i \in 1 .. (k - 1) : hs[i] \in Header
  OBVIOUS
<1>2. /\ t \in Seq(Header)
      /\ Len(t) = k - 1
      /\ \A i \in 1 .. (k - 1) - 1 + 1 : t[i] = hs[1 + i - 1]
  BY <1>1, SubSeqProperties
<1>3. c = q \o t
  BY DEF ChainBefore
<1> HIDE DEF t
<1>4. /\ c \in Seq(Header)
      /\ Len(c) = Len(q) + Len(t)
      /\ \A i \in 1 .. Len(q) + Len(t) : c[i] = IF i <= Len(q) THEN q[i] ELSE t[i - Len(q)]
  <2>1. /\ q \o t \in Seq(Header)
        /\ Len(q \o t) = Len(q) + Len(t)
        /\ \A i \in 1 .. Len(q) + Len(t) : (q \o t)[i] = IF i <= Len(q) THEN q[i] ELSE t[i - Len(q)]
    BY <1>2, ConcatProperties
  <2> QED BY <1>3, <2>1
<1>5. Len(q) \in Nat /\ k - 1 \in Nat
  OBVIOUS
<1>6. ASSUME NEW i \in 1 .. Len(q) PROVE c[i] = q[i]
  <2>1. i \in 1 .. Len(q) + Len(t) /\ i <= Len(q)
    BY <1>2, <1>5
  <2> QED BY <1>4, <2>1
<1>7. ASSUME NEW i \in 1 .. k - 1 PROVE c[Len(q) + i] = hs[i]
  <2>1. Len(q) + i \in 1 .. Len(q) + Len(t) /\ ~(Len(q) + i <= Len(q)) /\ (Len(q) + i) - Len(q) = i
    BY <1>2, <1>5
  <2>2. c[Len(q) + i] = t[i]
    BY <1>4, <2>1
  <2>3. t[i] = hs[i]
    BY <1>2
  <2> QED BY <2>2, <2>3
<1> QED BY <1>2, <1>4, <1>5, <1>6, <1>7 DEF IsBefore

(* validate_time counts the same headers by their place.                    *)
LEMMA AfterIsLater ==
    ASSUME NEW c \in Seq(Header), Len(c) >= MedianSpan, NEW time, AfterMedian(c, time),
           NEW r, NEW l, l = Len(c) + 1, r[l].time = time,
           \A i \in 1 .. Len(c) : r[i].time = c[i].time
    PROVE  Later(r, l)
<1> DEFINE last == (Len(c) - MedianSpan + 1) .. Len(c)
           A == {k \in last : c[k].time < time}
           B == {d \in 1 .. MedianSpan : r[l - d].time < r[l].time}
           f == [k \in A |-> l - k]
<1>1. Len(c) \in Nat /\ MedianSpan \in Nat /\ l \in Int
  BY HeaderAssumption
<1>2. 2 * Cardinality(A) > MedianSpan
  BY DEF AfterMedian
<1>3. \A k \in last : l - k \in 1 .. MedianSpan /\ l - (l - k) = k /\ r[k].time = c[k].time
  BY <1>1
<1>4. \A k \in A : l - k \in B
  BY <1>1, <1>3
<1>5. \A d \in B : l - d \in A /\ l - (l - d) = d
  <2> SUFFICES ASSUME NEW d \in B PROVE l - d \in A /\ l - (l - d) = d
    OBVIOUS
  <2>1. l - d \in last /\ l - (l - d) = d
    BY <1>1
  <2> QED BY <1>3, <2>1
<1>6. f \in Bijection(A, B)
  <2>1. f \in [A -> B]
    BY <1>4
  <2>2. \A k, m \in A : f[k] = f[m] => k = m
    BY <1>1
  <2>3. \A d \in B : \E k \in A : f[k] = d
    BY <1>5
  <2> HIDE DEF f, A, B
  <2> QED BY <2>1, <2>2, <2>3 DEF Bijection, Injection, Surjection, IsInjective
<1>7. IsFiniteSet(last) /\ A \in SUBSET last
  <2>1. PICK a \in Int, b \in Int : a = Len(c) - MedianSpan + 1 /\ b = Len(c)
    BY <1>1
  <2>2. IsFiniteSet(a .. b)
    BY FS_Interval
  <2>3. A \in SUBSET last
    OBVIOUS
  <2> HIDE DEF A
  <2> QED BY <2>1, <2>2, <2>3
<1> HIDE DEF A, f, last
<1>8. IsFiniteSet(A)
  BY <1>7, FS_Subset
<1>9. Cardinality(B) = Cardinality(A)
  <2> HIDE DEF B
  <2>1. ExistsBijection(A, B)
    BY <1>6 DEF ExistsBijection
  <2> QED BY <1>8, <2>1, FS_Bijection
<1> QED BY <1>2, <1>9 DEF Later

(* Every header of the queue with the batch is later, as those kept were    *)
(* and those added have been checked to be.                                 *)
LEMMA JoinedLater ==
    ASSUME IInv, MInv, NEW hs, IsBatch(hs), Accepted(hs)
    PROVE  \A k \in (MedianSpan + 1) .. Len(Joined(hs)) : Later(HeadersOf(Joined(hs)), k)
<1> DEFINE n == KeptLen(hs)
           q == HeadersOf(Kept(hs))
           j == HeadersOf(Joined(hs))
<1>1. /\ n \in Nat /\ n >= 1 /\ n <= Len(headers)
      /\ q \in Seq(Header) /\ Len(q) = n
      /\ \A k \in 1 .. n : q[k] = Chain[k]
  BY KeptType
<1>2. /\ hs \in Seq(Header) /\ Len(hs) \in Nat /\ Len(hs) >= 1
      /\ Len(Joined(hs)) = n + Len(hs)
      /\ \A k \in 1 .. n : j[k] = Chain[k]
      /\ \A k \in 1 .. Len(hs) : j[n + k] = hs[k]
  BY JoinedType DEF IsBatch
<1>3. Len(Chain) = Len(headers) /\ Len(headers) \in Nat /\ MedianSpan \in Nat
  BY HeadersOfType, HeaderAssumption DEF IInv, Chain
<1>4. \A k \in 1 .. Len(hs) :
         Len(ChainBefore(q, hs, k)) >= MedianSpan => AfterMedian(ChainBefore(q, hs, k), hs[k].time)
  BY DEF Accepted, BatchValid, HeaderValid
<1> HIDE DEF n, q, j
<1> SUFFICES ASSUME NEW k \in (MedianSpan + 1) .. n + Len(hs) PROVE Later(j, k)
  BY <1>2 DEF j
<1>5. CASE k <= n
  <2>1. k \in (MedianSpan + 1) .. Len(Chain)
    BY <1>1, <1>2, <1>3, <1>5
  <2>2. Later(Chain, k) /\ k \in Int
    BY <2>1 DEF MInv
  <2>3. SameTimes(Chain, k, j, k)
    <3> SUFFICES ASSUME NEW d \in 0 .. MedianSpan PROVE Chain[k - d].time = j[k - d].time
      BY DEF SameTimes
    <3>1. k - d \in 1 .. n
      BY <1>1, <1>2, <1>3, <1>5
    <3> QED BY <1>2, <3>1
  <2> QED BY <2>2, <2>3, LaterMoved
<1>6. CASE ~(k <= n)
  <2>1. PICK i \in 1 .. Len(hs) : k = n + i
    <3>1. k - n \in 1 .. Len(hs) /\ k = n + (k - n)
      BY <1>1, <1>2, <1>3, <1>6
    <3> QED BY <3>1
  <2>2. PICK c : c = ChainBefore(q, hs, i)
    OBVIOUS
  <2>3. /\ c \in Seq(Header)
        /\ Len(c) = n + i - 1
        /\ \A m \in 1 .. n : c[m] = q[m]
        /\ \A m \in 1 .. i - 1 : c[n + m] = hs[m]
    <3>1. IsBefore(c, q, hs, i)
      <4>1. q \in Seq(Header) /\ hs \in Seq(Header) /\ Len(q) >= 1
        BY <1>1, <1>2
      <4> QED BY <2>2, <4>1, BeforeFields
    <3>2. Len(q) = n
      BY <1>1
    <3> QED BY <3>1, <3>2 DEF IsBefore
  <2>4. \A m \in 1 .. Len(c) : j[m].time = c[m].time
    <3> SUFFICES ASSUME NEW m \in 1 .. Len(c) PROVE j[m] = c[m]
      OBVIOUS
    <3>1. CASE m <= n
      <4>1. m \in 1 .. n
        BY <3>1
      <4> QED BY <1>1, <1>2, <2>3, <4>1
    <3>2. CASE ~(m <= n)
      <4>1. m - n \in 1 .. i - 1 /\ m - n \in 1 .. Len(hs) /\ n + (m - n) = m
        BY <1>1, <1>2, <2>1, <2>3, <3>2
      <4>2. c[n + (m - n)] = hs[m - n] /\ j[n + (m - n)] = hs[m - n]
        BY <1>2, <2>3, <4>1
      <4> QED BY <4>1, <4>2
    <3> QED BY <3>1, <3>2
  <2>5. k = Len(c) + 1 /\ Len(c) >= MedianSpan
    BY <1>1, <1>3, <2>1, <2>3
  <2>6. j[k].time = hs[i].time
    BY <1>2, <2>1
  <2>7. AfterMedian(c, hs[i].time)
    BY <1>4, <2>2, <2>5
  <2> QED BY <2>3, <2>4, <2>5, <2>6, <2>7, AfterIsLater
<1> QED BY <1>5, <1>6

(* relay_headers keeps the times right, also when it prunes.                *)
LEMMA RelayTimes ==
    ASSUME IInv, MInv, NEW hs, IsBatch(hs), RelayHeaders(hs)
    PROVE  MInv'
<1> DEFINE q == Joined(hs)
           h == HeadersOf(q)
           p == HeadersOf(Pruned(q))
           e == Excess(q)
<1>1. Accepted(hs) /\ headers' = Pruned(q)
  BY DEF RelayHeaders, Joined
<1>2. q \in Seq(Entry) /\ Len(q) >= 1
  <2>1. Len(hs) \in Nat /\ Len(hs) >= 1 /\ KeptLen(hs) \in Nat
    BY <1>1, KeptType DEF IsBatch
  <2>2. QED
    BY <1>1, <2>1, JoinedType
<1>3. \A k \in (MedianSpan + 1) .. Len(q) : Later(h, k)
  BY <1>1, JoinedLater
<1> HIDE DEF q
<1>4. /\ e \in 0 .. Len(q) - 1
      /\ Len(Pruned(q)) = Len(q) - e
      /\ Pruned(q) \in Seq(Entry)
      /\ \A k \in 1 .. Len(Pruned(q)) : p[k] = h[e + k]
  BY <1>2, PrunedType
<1>5. Len(p) = Len(q) - e /\ Len(q) \in Nat /\ MedianSpan \in Nat
  BY <1>2, <1>4, HeadersOfType, HeaderAssumption
<1> HIDE DEF h, e
<1>6. ASSUME NEW k \in (MedianSpan + 1) .. Len(p) PROVE Later(p, k)
  <2> HIDE DEF p
  <2>1. e + k \in (MedianSpan + 1) .. Len(q)
    BY <1>4, <1>5
  <2>2. Later(h, e + k) /\ e + k \in Int /\ k \in Int
    BY <1>3, <2>1
  <2>3. SameTimes(h, e + k, p, k)
    <3> SUFFICES ASSUME NEW d \in 0 .. MedianSpan PROVE h[(e + k) - d].time = p[k - d].time
      BY DEF SameTimes
    <3>1. k - d \in 1 .. Len(Pruned(q)) /\ e + (k - d) = (e + k) - d
      BY <1>4, <1>5
    <3>2. p[k - d] = h[e + (k - d)]
      BY <1>4, <3>1
    <3> QED BY <3>1, <3>2
  <2>4. PICK l \in Int : l = e + k
    BY <2>2
  <2> QED BY <2>2, <2>3, <2>4, LaterMoved
<1>7. Chain' = p
  BY <1>1 DEF Chain
<1> HIDE DEF p
<1>8. \A k \in (MedianSpan + 1) .. Len(Chain') : Later(Chain', k)
  BY <1>6, <1>7
<1> QED BY <1>8 DEF MInv, Later

(* validate_time, through any sequence of batches, reorganisations, prunes  *)
(* and resets: a header is later than the median of the MedianSpan before   *)
(* it, the middle element of their sorted times, as long as these are in    *)
(* the queue.                                                               *)
THEOREM TimesAboveMedian == Spec => []MedianTime
<1>1. Init => MInv
  <2> SUFFICES ASSUME Init PROVE MInv
    OBVIOUS
  <2>1. Len(Chain) = 1 /\ MedianSpan \in Nat /\ MedianSpan >= 1
    BY TrustedInv, HeadersOfType, HeaderAssumption DEF Init, Chain
  <2> QED BY <2>1 DEF MInv
<1>2. IInv /\ MInv /\ [Next]_vars => MInv'
  <2> SUFFICES ASSUME IInv, MInv, [Next]_vars PROVE MInv'
    OBVIOUS
  <2>1. CASE \E hs : IsBatch(hs) /\ RelayHeaders(hs)
    BY <2>1, RelayTimes
  <2>2. CASE UpdateHeaderConfig
    <3>1. Len(Chain') = 1 /\ MedianSpan \in Nat /\ MedianSpan >= 1
      BY <2>2, TrustedInv, HeadersOfType, HeaderAssumption DEF UpdateHeaderConfig, Chain
    <3> QED BY <3>1 DEF MInv
  <2>3. CASE UNCHANGED vars
    BY <2>3 DEF vars, MInv, Later, Chain
  <2> QED BY <2>1, <2>2, <2>3, NextSteps
<1>3. IInv /\ MInv => MedianTime
  <2> SUFFICES ASSUME IInv, MInv, NEW k \in (MedianSpan + 1) .. Len(Chain),
                      NEW before, before = [j \in 1 .. MedianSpan |-> Chain[k - j].time]
               PROVE  Chain[k].time > Sorted(before)[(MedianSpan + 1) \div 2]
    BY DEF MedianTime
  <2>1. /\ Chain \in Seq(Header) /\ Len(Chain) \in Nat
        /\ MedianSpan \in Nat /\ MedianSpan > 0
    BY HeadersOfType, HeaderAssumption DEF IInv, Chain
  <2>2. \A i \in 1 .. Len(Chain) : Chain[i].time \in Int
    <3> SUFFICES ASSUME NEW i \in 1 .. Len(Chain) PROVE Chain[i].time \in Int
      OBVIOUS
    <3>1. Chain[i] \in Header
      BY <2>1, ElementOfSeq
    <3>2. Chain[i].time \in AllTimes
      BY <3>1 DEF Header
    <3>3. AllTimes \subseteq Nat
      BY BasicTypes
    <3>4. PICK x \in AllTimes : x = Chain[i].time
      BY <3>2
    <3>5. x \in Int
      BY <3>3
    <3> QED BY <3>4, <3>5
  <2>3. before \in [1 .. MedianSpan -> Int]
    <3>1. \A j \in 1 .. MedianSpan : k - j \in 1 .. Len(Chain)
      BY <2>1
    <3> QED BY <2>2, <3>1
  <2>4. PICK t \in Int : t = Chain[k].time
    <3>1. k \in 1 .. Len(Chain)
      BY <2>1
    <3> QED BY <2>2, <3>1
  <2>5. PICK L : L = {j \in 1 .. MedianSpan : before[j] < t}
    OBVIOUS
  <2>6. L = {d \in 1 .. MedianSpan : Chain[k - d].time < Chain[k].time}
    BY <2>4, <2>5
  <2>7. 2 * Cardinality(L) > MedianSpan
    BY <2>6 DEF MInv, Later
  <2>8. Sorted(before)[(MedianSpan + 1) \div 2] < t
    BY <2>1, <2>3, <2>5, <2>7, AboveMiddle
  <2> QED BY <2>4, <2>8
<1> QED BY <1>1, <1>2, <1>3, Invariant, PTL DEF Spec

-----------------------------------------------------------------------------
(* Targets.                                                                 *)

(* A header claims the height its branch gives it.                          *)
Based(h) == h.height = TrustedHeight + Len(h.prev)

(* The blocks of a chain, in the branch of its n-th header.                 *)
InPath(q, n) ==
    /\ Len(Hash(q[n])) = Len(q[1].prev) + n
    /\ \A m \in 1 .. n : Hash(q[n])[Len(q[1].prev) + m] = <<q[m].time, q[m].bits>>

(* A chain's headers are the last blocks of their branch.                   *)
LEMMA PathOfChain ==
    ASSUME NEW q \in Seq(Header), IsChain(q), NEW n \in 1 .. Len(q)
    PROVE  InPath(q, n)
<1> DEFINE Bad == {k \in 1 .. Len(q) : ~InPath(q, k)}
<1> SUFFICES ASSUME ~InPath(q, n) PROVE FALSE
  OBVIOUS
<1>1. n \in Bad /\ Bad \in SUBSET Nat
  OBVIOUS
<1>2. PICK m \in Bad : \A k \in Bad : m <= k
  <2> HIDE DEF Bad
  <2> QED BY <1>1, LeastNat
<1>3. m \in 1 .. Len(q) /\ ~InPath(q, m) /\ Len(q) \in Nat
  BY <1>2
<1>4. \A k \in 1 .. Len(q) : q[k] \in Header
  OBVIOUS
<1>5. PICK b \in Nat : b = Len(q[1].prev)
  <2>1. q[1] \in Header
    BY <1>3, <1>4
  <2>2. q[1].prev \in Seq(Block)
    BY <2>1 DEF Header
  <2> QED BY <2>2
<1>6. PICK p : p = q[m]
  OBVIOUS
<1>7. /\ p \in Header
      /\ Len(Hash(p)) = Len(p.prev) + 1
      /\ \A i \in 1 .. Len(p.prev) : Hash(p)[i] = p.prev[i]
      /\ Hash(p)[Len(p.prev) + 1] = <<p.time, p.bits>>
  BY <1>3, <1>4, <1>6, HashType
<1>8. CASE m = 1
  <2>1. Len(p.prev) = b
    BY <1>5, <1>6, <1>8
  <2>2. Len(Hash(q[1])) = b + 1 /\ Hash(q[1])[b + 1] = <<q[1].time, q[1].bits>>
    BY <1>6, <1>7, <1>8, <2>1
  <2>3. InPath(q, 1)
    BY <1>5, <2>2 DEF InPath
  <2> QED BY <1>3, <1>8, <2>3
<1>9. CASE m # 1
  <2>1. m - 1 \in 1 .. Len(q) /\ m \in 2 .. Len(q) /\ m - 1 \notin Bad
    BY <1>2, <1>3, <1>9
  <2>2. InPath(q, m - 1)
    BY <2>1
  <2>3. p.prev = Hash(q[m - 1])
    BY <1>6, <2>1 DEF IsChain
  <2>4. Len(p.prev) = b + (m - 1)
    BY <1>5, <2>2, <2>3 DEF InPath
  <2>5. Len(Hash(p)) = b + m
    BY <1>3, <1>7, <2>4
  <2>6. ASSUME NEW k \in 1 .. m PROVE Hash(p)[b + k] = <<q[k].time, q[k].bits>>
    <3>1. CASE k = m
      <4>1. b + k = Len(p.prev) + 1
        BY <1>3, <2>4, <3>1
      <4> QED BY <1>6, <1>7, <3>1, <4>1
    <3>2. CASE k # m
      <4>1. k \in 1 .. m - 1 /\ b + k \in 1 .. Len(p.prev)
        BY <1>3, <2>4, <3>2
      <4>2. p.prev[b + k] = <<q[k].time, q[k].bits>>
        BY <1>5, <2>2, <2>3, <4>1 DEF InPath
      <4> QED BY <1>7, <4>1, <4>2
    <3> QED BY <3>1, <3>2
  <2>7. InPath(q, m)
    BY <1>5, <1>6, <2>5, <2>6 DEF InPath
  <2> QED BY <1>3, <2>7
<1> QED BY <1>8, <1>9

(* Chain c, from height low to height top, is the end of the branch path.   *)
Tracks(c, path, low, top) ==
    /\ low \in Nat /\ top \in Nat /\ TrustedHeight <= low /\ low <= top
    /\ First(c) = low /\ Tip(c).height = top
    /\ Tip(c) = At(c, top)
    /\ Len(path) = top - TrustedHeight + 1
    /\ \A h \in low .. top : path[h - TrustedHeight + 1] = <<At(c, h).time, At(c, h).bits>>

(* A chain tracks its branch.                                               *)
LEMMA ChainTracks ==
    ASSUME NEW c \in Seq(Header), Len(c) >= 1, IsChain(c), Based(c[1])
    PROVE  \E low, top : Tracks(c, Hash(Tip(c)), low, top) /\ top - low + 1 = Len(c)
<1>1. PICK n \in Nat : n = Len(c) /\ n >= 1
  OBVIOUS
<1>2. c[1] \in Header /\ c[n] \in Header
  BY <1>1
<1>3. PICK b \in Nat : b = Len(c[1].prev)
  <2>1. c[1].prev \in Seq(Block)
    BY <1>2 DEF Header
  <2> QED BY <2>1
<1>4. PICK low \in Nat : low = c[1].height
  BY <1>2 DEF Header
<1>5. low = TrustedHeight + b /\ TrustedHeight \in Nat
  BY <1>3, <1>4, HeaderAssumption DEF Based
<1>6. c[n].height = low + n - 1
  <2>1. CASE n = 1
    BY <1>4, <2>1
  <2>2. CASE n # 1
    BY <1>1, <1>4, <2>2 DEF IsChain
  <2> QED BY <2>1, <2>2
<1>7. PICK top \in Nat : top = low + n - 1
  BY <1>1
<1>8. InPath(c, n)
  BY <1>1, PathOfChain
<1>9. PICK path : path = Hash(c[n])
  OBVIOUS
<1>10. Len(path) = b + n /\ \A m \in 1 .. n : path[b + m] = <<c[m].time, c[m].bits>>
  BY <1>3, <1>8, <1>9 DEF InPath
<1>11. Tip(c) = c[n] /\ First(c) = low /\ top - low + 1 = n
  BY <1>1, <1>4, <1>7 DEF Tip, First
<1>12. ASSUME NEW h \in low .. top
       PROVE  At(c, h) = c[h - low + 1] /\ path[h - TrustedHeight + 1] = <<At(c, h).time, At(c, h).bits>>
  <2>1. At(c, h) = c[h - low + 1]
    BY <1>11 DEF At
  <2>2. h - low + 1 \in 1 .. n /\ h - TrustedHeight + 1 = b + (h - low + 1)
    BY <1>5, <1>7
  <2>3. path[b + (h - low + 1)] = <<c[h - low + 1].time, c[h - low + 1].bits>>
    BY <1>10, <2>2
  <2> QED BY <2>1, <2>2, <2>3
<1>13. At(c, top) = c[n]
  <2>1. top \in low .. top /\ top - low + 1 = n
    BY <1>1, <1>7
  <2> QED BY <1>12, <2>1
<1>14. Tracks(c, path, low, top)
  <2>1. low \in Nat /\ top \in Nat /\ TrustedHeight <= low /\ low <= top
    BY <1>1, <1>5, <1>7
  <2>2. First(c) = low /\ Tip(c).height = top /\ Tip(c) = At(c, top)
    BY <1>6, <1>7, <1>11, <1>13
  <2>3. Len(path) = top - TrustedHeight + 1
    BY <1>5, <1>7, <1>10
  <2>4. \A h \in low .. top : path[h - TrustedHeight + 1] = <<At(c, h).time, At(c, h).bits>>
    BY <1>12
  <2> QED BY <2>1, <2>2, <2>3, <2>4 DEF Tracks
<1> QED BY <1>1, <1>9, <1>11, <1>14

(* The largest of some numbers, when one is known to be.                    *)
LEMMA MaxIs ==
    ASSUME NEW S \in SUBSET Int, NEW x \in S, \A y \in S : x >= y
    PROVE  Max(S) = x
<1>1. Max(S) \in S /\ \A y \in S : Max(S) >= y
  BY DEF Max
<1>2. PICK m \in S : m = Max(S)
  BY <1>1
<1>3. m >= x /\ x >= m /\ m \in Int /\ x \in Int
  BY <1>1, <1>2
<1>4. m = x
  BY <1>3
<1> QED BY <1>2, <1>4

(* There is a largest of some natural numbers up to n.                      *)
LEMMA MaxUpTo ==
    ASSUME NEW n \in Nat, NEW S, S \subseteq 0 .. n, S # {}
    PROVE  Max(S) \in S /\ \A y \in S : Max(S) >= y
<1> DEFINE T == {n - y : y \in S}
<1>1. T \in SUBSET Nat /\ T # {}
  <2>1. \A y \in S : n - y \in Nat
    OBVIOUS
  <2>2. PICK y : y \in S
    OBVIOUS
  <2> QED BY <2>1, <2>2
<1>2. PICK m \in T : \A t \in T : m <= t
  BY <1>1, LeastNat
<1>3. PICK x \in S : m = n - x
  BY <1>2
<1>4. \A y \in S : x >= y
  <2> SUFFICES ASSUME NEW y \in S PROVE x >= y
    OBVIOUS
  <2>1. n - x <= n - y
    BY <1>2, <1>3
  <2> QED BY <2>1
<1> QED BY <1>4 DEF Max

(* Cached heights are in the queue; and the value cached under one is right *)
(* whenever a search gets to it, past minimum-difficulty headers only.      *)
CacheOK(c, cached) ==
    \A h \in cached :
        /\ h \in First(c) .. Tip(c).height - 1
        /\ (\A g \in h + 1 .. Tip(c).height : At(c, g).bits = MaxTarget /\ g % RetargetInterval # 0)
             => At(c, h).bits = MaxTarget

(* A search that stops at height s has gone past minimum-difficulty headers *)
(* of the same period only, and s is the first of a period or another one.  *)
StoppedAt(c, s, top) ==
    /\ \A g \in s + 1 .. top : At(c, g).bits = MaxTarget /\ g % RetargetInterval # 0
    /\ s % RetargetInterval = 0 \/ At(c, s).bits # MaxTarget

(* The search sees the bits that are there, in spite of the cache.          *)
LEMMA SearchStops ==
    ASSUME NEW c, NEW path, NEW low, NEW top, Tracks(c, path, low, top),
           NEW cached, CacheOK(c, cached),
           NEW s, s = StopHeight(c, cached), Readable(c, cached, s)
    PROVE  /\ s \in low .. top
           /\ \A h \in s .. top : Seen(c, cached, h) = At(c, h).bits
           /\ StoppedAt(c, s, top)
<1> DEFINE S == {h \in 0 .. top : ~GoesOn(c, cached, h)}
           Wrong == {d \in Nat : s <= top - d /\ Seen(c, cached, top - d) # At(c, top - d).bits}
<1>1. low \in Nat /\ top \in Nat /\ First(c) = low /\ Tip(c).height = top /\ low <= top
  BY DEF Tracks
<1>2. s = Max(S)
  BY <1>1 DEF StopHeight
<1>3. 0 \in S
  BY <1>1 DEF GoesOn
<1>4. S \subseteq 0 .. top
  OBVIOUS
<1>5. s \in S /\ \A h \in S : s >= h
  <2> HIDE DEF S
  <2> QED BY <1>1, <1>2, <1>3, <1>4, MaxUpTo
<1>6. s \in 0 .. top /\ ~GoesOn(c, cached, s) /\ \A g \in s + 1 .. top : GoesOn(c, cached, g)
  BY <1>1, <1>5
<1> HIDE DEF S
<1>7. s \in low .. top
  <2>1. CASE s \in cached
    BY <1>1, <1>6, <2>1 DEF CacheOK
  <2>2. CASE s \notin cached
    BY <1>1, <1>6, <2>2 DEF Readable
  <2> QED BY <2>1, <2>2
<1>8. \A g \in s + 1 .. top : Seen(c, cached, g) = MaxTarget /\ g % RetargetInterval # 0
  BY <1>6 DEF GoesOn
<1>9. Wrong = {}
  <2> SUFFICES ASSUME Wrong # {} PROVE FALSE
    OBVIOUS
  <2>1. Wrong \in SUBSET Nat
    OBVIOUS
  <2>2. PICK d \in Wrong : \A e \in Wrong : d <= e
    <3> HIDE DEF Wrong
    <3> QED BY <2>1, LeastNat
  <2>3. d \in Nat /\ s <= top - d /\ Seen(c, cached, top - d) # At(c, top - d).bits
    BY <2>2
  <2>4. PICK h \in s .. top : h = top - d
    BY <1>1, <1>6, <2>3
  <2>5. h \in cached /\ h # top /\ Seen(c, cached, h) = MaxTarget
    BY <1>1, <2>3, <2>4 DEF Seen
  <2>6. ASSUME NEW g \in h + 1 .. top PROVE At(c, g).bits = MaxTarget /\ g % RetargetInterval # 0
    <3>1. g \in s + 1 .. top /\ top - g \in Nat /\ top - g < d /\ top - (top - g) = g
      BY <1>1, <1>6, <2>3, <2>4
    <3>2. top - g \notin Wrong
      <4> HIDE DEF Wrong
      <4> QED BY <2>1, <2>2, <3>1
    <3>3. Seen(c, cached, g) = At(c, g).bits
      <4>1. s <= g
        BY <1>6, <3>1
      <4> QED BY <3>1, <3>2, <4>1
    <3> QED BY <1>8, <3>1, <3>3
  <2>7. At(c, h).bits = MaxTarget
    BY <1>1, <2>5, <2>6 DEF CacheOK
  <2> QED BY <2>3, <2>4, <2>5, <2>7
<1>10. ASSUME NEW h \in s .. top PROVE Seen(c, cached, h) = At(c, h).bits
  <2>1. top - h \in Nat /\ s <= top - (top - h) /\ top - (top - h) = h
    BY <1>1, <1>6
  <2>2. top - h \notin Wrong
    BY <1>9
  <2> QED BY <2>1, <2>2
<1>11. \A g \in s + 1 .. top : At(c, g).bits = MaxTarget /\ g % RetargetInterval # 0
  <2> SUFFICES ASSUME NEW g \in s + 1 .. top PROVE At(c, g).bits = MaxTarget /\ g % RetargetInterval # 0
    OBVIOUS
  <2>1. g \in s .. top
    BY <1>6
  <2> QED BY <1>8, <1>10, <2>1
<1>12. s % RetargetInterval = 0 \/ At(c, s).bits # MaxTarget
  <2>1. Seen(c, cached, s) = At(c, s).bits
    BY <1>6, <1>10
  <2>2. CASE s > 0
    BY <1>6, <2>1, <2>2 DEF GoesOn
  <2>3. CASE s = 0
    BY <2>3, HeaderAssumption
  <2> QED BY <1>6, <2>2, <2>3
<1> QED BY <1>7, <1>10, <1>11, <1>12 DEF StoppedAt

(* Dividing by the length of a period.                                      *)
LEMMA DivMod ==
    ASSUME NEW r \in Nat, r > 0, NEW a \in Nat
    PROVE  a \div r \in Nat /\ a % r \in 0 .. r - 1 /\ a = (r * (a \div r)) + (a % r)
  OBVIOUS

(* Multiples of r that are less than r apart are equal.                     *)
LEMMA SameMultiple ==
    ASSUME NEW r \in Nat, r > 0, NEW x \in Nat, NEW y \in Nat,
           x % r = 0, y % r = 0, x <= y, y < x + r
    PROVE  x = y
<1>1. PICK i \in Nat : x = r * i
  <2>1. x \div r \in Nat /\ x = (r * (x \div r)) + (x % r)
    BY DivMod
  <2>2. x = r * (x \div r)
    BY <2>1
  <2> QED BY <2>1, <2>2
<1>2. PICK j \in Nat : y = r * j
  <2>1. y \div r \in Nat /\ y = (r * (y \div r)) + (y % r)
    BY DivMod
  <2>2. y = r * (y \div r)
    BY <2>1
  <2> QED BY <2>1, <2>2
<1>3. r * (j - i) = y - x
  BY <1>1, <1>2
<1>4. CASE j - i >= 1
  <2>1. r * (j - i) >= r * 1
    BY <1>4
  <2> QED BY <1>3, <2>1
<1>5. CASE j - i <= 0
  <2>1. r * (j - i) <= r * 0
    BY <1>5
  <2> QED BY <1>3, <2>1
<1> QED BY <1>4, <1>5

(* The first number of a's period.                                          *)
LEMMA PeriodFirst ==
    ASSUME NEW r \in Nat, r > 0, NEW a \in Nat, NEW p, p = a - (a % r)
    PROVE  p \in Nat /\ p <= a /\ a < p + r /\ p % r = 0
<1>1. a \div r \in Nat /\ a % r \in 0 .. r - 1 /\ a = (r * (a \div r)) + (a % r)
  BY DivMod
<1>2. PICK k \in Nat : k = a \div r
  BY <1>1
<1>3. p = r * k /\ p <= a /\ a < p + r
  BY <1>1, <1>2
<1>4. p \in Nat
  BY <1>3
<1>5. PICK j \in Nat, m \in 0 .. r - 1 : p = r * j + m /\ m = p % r
  BY <1>4, DivMod
<1>6. r * (k - j) = m
  BY <1>3, <1>5
<1>7. m = 0
  <2>1. CASE k - j >= 1
    <3>1. r * (k - j) >= r * 1
      BY <2>1
    <3> QED BY <1>6, <3>1
  <2>2. CASE k - j <= 0
    <3>1. r * (k - j) <= r * 0
      BY <2>2
    <3> QED BY <1>6, <3>1
  <2> QED BY <2>1, <2>2
<1> QED BY <1>3, <1>4, <1>5, <1>7

(* The blocks of the branch in the period of the next one that do not have  *)
(* the minimum difficulty.                                                  *)
NextHeight(path) == TrustedHeight + Len(path)

Normal(path) ==
    {k \in 1 .. Len(path) :
        /\ TrustedHeight + k - 1 >= NextHeight(path) - (NextHeight(path) % RetargetInterval)
        /\ path[k][2] # MaxTarget}

(* Bitcoin's rule, case by case.                                            *)
LEMMA RuleCases ==
    ASSUME NEW path, NEW t
    PROVE  /\ NextHeight(path) % RetargetInterval = 0 /\ Retargeting =>
                RuleTarget(path, t)
                  = Retargeted(path[Len(path)][2],
                               path[Len(path)][1] - path[Len(path) + 1 - RetargetInterval][1])
           /\ NextHeight(path) % RetargetInterval = 0 /\ ~Retargeting =>
                RuleTarget(path, t) = path[Len(path)][2]
           /\ NextHeight(path) % RetargetInterval # 0 /\ ~MinDifficultyBlocks =>
                RuleTarget(path, t) = path[Len(path)][2]
           /\ NextHeight(path) % RetargetInterval # 0 /\ MinDifficultyBlocks =>
                RuleTarget(path, t)
                  = IF t > path[Len(path)][1] + 2 * TargetSpacing \/ Normal(path) = {}
                    THEN MaxTarget ELSE path[Max(Normal(path))][2]
<1> DEFINE n == Len(path)
           height == TrustedHeight + n
           period == {k \in 1 .. n : TrustedHeight + k - 1 >= height - (height % RetargetInterval)}
<1>1. {k \in period : path[k][2] # MaxTarget} = Normal(path)
  BY DEF Normal, NextHeight
<1>2. CASE NextHeight(path) % RetargetInterval = 0 /\ Retargeting
  BY <1>2 DEF RuleTarget, NextHeight
<1>3. CASE NextHeight(path) % RetargetInterval = 0 /\ ~Retargeting
  BY <1>3 DEF RuleTarget, NextHeight
<1>4. CASE NextHeight(path) % RetargetInterval # 0 /\ ~MinDifficultyBlocks
  BY <1>4 DEF RuleTarget, NextHeight
<1>5. CASE NextHeight(path) % RetargetInterval # 0 /\ MinDifficultyBlocks
  BY <1>1, <1>5 DEF RuleTarget, NextHeight
<1> QED BY <1>2, <1>3, <1>4, <1>5

(* Where the search stops is the target the rule looks for.                 *)
LEMMA SearchIsRule ==
    ASSUME NEW c, NEW path, NEW low, NEW top, Tracks(c, path, low, top),
           NEW s \in low .. top, StoppedAt(c, s, top), (top + 1) % RetargetInterval # 0
    PROVE  At(c, s).bits = IF Normal(path) = {} THEN MaxTarget ELSE path[Max(Normal(path))][2]
<1>1. /\ low \in Nat /\ top \in Nat /\ TrustedHeight <= low /\ low <= top
      /\ TrustedHeight \in Nat /\ RetargetInterval \in Nat /\ RetargetInterval > 0
      /\ s \in Nat /\ low <= s /\ s <= top
  BY HeaderAssumption DEF Tracks
<1>2. NextHeight(path) = top + 1 /\ Len(path) = top - TrustedHeight + 1
  BY <1>1 DEF Tracks, NextHeight
<1>3. PICK a \in Nat : a = top + 1
  BY <1>1
<1>4. PICK p : p = a - (a % RetargetInterval)
  OBVIOUS
<1>5. p \in Nat /\ p <= a /\ a < p + RetargetInterval /\ p % RetargetInterval = 0
  BY <1>1, <1>4, PeriodFirst
<1>6. \A g \in s + 1 .. top : At(c, g).bits = MaxTarget /\ g % RetargetInterval # 0
  BY DEF StoppedAt
<1>7. p <= s
  <2> SUFFICES ASSUME ~(p <= s) PROVE FALSE
    OBVIOUS
  <2>1. p # a
    BY <1>3, <1>5
  <2>2. p \in s + 1 .. top
    BY <1>1, <1>3, <1>5, <2>1
  <2> QED BY <1>5, <1>6, <2>2
<1>8. \A h \in low .. top : path[h - TrustedHeight + 1] = <<At(c, h).time, At(c, h).bits>>
  BY DEF Tracks
<1>9. PICK x \in 1 .. Len(path) : x = s - TrustedHeight + 1
  BY <1>1, <1>2
<1>10. path[x][2] = At(c, s).bits
  BY <1>8, <1>9
<1>11. Normal(path) = {k \in 1 .. Len(path) : TrustedHeight + k - 1 >= p /\ path[k][2] # MaxTarget}
  BY <1>2, <1>3, <1>4 DEF Normal
<1>12. ASSUME NEW k \in Normal(path) PROVE k \in Int /\ x >= k
  <2>1. k \in 1 .. Len(path) /\ path[k][2] # MaxTarget
    BY <1>11
  <2> SUFFICES ASSUME ~(x >= k) PROVE FALSE
    BY <2>1
  <2>2. PICK g \in s + 1 .. top : g = TrustedHeight + k - 1
    BY <1>1, <1>2, <1>9, <2>1
  <2>3. path[g - TrustedHeight + 1] = <<At(c, g).time, At(c, g).bits>>
    <3>1. g \in low .. top
      BY <1>1, <2>2
    <3> QED BY <1>8, <3>1
  <2>4. g - TrustedHeight + 1 = k
    BY <1>1, <2>1, <2>2
  <2>5. path[k][2] = At(c, g).bits
    BY <2>3, <2>4
  <2> QED BY <1>6, <2>1, <2>5
<1>13. CASE At(c, s).bits # MaxTarget
  <2>1. x \in Normal(path)
    BY <1>1, <1>7, <1>9, <1>10, <1>11, <1>13
  <2>2. Max(Normal(path)) = x
    <3>1. Normal(path) \in SUBSET Int /\ \A y \in Normal(path) : x >= y
      BY <1>12
    <3> QED BY <2>1, <3>1, MaxIs
  <2> QED BY <1>10, <2>1, <2>2
<1>14. CASE At(c, s).bits = MaxTarget
  <2>1. s % RetargetInterval = 0
    BY <1>14 DEF StoppedAt
  <2>2. s < p + RetargetInterval
    BY <1>1, <1>3, <1>5
  <2>3. p = s
    BY <1>1, <1>5, <1>7, <2>1, <2>2, SameMultiple
  <2>4. Normal(path) = {}
    <3> SUFFICES ASSUME NEW k \in Normal(path) PROVE FALSE
      OBVIOUS
    <3>1. k \in 1 .. Len(path) /\ TrustedHeight + k - 1 >= s /\ path[k][2] # MaxTarget
      BY <1>11, <2>3
    <3>2. k = x
      BY <1>1, <1>9, <1>12, <3>1
    <3> QED BY <1>10, <1>14, <3>1, <3>2
  <2> QED BY <1>14, <2>4
<1> QED BY <1>13, <1>14

(* get_next_target, case by case.                                           *)
LEMMA NextTargetCases ==
    ASSUME NEW c, NEW header, NEW cached
    PROVE  /\ IsRetarget(header) => NextTarget(c, header, cached) = RetargetedTarget(c)
           /\ ~IsRetarget(header) /\ ~MinDifficultyBlocks =>
                NextTarget(c, header, cached) = Tip(c).bits
           /\ ~IsRetarget(header) /\ MinDifficultyBlocks /\ ~IsLate(c, header) =>
                NextTarget(c, header, cached) = Seen(c, cached, StopHeight(c, cached))
           /\ ~IsRetarget(header) /\ MinDifficultyBlocks /\ IsLate(c, header) =>
                NextTarget(c, header, cached) = MaxTarget
<1>1. CASE IsRetarget(header)
  BY <1>1 DEF NextTarget, Searches
<1>2. CASE ~IsRetarget(header) /\ ~MinDifficultyBlocks
  BY <1>2 DEF NextTarget, Searches
<1>3. CASE ~IsRetarget(header) /\ MinDifficultyBlocks /\ ~IsLate(c, header)
  BY <1>3 DEF NextTarget, Searches
<1>4. CASE ~IsRetarget(header) /\ MinDifficultyBlocks /\ IsLate(c, header)
  BY <1>4 DEF NextTarget, Searches
<1> QED BY <1>1, <1>2, <1>3, <1>4

(* get_next_target computes Bitcoin's rule on the branch of the chain it is *)
(* given, whenever it succeeds.                                             *)
LEMMA TargetIsRule ==
    ASSUME NEW c, NEW path, NEW low, NEW top, Tracks(c, path, low, top), path = Hash(Tip(c)),
           NEW cached, CacheOK(c, cached),
           NEW header, header.height = top + 1,
           NextTargetSucceeds(c, header, cached)
    PROVE  NextTarget(c, header, cached) = RuleTarget(path, header.time)
<1>1. /\ low \in Nat /\ top \in Nat /\ TrustedHeight <= low /\ low <= top
      /\ TrustedHeight \in Nat /\ RetargetInterval \in Nat /\ RetargetInterval > 0
      /\ TargetSpacing \in Nat
  BY HeaderAssumption DEF Tracks
<1>2. /\ NextHeight(path) = top + 1 /\ Len(path) = top - TrustedHeight + 1
      /\ Tip(c) = At(c, top) /\ Tip(c).height = top /\ First(c) = low
      /\ \A h \in low .. top : path[h - TrustedHeight + 1] = <<At(c, h).time, At(c, h).bits>>
  <2>1. Len(path) = top - TrustedHeight + 1
    BY DEF Tracks
  <2>2. TrustedHeight + Len(path) = top + 1
    BY <1>1, <2>1
  <2>3. NextHeight(path) = top + 1
    BY <2>2 DEF NextHeight
  <2>4. Tip(c) = At(c, top) /\ Tip(c).height = top /\ First(c) = low
    BY DEF Tracks
  <2>5. \A h \in low .. top : path[h - TrustedHeight + 1] = <<At(c, h).time, At(c, h).bits>>
    BY DEF Tracks
  <2> QED BY <2>1, <2>3, <2>4, <2>5
<1>3. path[Len(path)][1] = Tip(c).time /\ path[Len(path)][2] = Tip(c).bits
  <2>1. path[top - TrustedHeight + 1] = <<At(c, top).time, At(c, top).bits>>
    BY <1>1, <1>2
  <2> QED BY <1>2, <2>1
<1>4. IsRetarget(header) <=> NextHeight(path) % RetargetInterval = 0
  BY <1>2 DEF IsRetarget
<1>5. CASE IsRetarget(header) /\ Retargeting
  <2>0. NextTarget(c, header, cached) = RetargetedTarget(c)
    BY <1>5, NextTargetCases
  <2>1. PeriodStart(c) >= low
    BY <1>2, <1>5 DEF NextTargetSucceeds, RetargetSucceeds
  <2>2. PICK g \in low .. top : g = PeriodStart(c)
    BY <1>1, <1>2, <2>1 DEF PeriodStart
  <2>3. g - TrustedHeight + 1 = Len(path) + 1 - RetargetInterval
    BY <1>1, <1>2, <2>2 DEF PeriodStart
  <2>4. path[Len(path) + 1 - RetargetInterval][1] = At(c, PeriodStart(c)).time
    BY <1>2, <2>2, <2>3
  <2>5. RetargetedTarget(c) = Retargeted(Tip(c).bits, Tip(c).time - At(c, PeriodStart(c)).time)
    BY <1>5 DEF RetargetedTarget
  <2> QED BY <1>3, <1>4, <1>5, <2>0, <2>4, <2>5, RuleCases
<1>6. CASE IsRetarget(header) /\ ~Retargeting
  <2>1. NextTarget(c, header, cached) = Tip(c).bits
    BY <1>6, NextTargetCases DEF RetargetedTarget
  <2> QED BY <1>3, <1>4, <1>6, <2>1, RuleCases
<1>7. CASE ~IsRetarget(header) /\ ~MinDifficultyBlocks
  <2>1. NextTarget(c, header, cached) = Tip(c).bits
    BY <1>7, NextTargetCases
  <2> QED BY <1>3, <1>4, <1>7, <2>1, RuleCases
<1>8. CASE ~IsRetarget(header) /\ MinDifficultyBlocks
  <2>1. RuleTarget(path, header.time)
          = IF header.time > Tip(c).time + 2 * TargetSpacing \/ Normal(path) = {}
            THEN MaxTarget ELSE path[Max(Normal(path))][2]
    BY <1>3, <1>4, <1>8, RuleCases
  <2>2. IsLate(c, header) <=> header.time > Tip(c).time + 2 * TargetSpacing
    <3>1. TargetSpacing * 2 = 2 * TargetSpacing
      BY <1>1
    <3> QED BY <3>1 DEF IsLate
  <2>3. CASE IsLate(c, header)
    <3>1. NextTarget(c, header, cached) = MaxTarget
      BY <1>8, <2>3, NextTargetCases
    <3> QED BY <2>1, <2>2, <2>3, <3>1
  <2>4. CASE ~IsLate(c, header)
    <3>1. Searches(c, header)
      BY <1>8, <2>4 DEF Searches
    <3>2. PICK s : s = StopHeight(c, cached)
      OBVIOUS
    <3>3. Readable(c, cached, s) /\ NextTarget(c, header, cached) = Seen(c, cached, s)
      <4>1. Readable(c, cached, s)
        BY <3>1, <3>2 DEF NextTargetSucceeds
      <4>2. NextTarget(c, header, cached) = Seen(c, cached, s)
        BY <1>8, <2>4, <3>2, NextTargetCases
      <4> QED BY <4>1, <4>2
    <3>4. /\ s \in low .. top
          /\ \A h \in s .. top : Seen(c, cached, h) = At(c, h).bits
          /\ StoppedAt(c, s, top)
      BY <3>2, <3>3, SearchStops
    <3>5. Seen(c, cached, s) = At(c, s).bits
      BY <1>1, <3>4
    <3>6. (top + 1) % RetargetInterval # 0
      BY <1>2, <1>4, <1>8
    <3>7. At(c, s).bits = IF Normal(path) = {} THEN MaxTarget ELSE path[Max(Normal(path))][2]
      BY <3>4, <3>6, SearchIsRule
    <3> QED BY <2>1, <2>2, <2>4, <3>3, <3>5, <3>7
  <2> QED BY <2>3, <2>4
<1> QED BY <1>5, <1>6, <1>7, <1>8

(* Chain d is chain c with a header more.                                   *)
Extended(d, c, header) ==
    /\ d \in Seq(Header) /\ Len(d) = Len(c) + 1
    /\ \A i \in 1 .. Len(c) : d[i] = c[i]
    /\ d[Len(c) + 1] = header

(* The cache stays right when a valid header is added: what the search for  *)
(* its target adds to the cache is only read again past this header, which  *)
(* has the target found.                                                    *)
LEMMA CacheKept ==
    ASSUME NEW c \in Seq(Header), Len(c) >= 1, IsChain(c), Based(c[1]),
           NEW cached, CacheOK(c, cached),
           NEW header, HeaderValid(c, header, cached),
           NEW d, Extended(d, c, header)
    PROVE  CacheOK(d, CachedAfter(c, header, cached))
<1>1. PICK low, top : Tracks(c, Hash(Tip(c)), low, top) /\ top - low + 1 = Len(c)
  BY ChainTracks
<1>2. PICK path : path = Hash(Tip(c))
  OBVIOUS
<1>3. Tracks(c, path, low, top)
  BY <1>1, <1>2
<1>4. PICK n \in Nat : n = Len(c) /\ n >= 1
  OBVIOUS
<1>5. /\ low \in Nat /\ top \in Nat /\ low <= top /\ top - low + 1 = n
      /\ First(c) = low /\ Tip(c).height = top
  BY <1>1, <1>3, <1>4 DEF Tracks
<1>6. Len(d) = n + 1 /\ d[n + 1] = header /\ \A i \in 1 .. n : d[i] = c[i]
  BY <1>4 DEF Extended
<1>7. header.height = top + 1
  BY <1>5 DEF HeaderValid, Follows
<1>8. First(d) = low
  BY <1>4, <1>5, <1>6 DEF First
<1>9. Tip(d) = header /\ Tip(d).height = top + 1
  BY <1>6, <1>7 DEF Tip
<1>10. ASSUME NEW h \in low .. top PROVE At(d, h) = At(c, h)
  <2>1. h - low + 1 \in 1 .. n
    BY <1>5
  <2> QED BY <1>5, <1>6, <1>8, <2>1 DEF At
<1>11. At(d, top + 1) = header
  <2>1. (top + 1) - low + 1 = n + 1
    BY <1>5
  <2> QED BY <1>6, <1>8, <2>1 DEF At
<1>12. ASSUME NEW h \in cached
       PROVE  /\ h \in low .. top
              /\ (\A g \in h + 1 .. top + 1 : At(d, g).bits = MaxTarget /\ g % RetargetInterval # 0)
                   => At(d, h).bits = MaxTarget
  <2>1. /\ h \in low .. top - 1
        /\ (\A g \in h + 1 .. top : At(c, g).bits = MaxTarget /\ g % RetargetInterval # 0)
             => At(c, h).bits = MaxTarget
    BY <1>5 DEF CacheOK
  <2>2. h \in low .. top
    BY <1>5, <2>1
  <2>3. ASSUME \A g \in h + 1 .. top + 1 : At(d, g).bits = MaxTarget /\ g % RetargetInterval # 0
        PROVE  At(d, h).bits = MaxTarget
    <3>1. ASSUME NEW g \in h + 1 .. top PROVE At(c, g).bits = MaxTarget /\ g % RetargetInterval # 0
      <4>1. g \in h + 1 .. top + 1 /\ g \in low .. top
        BY <1>5, <2>2
      <4> QED BY <1>10, <2>3, <4>1
    <3> QED BY <1>10, <2>1, <2>2, <3>1
  <2> QED BY <2>2, <2>3
<1>13. CASE ~Searches(c, header)
  <2>1. CachedAfter(c, header, cached) = cached
    BY <1>13 DEF CachedAfter
  <2>2. (top + 1) - 1 = top
    BY <1>5
  <2> QED BY <1>8, <1>9, <1>12, <2>1, <2>2 DEF CacheOK
<1>14. CASE Searches(c, header)
  <2>1. PICK s : s = StopHeight(c, cached)
    OBVIOUS
  <2>2. CachedAfter(c, header, cached) = cached \cup (s .. (top - 1))
    BY <1>5, <1>14, <2>1 DEF CachedAfter
  <2>3. Readable(c, cached, s)
    BY <1>14, <2>1 DEF HeaderValid, NextTargetSucceeds
  <2>4. /\ s \in low .. top
        /\ \A h \in s .. top : Seen(c, cached, h) = At(c, h).bits
        /\ StoppedAt(c, s, top)
    BY <1>3, <2>1, <2>3, SearchStops
  <2>5. header.bits = At(c, s).bits
    <3>1. header.bits = Seen(c, cached, s)
      <4>1. header.bits = NextTarget(c, header, cached)
        BY DEF HeaderValid
      <4>2. NextTarget(c, header, cached) = Seen(c, cached, s)
        BY <1>14, <2>1, NextTargetCases DEF Searches
      <4> QED BY <4>1, <4>2
    <3>2. s \in s .. top
      BY <1>5, <2>4
    <3> QED BY <2>4, <3>1, <3>2
  <2>6. ASSUME NEW h \in s .. (top - 1)
        PROVE  /\ h \in low .. top
               /\ (\A g \in h + 1 .. top + 1 : At(d, g).bits = MaxTarget /\ g % RetargetInterval # 0)
                    => At(d, h).bits = MaxTarget
    <3>1. h \in low .. top
      BY <1>5, <2>4
    <3>2. ASSUME \A g \in h + 1 .. top + 1 : At(d, g).bits = MaxTarget /\ g % RetargetInterval # 0
          PROVE  At(d, h).bits = MaxTarget
      <4>1. CASE h = s
        <5>1. top + 1 \in h + 1 .. top + 1
          BY <1>5, <3>1
        <5>2. header.bits = MaxTarget
          BY <1>11, <3>2, <5>1
        <5> QED BY <1>10, <2>5, <3>1, <4>1, <5>2
      <4>2. CASE h # s
        <5>1. h \in s + 1 .. top
          BY <1>5, <2>4, <4>2
        <5>2. At(c, h).bits = MaxTarget
          BY <2>4, <5>1 DEF StoppedAt
        <5> QED BY <1>10, <3>1, <5>2
      <4> QED BY <4>1, <4>2
    <3> QED BY <3>1, <3>2
  <2>7. (top + 1) - 1 = top
    BY <1>5
  <2>8. ASSUME NEW h \in cached \cup (s .. (top - 1))
        PROVE  /\ h \in low .. top
               /\ (\A g \in h + 1 .. top + 1 : At(d, g).bits = MaxTarget /\ g % RetargetInterval # 0)
                    => At(d, h).bits = MaxTarget
    <3>1. CASE h \in cached
      BY <1>12, <3>1
    <3>2. CASE h \in s .. (top - 1)
      BY <2>6, <3>2
    <3> QED BY <3>1, <3>2
  <2> QED BY <1>8, <1>9, <2>2, <2>7, <2>8 DEF CacheOK
<1> QED BY <1>13, <1>14

(* What is cached before each of the first n headers of a batch.            *)
IsCaching(f, q, hs, n) ==
    f = [k \in 1 .. n |-> IF k = 1 THEN {}
                          ELSE CachedAfter(ChainBefore(q, hs, k - 1), hs[k - 1], f[k - 1])]

(* It is well defined.                                                      *)
LEMMA CachingExists ==
    ASSUME NEW q, NEW hs, NEW n \in Nat
    PROVE  \E f : IsCaching(f, q, hs, n)
<1> DEFINE Bad == {m \in Nat : ~\E f : IsCaching(f, q, hs, m)}
<1> SUFFICES ASSUME ~\E f : IsCaching(f, q, hs, n) PROVE FALSE
  OBVIOUS
<1>1. n \in Bad /\ Bad \in SUBSET Nat
  OBVIOUS
<1>2. PICK m \in Bad : \A k \in Bad : m <= k
  <2> HIDE DEF Bad
  <2> QED BY <1>1, LeastNat
<1>3. m \in Nat /\ ~\E f : IsCaching(f, q, hs, m)
  BY <1>2
<1>4. m # 0
  <2> SUFFICES ASSUME m = 0 PROVE FALSE
    OBVIOUS
  <2> DEFINE f == [k \in 1 .. 0 |-> {}]
  <2>1. IsCaching(f, q, hs, 0)
    BY DEF IsCaching
  <2> QED BY <1>3, <2>1
<1>5. PICK l \in Nat : l = m - 1
  BY <1>3, <1>4
<1>6. l \notin Bad
  <2> HIDE DEF Bad
  <2> QED BY <1>1, <1>2, <1>5
<1>7. PICK g : IsCaching(g, q, hs, l)
  BY <1>6
<1> DEFINE next(k, x) == CachedAfter(ChainBefore(q, hs, k - 1), hs[k - 1], x)
           f == [k \in 1 .. m |-> IF k <= l THEN g[k] ELSE IF k = 1 THEN {} ELSE next(k, g[k - 1])]
<1>8. \A k \in 1 .. l : g[k] = IF k = 1 THEN {} ELSE next(k, g[k - 1])
  BY <1>7 DEF IsCaching
<1>9. ASSUME NEW k \in 1 .. m PROVE f[k] = IF k = 1 THEN {} ELSE next(k, f[k - 1])
  <2> HIDE DEF next
  <2>1. CASE k = 1
    BY <1>3, <1>5, <1>8, <2>1
  <2>2. CASE k # 1
    <3>1. k - 1 \in 1 .. l /\ k - 1 \in 1 .. m
      BY <1>3, <1>5, <2>2
    <3>2. f[k - 1] = g[k - 1]
      BY <3>1
    <3>3. f[k] = next(k, g[k - 1])
      <4>1. CASE k <= l
        BY <1>8, <2>2, <4>1
      <4>2. CASE ~(k <= l)
        BY <2>2, <4>2
      <4> QED BY <4>1, <4>2
    <3> QED BY <2>2, <3>2, <3>3
  <2> QED BY <2>1, <2>2
<1>10. PICK e : e = f
  OBVIOUS
<1>11. e = [k \in 1 .. m |-> e[k]] /\ \A k \in 1 .. m : e[k] = IF k = 1 THEN {} ELSE next(k, e[k - 1])
  BY <1>9, <1>10
<1> HIDE DEF f
<1>12. e = [k \in 1 .. m |-> IF k = 1 THEN {} ELSE next(k, e[k - 1])]
  <2> HIDE DEF next
  <2> QED BY <1>11
<1>13. IsCaching(e, q, hs, m)
  BY <1>12 DEF IsCaching
<1> QED BY <1>3, <1>13

(* The cache before each header of a batch.                                 *)
LEMMA CachedIs ==
    ASSUME NEW q, NEW hs, Len(hs) \in Nat
    PROVE  IsCaching(CachedBefore(q, hs), q, hs, Len(hs))
<1>1. PICK f : IsCaching(f, q, hs, Len(hs))
  BY CachingExists
<1> QED BY <1>1 DEF CachedBefore, IsCaching

(* A header more of the batch.                                              *)
LEMMA BeforeExtended ==
    ASSUME NEW q \in Seq(Header), Len(q) >= 1, NEW hs \in Seq(Header),
           NEW k \in 1 .. Len(hs), k # 1, NEW l, l = k - 1
    PROVE  Extended(ChainBefore(q, hs, k), ChainBefore(q, hs, l), hs[l])
<1>1. PICK n \in Nat : n = Len(q)
  OBVIOUS
<1>2. l \in 1 .. Len(hs) /\ k \in Int /\ l \in Int /\ l = k - 1
  OBVIOUS
<1>3. PICK d, c : d = ChainBefore(q, hs, k) /\ c = ChainBefore(q, hs, l)
  OBVIOUS
<1>4. IsBefore(d, q, hs, k) /\ IsBefore(c, q, hs, l)
  BY <1>2, <1>3, BeforeFields
<1>5. /\ d \in Seq(Header) /\ Len(d) = n + k - 1 /\ Len(c) = n + l - 1
      /\ \A i \in 1 .. n : d[i] = q[i] /\ c[i] = q[i]
      /\ \A i \in 1 .. k - 1 : d[n + i] = hs[i]
      /\ \A i \in 1 .. l - 1 : c[n + i] = hs[i]
  BY <1>1, <1>4 DEF IsBefore
<1>6. Len(d) = Len(c) + 1 /\ d[Len(c) + 1] = hs[l]
  <2>1. Len(c) + 1 = n + l /\ l \in 1 .. k - 1
    BY <1>1, <1>2, <1>5
  <2> QED BY <1>1, <1>2, <1>5, <2>1
<1>7. ASSUME NEW i \in 1 .. Len(c) PROVE d[i] = c[i]
  <2>1. CASE i <= n
    BY <1>1, <1>5, <2>1
  <2>2. CASE ~(i <= n)
    <3>1. i - n \in 1 .. l - 1 /\ i - n \in 1 .. k - 1 /\ n + (i - n) = i
      BY <1>1, <1>2, <1>5, <2>2
    <3> QED BY <1>5, <3>1
  <2> QED BY <2>1, <2>2
<1> QED BY <1>3, <1>5, <1>6, <1>7 DEF Extended

(* The headers a batch is verified against are a chain, and the cache is    *)
(* right for it.                                                            *)
ReadyFor(q, hs, k) ==
    /\ ChainBefore(q, hs, k) \in Seq(Header)
    /\ Len(ChainBefore(q, hs, k)) >= 1
    /\ IsChain(ChainBefore(q, hs, k))
    /\ Based(ChainBefore(q, hs, k)[1])
    /\ CacheOK(ChainBefore(q, hs, k), CachedBefore(q, hs)[k])

(* A valid header continues a chain.                                        *)
LEMMA ChainExtended ==
    ASSUME NEW c \in Seq(Header), Len(c) >= 1, IsChain(c),
           NEW header, Follows(c, header), NEW d, Extended(d, c, header)
    PROVE  IsChain(d) /\ d[1] = c[1]
<1>1. PICK n \in Nat : n = Len(c) /\ n >= 1
  OBVIOUS
<1>2. Len(d) = n + 1 /\ d[n + 1] = header /\ \A i \in 1 .. n : d[i] = c[i]
  BY <1>1 DEF Extended
<1>3. d[1] = c[1]
  BY <1>1, <1>2
<1>4. header.height = c[n].height + 1 /\ header.prev = Hash(c[n])
  BY <1>1 DEF Follows, Tip
<1>5. PICK x \in Nat : x = c[1].height
  <2>1. c[1] \in Header
    BY <1>1
  <2> QED BY <2>1 DEF Header
<1>6. c[n].height = x + n - 1
  <2>1. CASE n = 1
    <3>1. x = x + n - 1
      BY <2>1
    <3> QED BY <1>5, <2>1, <3>1
  <2>2. CASE n # 1
    <3>1. n \in 2 .. Len(c)
      BY <1>1, <2>2
    <3> QED BY <1>5, <3>1 DEF IsChain
  <2> QED BY <2>1, <2>2
<1>7. ASSUME NEW k \in 2 .. n + 1
      PROVE  d[k].height = d[1].height + k - 1 /\ d[k].prev = Hash(d[k - 1])
  <2>1. CASE k = n + 1
    <3>1. k - 1 = n /\ d[n] = c[n]
      BY <1>1, <1>2, <2>1
    <3>2. d[k].height = d[1].height + k - 1
      <4>1. header.height = (x + n - 1) + 1
        BY <1>4, <1>6
      <4>2. (x + n - 1) + 1 = x + k - 1
        BY <1>1, <2>1
      <4> QED BY <1>2, <1>3, <1>5, <2>1, <4>1, <4>2
    <3> QED BY <1>2, <1>4, <2>1, <3>1, <3>2
  <2>2. CASE k # n + 1
    <3>1. k \in 2 .. n /\ k \in 1 .. n /\ k - 1 \in 1 .. n
      BY <1>1, <2>2
    <3>2. c[k].height = c[1].height + k - 1 /\ c[k].prev = Hash(c[k - 1])
      BY <1>1, <3>1 DEF IsChain
    <3> QED BY <1>2, <1>3, <3>1, <3>2
  <2> QED BY <2>1, <2>2
<1> QED BY <1>2, <1>3, <1>7 DEF IsChain

(* Every header of a valid batch is verified against such a chain.          *)
LEMMA BatchReady ==
    ASSUME NEW q \in Seq(Header), Len(q) >= 1, IsChain(q), Based(q[1]),
           NEW hs \in Seq(Header), BatchValid(q, hs), NEW k \in 1 .. Len(hs)
    PROVE  ReadyFor(q, hs, k)
<1> DEFINE Bad == {m \in 1 .. Len(hs) : ~ReadyFor(q, hs, m)}
<1> SUFFICES ASSUME ~ReadyFor(q, hs, k) PROVE FALSE
  OBVIOUS
<1>1. k \in Bad /\ Bad \in SUBSET Nat
  OBVIOUS
<1>2. PICK m \in Bad : \A j \in Bad : m <= j
  <2> HIDE DEF Bad
  <2> QED BY <1>1, LeastNat
<1>3. m \in 1 .. Len(hs) /\ ~ReadyFor(q, hs, m)
  BY <1>2
<1>4. PICK f : f = CachedBefore(q, hs)
  OBVIOUS
<1>5. IsCaching(f, q, hs, Len(hs))
  BY <1>4, CachedIs
<1>6. f[m] = IF m = 1 THEN {} ELSE CachedAfter(ChainBefore(q, hs, m - 1), hs[m - 1], f[m - 1])
  BY <1>3, <1>5 DEF IsCaching
<1>7. PICK d : d = ChainBefore(q, hs, m)
  OBVIOUS
<1>8. IsBefore(d, q, hs, m)
  BY <1>3, <1>7, BeforeFields
<1>9. CASE m = 1
  <2>1. PICK n \in Nat : n = Len(q) /\ n >= 1
    OBVIOUS
  <2>2. d \in Seq(Header) /\ Len(d) = n /\ \A i \in 1 .. n : d[i] = q[i]
    BY <1>8, <1>9, <2>1 DEF IsBefore
  <2>3. d = q
    BY <2>1, <2>2, SeqEqual
  <2>4. CacheOK(d, f[m])
    BY <1>6, <1>9 DEF CacheOK
  <2>5. ReadyFor(q, hs, m)
    BY <1>4, <1>7, <2>3, <2>4 DEF ReadyFor
  <2> QED BY <1>3, <2>5
<1>10. CASE m # 1
  <2>1. PICK l \in 1 .. Len(hs) : l = m - 1
    BY <1>3, <1>10
  <2>2. ReadyFor(q, hs, l)
    <3>1. l \notin Bad
      <4> HIDE DEF Bad
      <4> QED BY <1>1, <1>2, <1>3, <2>1
    <3> QED BY <3>1
  <2>3. PICK c : c = ChainBefore(q, hs, l)
    OBVIOUS
  <2>4. /\ c \in Seq(Header) /\ Len(c) >= 1 /\ IsChain(c) /\ Based(c[1]) /\ CacheOK(c, f[l])
    BY <1>4, <2>2, <2>3 DEF ReadyFor
  <2>5. HeaderValid(c, hs[l], f[l])
    BY <1>4, <2>3 DEF BatchValid
  <2>6. Extended(d, c, hs[l])
    BY <1>3, <1>7, <1>10, <2>1, <2>3, BeforeExtended
  <2>7. IsChain(d) /\ d[1] = c[1]
    <3>1. Follows(c, hs[l])
      BY <2>5 DEF HeaderValid
    <3> QED BY <2>4, <2>6, <3>1, ChainExtended
  <2>8. CacheOK(d, CachedAfter(c, hs[l], f[l]))
    BY <2>4, <2>5, <2>6, CacheKept
  <2>9. f[m] = CachedAfter(c, hs[l], f[l])
    BY <1>6, <1>10, <2>1, <2>3
  <2>10. d \in Seq(Header) /\ Len(d) >= 1
    BY <2>4, <2>6 DEF Extended
  <2>11. ReadyFor(q, hs, m)
    BY <1>4, <1>7, <2>4, <2>7, <2>8, <2>9, <2>10 DEF ReadyFor
  <2> QED BY <1>3, <2>11
<1> QED BY <1>9, <1>10

(* The header carries the target the rule demands of its branch.            *)
RightTarget(h) == h.bits = RuleTarget(h.prev, h.time)

(* Every header of a valid batch does.                                      *)
LEMMA BatchTargets ==
    ASSUME NEW q \in Seq(Header), Len(q) >= 1, IsChain(q), Based(q[1]),
           NEW hs \in Seq(Header), BatchValid(q, hs), NEW k \in 1 .. Len(hs)
    PROVE  RightTarget(hs[k])
<1>1. PICK c, cached : c = ChainBefore(q, hs, k) /\ cached = CachedBefore(q, hs)[k]
  OBVIOUS
<1>2. c \in Seq(Header) /\ Len(c) >= 1 /\ IsChain(c) /\ Based(c[1]) /\ CacheOK(c, cached)
  BY <1>1, BatchReady DEF ReadyFor
<1>3. HeaderValid(c, hs[k], cached)
  BY <1>1 DEF BatchValid
<1>4. PICK low, top : Tracks(c, Hash(Tip(c)), low, top)
  BY <1>2, ChainTracks
<1>5. PICK path : path = Hash(Tip(c))
  OBVIOUS
<1>6. hs[k].prev = path /\ hs[k].height = top + 1
  BY <1>3, <1>4, <1>5 DEF HeaderValid, Follows, Tracks
<1>7. NextTargetSucceeds(c, hs[k], cached) /\ hs[k].bits = NextTarget(c, hs[k], cached)
  BY <1>3 DEF HeaderValid
<1>8. NextTarget(c, hs[k], cached) = RuleTarget(path, hs[k].time)
  BY <1>2, <1>4, <1>5, <1>6, <1>7, TargetIsRule
<1> QED BY <1>6, <1>7, <1>8 DEF RightTarget

(* The inductive invariant: the first header is at the height of its branch,*)
(* so that the heights of the queue are those of the rule.                  *)
TInv == Based(Chain[1]) /\ \A k \in 2 .. Len(Chain) : RightTarget(Chain[k])

(* Every header of a chain is at the height of its branch.                  *)
LEMMA ChainBased ==
    ASSUME NEW q \in Seq(Header), IsChain(q), Based(q[1]), NEW n \in 1 .. Len(q)
    PROVE  Based(q[n])
<1>1. q[1] \in Header /\ q[n] \in Header
  OBVIOUS
<1>2. PICK a \in Nat, b \in Nat : a = Len(q[1].prev) /\ b = Len(q[n].prev)
  <2>1. q[1].prev \in Seq(Block) /\ q[n].prev \in Seq(Block)
    BY <1>1 DEF Header
  <2> QED BY <2>1
<1>3. Len(Hash(q[n])) = b + 1
  BY <1>1, <1>2, HashType
<1>4. Len(Hash(q[n])) = a + n
  BY <1>2, PathOfChain DEF InPath
<1>5. q[1].height = TrustedHeight + a /\ TrustedHeight \in Nat
  BY <1>2, HeaderAssumption DEF Based
<1>6. q[n].height = (TrustedHeight + a) + n - 1
  <2>1. CASE n = 1
    <3>1. TrustedHeight + a = (TrustedHeight + a) + n - 1
      BY <1>5, <2>1
    <3> QED BY <1>5, <2>1, <3>1
  <2>2. CASE n # 1
    <3>1. n \in 2 .. Len(q)
      BY <2>2
    <3>2. q[n].height = q[1].height + n - 1
      BY <3>1 DEF IsChain
    <3> QED BY <1>5, <3>2
  <2> QED BY <2>1, <2>2
<1>7. q[n].height = TrustedHeight + b
  <2>1. b + 1 = a + n
    BY <1>3, <1>4
  <2>2. (TrustedHeight + a) + n - 1 = TrustedHeight + b
    BY <1>5, <2>1
  <2> QED BY <1>6, <2>2
<1> QED BY <1>2, <1>7 DEF Based

(* relay_headers keeps the targets right, also when it prunes.              *)
LEMMA RelayTargets ==
    ASSUME IInv, TInv, NEW hs, IsBatch(hs), RelayHeaders(hs)
    PROVE  TInv'
<1>1. PICK j : j = Joined(hs)
  OBVIOUS
<1>2. Accepted(hs) /\ headers' = Pruned(j)
  BY <1>1 DEF RelayHeaders, Joined
<1>3. PICK n \in Nat : n = KeptLen(hs) /\ n >= 1 /\ n <= Len(headers)
  BY <1>2, KeptType
<1>4. PICK q : q = HeadersOf(Kept(hs))
  OBVIOUS
<1>5. q \in Seq(Header) /\ Len(q) = n /\ \A k \in 1 .. n : q[k] = Chain[k]
  BY <1>2, <1>3, <1>4, KeptType
<1>6. Chain \in Seq(Header) /\ Len(Chain) = Len(headers) /\ IsChain(Chain) /\ Len(headers) \in Nat
  BY HeadersOfType DEF IInv, Chain
<1>7. IsChain(q) /\ Based(q[1])
  <2>1. q[1] = Chain[1]
    BY <1>3, <1>5
  <2>2. ASSUME NEW k \in 2 .. n
        PROVE  q[k].height = q[1].height + k - 1 /\ q[k].prev = Hash(q[k - 1])
    <3>1. k \in 2 .. Len(Chain) /\ k \in 1 .. n /\ k - 1 \in 1 .. n
      BY <1>3, <1>6
    <3>2. Chain[k].height = Chain[1].height + k - 1 /\ Chain[k].prev = Hash(Chain[k - 1])
      BY <1>6, <3>1 DEF IsChain
    <3> QED BY <1>5, <2>1, <3>1, <3>2
  <2>3. IsChain(q)
    BY <1>5, <2>2 DEF IsChain
  <2> QED BY <2>1, <2>3 DEF TInv
<1>8. BatchValid(q, hs)
  BY <1>2, <1>4 DEF Accepted
<1>9. hs \in Seq(Header) /\ Len(hs) \in Nat /\ Len(hs) >= 1
  BY DEF IsBatch
<1>10. \A k \in 1 .. Len(hs) : RightTarget(hs[k])
  BY <1>3, <1>5, <1>7, <1>8, <1>9, BatchTargets
<1>11. PICK h : h = HeadersOf(j)
  OBVIOUS
<1>12. /\ j \in Seq(Entry) /\ Len(j) = n + Len(hs)
       /\ \A k \in 1 .. n : h[k] = Chain[k]
       /\ \A k \in 1 .. Len(hs) : h[n + k] = hs[k]
       /\ IsChain(h) /\ h \in Seq(Header) /\ Len(h) = n + Len(hs)
  <2>1. /\ j \in Seq(Entry) /\ Len(j) = n + Len(hs)
        /\ \A k \in 1 .. n : h[k] = Chain[k]
        /\ \A k \in 1 .. Len(hs) : h[n + k] = hs[k]
    BY <1>1, <1>2, <1>3, <1>11, JoinedType
  <2>2. IsChain(h)
    BY <1>1, <1>2, <1>11, JoinedIsChain
  <2>3. h \in Seq(Header) /\ Len(h) = Len(j)
    BY <1>11, <2>1, HeadersOfType
  <2> QED BY <2>1, <2>2, <2>3
<1>13. ASSUME NEW k \in 2 .. n + Len(hs) PROVE RightTarget(h[k])
  <2>1. CASE k <= n
    <3>1. k \in 2 .. Len(Chain) /\ k \in 1 .. n
      BY <1>3, <1>6, <2>1
    <3> QED BY <1>12, <3>1 DEF TInv
  <2>2. CASE ~(k <= n)
    <3>1. k - n \in 1 .. Len(hs) /\ n + (k - n) = k
      BY <1>3, <1>9, <2>2
    <3>2. h[n + (k - n)] = hs[k - n]
      BY <1>12, <3>1
    <3> QED BY <1>10, <3>1, <3>2
  <2> QED BY <2>1, <2>2
<1>14. PICK e, p : e \in Nat /\ e = Excess(j) /\ p = HeadersOf(Pruned(j)) /\ e <= Len(j) - 1
  <2>1. Excess(j) \in 0 .. Len(j) - 1
    BY <1>3, <1>9, <1>12, PrunedType
  <2> QED BY <1>12, <2>1
<1>15. /\ Len(p) = n + Len(hs) - e
       /\ \A k \in 1 .. Len(p) : p[k] = h[e + k]
  <2>1. /\ Pruned(j) \in Seq(Entry)
        /\ Len(Pruned(j)) = Len(j) - Excess(j)
        /\ \A k \in 1 .. Len(Pruned(j)) : HeadersOf(Pruned(j))[k] = HeadersOf(j)[Excess(j) + k]
    BY <1>3, <1>9, <1>12, PrunedType
  <2>2. Len(p) = Len(Pruned(j))
    BY <1>14, <2>1, HeadersOfType
  <2> QED BY <1>11, <1>12, <1>14, <2>1, <2>2
<1>16. Based(p[1])
  <2>1. e + 1 \in 1 .. Len(h) /\ 1 \in 1 .. Len(p)
    BY <1>3, <1>9, <1>12, <1>14, <1>15
  <2>2. h[1] = Chain[1]
    BY <1>3, <1>12
  <2>3. Based(h[1])
    BY <2>2 DEF TInv
  <2>4. PICK i \in 1 .. Len(h) : i = e + 1
    BY <2>1
  <2>5. Based(h[i])
    BY <1>12, <2>3, ChainBased
  <2>6. p[1] = h[i]
    BY <1>15, <2>1, <2>4
  <2> QED BY <2>5, <2>6
<1>17. ASSUME NEW k \in 2 .. Len(p) PROVE RightTarget(p[k])
  <2>1. k \in 1 .. Len(p) /\ e + k \in 2 .. n + Len(hs)
    BY <1>3, <1>9, <1>14, <1>15
  <2> QED BY <1>13, <1>15, <2>1
<1>18. Chain' = p
  BY <1>2, <1>14 DEF Chain
<1>19. Based(Chain'[1]) /\ \A k \in 2 .. Len(Chain') : RightTarget(Chain'[k])
  BY <1>16, <1>17, <1>18
<1> QED BY <1>19 DEF TInv

(* The trusted header is at the height of its empty branch.                 *)
LEMMA TrustedTargets ==
    ASSUME NEW q, q = HeadersOf(TrustedQueue)
    PROVE  Based(q[1]) /\ Len(q) = 1
<1>1. Len(q) = 1 /\ q[1] = TrustedHeader
  BY TrustedInv, HeadersOfType
<1>2. TrustedHeader.height = TrustedHeight /\ TrustedHeader.prev = <<>>
  BY DEF TrustedHeader
<1>3. TrustedHeight = TrustedHeight + Len(<<>>)
  BY HeaderAssumption
<1> QED BY <1>1, <1>2, <1>3 DEF Based

(* The targets are right initially and stay so.                             *)
LEMMA TargetsInv == Spec => []TInv
<1>1. Init => TInv
  <2> SUFFICES ASSUME Init PROVE TInv
    OBVIOUS
  <2>1. Chain = HeadersOf(TrustedQueue)
    BY DEF Init, Chain
  <2>2. Based(Chain[1]) /\ Len(Chain) = 1
    BY <2>1, TrustedTargets
  <2> QED BY <2>2 DEF TInv
<1>2. IInv /\ TInv /\ [Next]_vars => TInv'
  <2> SUFFICES ASSUME IInv, TInv, [Next]_vars PROVE TInv'
    OBVIOUS
  <2>1. CASE \E hs : IsBatch(hs) /\ RelayHeaders(hs)
    BY <2>1, RelayTargets
  <2>2. CASE UpdateHeaderConfig
    <3>1. Chain' = HeadersOf(TrustedQueue)
      BY <2>2 DEF UpdateHeaderConfig, Chain
    <3>2. PICK q : q = HeadersOf(TrustedQueue)
      OBVIOUS
    <3>3. Based(q[1]) /\ Len(q) = 1
      BY <3>2, TrustedTargets
    <3>4. Based(Chain'[1]) /\ Len(Chain') = 1
      BY <3>1, <3>2, <3>3
    <3> QED BY <3>4 DEF TInv
  <2>3. CASE UNCHANGED vars
    <3>1. Chain' = Chain
      BY <2>3 DEF vars, Chain
    <3> QED BY <3>1 DEF TInv
  <2> QED BY <2>1, <2>2, <2>3, NextSteps
<1> QED BY <1>1, <1>2, Invariant, PTL DEF Spec

(* get_next_target, whatever batches are relayed, reorganised away and      *)
(* pruned: every header of the queue but the first carries the target that  *)
(* Bitcoin's difficulty rule, applied to its whole branch, demands of it.   *)
(* The search for the last ordinary target sees the queue and a cache of    *)
(* heights; neither ever misleads it.                                       *)
THEOREM TargetsFollowRule == Spec => []TargetsRight
<1>1. TInv => TargetsRight
  BY DEF TInv, TargetsRight, RightTarget
<1> QED BY <1>1, TargetsInv, PTL

-----------------------------------------------------------------------------
(* Valid blocks are accepted.                                               *)

(* What a configuration needs for that: the trusted header starts a period  *)
(* that is not the very first, as calculate_next_target's error asks; a     *)
(* target is less than the number of hashes, so that its work is not zero;  *)
(* and the compact form has an exponent for every target and for four times *)
(* it, the most a retarget can ask for.                                     *)
WellConfigured ==
    /\ TrustedHeight > 0 /\ TrustedHeight % RetargetInterval = 0
    /\ TargetTimespan \in Nat \ {0}
    /\ MaxTarget \in Nat /\ MaxTarget < HashSpace
    /\ \A b \in AllBits : b < HashSpace
    /\ Mantissa \in Nat /\ Scales \subseteq Nat \ {0}
    /\ \A b \in AllBits : \E s \in Scales : 4 * b < s * Mantissa

(* The queue goes back to the trusted header, or for a period.  (A heavier  *)
(* branch that is shorter may leave less than that of a pruned queue.)      *)
Reaches == First(Chain) = TrustedHeight \/ Len(Chain) >= RetargetInterval

(* A quotient is as small as the number divided.                            *)
LEMMA DivAtMost ==
    ASSUME NEW r \in Nat, r > 0, NEW a \in Nat, NEW m \in Nat, a <= r * m
    PROVE  a \div r \in Nat /\ a \div r <= m
<1>1. a \div r \in Nat /\ a % r \in 0 .. r - 1 /\ a = (r * (a \div r)) + (a % r)
  BY DivMod
<1>2. PICK d \in Nat : d = a \div r
  BY <1>1
<1>3. r * d <= a
  BY <1>1, <1>2
<1>4. d <= m
  <2> SUFFICES ASSUME d >= m + 1 PROVE FALSE
    OBVIOUS
  <2>1. r * d >= r * (m + 1)
    OBVIOUS
  <2>2. r * (m + 1) = r * m + r
    OBVIOUS
  <2> QED BY <1>3, <2>1, <2>2
<1> QED BY <1>2, <1>4

(* A target that has a compact form is rounded to a number.                 *)
LEMMA RoundedType ==
    ASSUME WellConfigured, NEW x \in Nat, NEW s \in Scales, x < s * Mantissa
    PROVE  Rounded(x) \in Nat
<1> DEFINE S == {u \in Scales : x < u * Mantissa}
<1>1. S \in SUBSET Nat /\ S # {}
  BY DEF WellConfigured
<1>2. PICK m \in S : \A u \in S : m <= u
  <2> HIDE DEF S
  <2> QED BY <1>1, LeastNat
<1>3. Min(S) \in S
  BY <1>2 DEF Min
<1>4. PICK unit \in S : unit = Min(S)
  BY <1>3
<1>5. unit \in Nat /\ unit > 0
  BY DEF WellConfigured
<1>6. x \div unit \in Nat
  BY <1>5, DivMod
<1>7. Rounded(x) = (x \div unit) * unit
  BY <1>4 DEF Rounded
<1>8. (x \div unit) * unit \in Nat
  BY <1>5, <1>6
<1> QED BY <1>7, <1>8

(* A retarget gives a target of at most MaxTarget.                          *)
LEMMA RetargetedType ==
    ASSUME WellConfigured, NEW bits \in AllBits, NEW timespan \in Nat
    PROVE  Retargeted(bits, timespan) \in Nat /\ Retargeted(bits, timespan) <= MaxTarget
<1>1. bits \in Nat /\ TargetTimespan \in Nat /\ TargetTimespan > 0 /\ MaxTarget \in Nat
  BY BasicTypes DEF WellConfigured
<1>2. PICK lo \in Nat : lo = TargetTimespan \div 4
  BY <1>1, DivMod
<1>3. PICK hi \in Nat : hi = TargetTimespan * 4
  BY <1>1
<1>4. lo <= hi
  <2>1. TargetTimespan <= 4 * hi /\ 4 \in Nat /\ 4 > 0
    BY <1>1, <1>3
  <2> QED BY <1>1, <1>2, <2>1, DivAtMost
<1>5. PICK c \in Nat : c = Clamp(timespan, lo, hi) /\ c <= hi
  BY <1>4 DEF Clamp, AtMost
<1>6. PICK a \in Nat : a = bits * c
  BY <1>1
<1>7. a <= TargetTimespan * (4 * bits)
  <2>1. bits * c <= bits * hi
    BY <1>1, <1>5
  <2>2. bits * hi = TargetTimespan * (4 * bits)
    BY <1>1, <1>3
  <2> QED BY <1>6, <2>1, <2>2
<1>8. PICK x \in Nat : x = a \div TargetTimespan /\ x <= 4 * bits
  <2>1. PICK m \in Nat : m = 4 * bits
    BY <1>1
  <2> QED BY <1>1, <1>7, <2>1, DivAtMost
<1>9. PICK s \in Scales : 4 * bits < s * Mantissa
  BY DEF WellConfigured
<1>10. x < s * Mantissa
  <2>1. s \in Nat /\ Mantissa \in Nat
    BY DEF WellConfigured
  <2>2. s * Mantissa \in Int
    BY <2>1
  <2> QED BY <1>1, <1>8, <1>9, <2>2
<1>11. Rounded(x) \in Nat
  BY <1>10, RoundedType
<1>12. Retargeted(bits, timespan) = AtMost(Rounded(x), MaxTarget)
  BY <1>2, <1>3, <1>5, <1>6, <1>8 DEF Retargeted
<1>13. PICK y \in Nat : y = Rounded(x)
  BY <1>11
<1>14. AtMost(y, MaxTarget) \in Nat /\ AtMost(y, MaxTarget) <= MaxTarget
  BY <1>1 DEF AtMost
<1> QED BY <1>12, <1>13, <1>14

(* A target below the number of hashes has work.                            *)
LEMMA HasWork ==
    ASSUME NEW b \in Nat, b < HashSpace
    PROVE  Work(b) \in Nat /\ Work(b) > 0
<1>1. HashSpace \in Nat
  BY HeaderAssumption
<1>2. PICK r \in Nat : r = b + 1 /\ r > 0 /\ r <= HashSpace
  BY <1>1
<1>3. /\ HashSpace \div r \in Nat /\ HashSpace % r \in 0 .. r - 1
      /\ HashSpace = (r * (HashSpace \div r)) + (HashSpace % r)
  BY <1>1, <1>2, DivMod
<1>4. HashSpace \div r # 0
  <2> SUFFICES ASSUME HashSpace \div r = 0 PROVE FALSE
    OBVIOUS
  <2>1. HashSpace = r * 0 + (HashSpace % r)
    BY <1>3
  <2> QED BY <1>1, <1>2, <1>3, <2>1
<1> QED BY <1>2, <1>3, <1>4 DEF Work

(* A period starts within reach of the queue.                               *)
LEMMA ReachesStart ==
    ASSUME WellConfigured, NEW low \in Nat, NEW top \in Nat, low <= top, NEW n, n = top - low + 1,
           low = TrustedHeight \/ n >= RetargetInterval
    PROVE  \E m \in low .. top : m % RetargetInterval = 0
<1>1. RetargetInterval \in Nat /\ RetargetInterval > 0
  BY HeaderAssumption
<1>2. CASE low = TrustedHeight
  BY <1>2 DEF WellConfigured
<1>3. CASE n >= RetargetInterval
  <2>1. PICK p : p = top - (top % RetargetInterval)
    OBVIOUS
  <2>2. p \in Nat /\ p <= top /\ top < p + RetargetInterval /\ p % RetargetInterval = 0
    BY <1>1, <2>1, PeriodFirst
  <2>3. p \in low .. top
    BY <1>1, <1>3, <2>2
  <2> QED BY <2>2, <2>3
<1> QED BY <1>2, <1>3

(* A search with an empty cache then stops in the queue.                    *)
LEMMA SearchSucceeds ==
    ASSUME NEW c, NEW path, NEW low, NEW top, Tracks(c, path, low, top),
           NEW m \in low .. top, m % RetargetInterval = 0
    PROVE  Readable(c, {}, StopHeight(c, {})) /\ StopHeight(c, {}) \in low .. top
<1> DEFINE S == {h \in 0 .. top : ~GoesOn(c, {}, h)}
<1>1. low \in Nat /\ top \in Nat /\ First(c) = low /\ Tip(c).height = top
  BY DEF Tracks
<1>2. m \in S
  BY <1>1 DEF GoesOn
<1>3. S \subseteq 0 .. top
  OBVIOUS
<1>4. PICK s : s = StopHeight(c, {})
  OBVIOUS
<1>5. s = Max(S)
  BY <1>1, <1>4 DEF StopHeight
<1>6. s \in S /\ s >= m
  <2> HIDE DEF S
  <2> QED BY <1>1, <1>2, <1>3, <1>5, MaxUpTo
<1>7. s \in low .. top
  BY <1>1, <1>3, <1>6
<1>8. Readable(c, {}, s)
  BY <1>1, <1>7 DEF Readable
<1> QED BY <1>4, <1>7, <1>8

(* The next target of a chain, when it is computed, has work.               *)
LEMMA NextTargetWorks ==
    ASSUME WellConfigured,
           NEW c \in Seq(Header), NEW path, NEW low, NEW top, Tracks(c, path, low, top),
           top - low + 1 = Len(c),
           NEW header, NextTargetSucceeds(c, header, {}),
           NEW m \in low .. top, m % RetargetInterval = 0
    PROVE  Work(NextTarget(c, header, {})) \in Nat /\ Work(NextTarget(c, header, {})) > 0
<1>1. /\ low \in Nat /\ top \in Nat /\ low <= top /\ First(c) = low
      /\ Tip(c) = At(c, top) /\ Tip(c).height = top
  BY DEF Tracks
<1>2. ASSUME NEW h \in low .. top PROVE At(c, h).bits \in AllBits /\ At(c, h).time \in Nat
  <2>1. h - low + 1 \in 1 .. Len(c)
    BY <1>1
  <2>2. At(c, h) \in Header
    BY <1>1, <2>1 DEF At
  <2>3. At(c, h).bits \in AllBits /\ At(c, h).time \in AllTimes
    BY <2>2 DEF Header
  <2> QED BY <2>3, BasicTypes
<1>3. top \in low .. top
  BY <1>1
<1>4. Tip(c).bits \in AllBits /\ Tip(c).time \in Nat
  BY <1>1, <1>2, <1>3
<1>5. ASSUME NEW b \in AllBits PROVE Work(b) \in Nat /\ Work(b) > 0
  <2>1. b \in Nat /\ b < HashSpace
    BY BasicTypes DEF WellConfigured
  <2> QED BY <2>1, HasWork
<1>6. CASE IsRetarget(header) /\ Retargeting
  <2>1. PeriodStart(c) >= low /\ Tip(c).time >= At(c, PeriodStart(c)).time
    BY <1>1, <1>6 DEF NextTargetSucceeds, RetargetSucceeds
  <2>2. PICK g \in low .. top : g = PeriodStart(c)
    BY <1>1, <2>1, HeaderAssumption DEF PeriodStart
  <2>3. PICK span \in Nat : span = Tip(c).time - At(c, PeriodStart(c)).time
    BY <1>2, <1>4, <2>1, <2>2
  <2>4. NextTarget(c, header, {}) = Retargeted(Tip(c).bits, span)
    BY <1>6, <2>3, NextTargetCases DEF RetargetedTarget
  <2>5. PICK b : b = Retargeted(Tip(c).bits, span)
    OBVIOUS
  <2>6. b \in Nat /\ b <= MaxTarget
    BY <1>4, <2>5, RetargetedType
  <2>7. b < HashSpace
    BY <2>6, HeaderAssumption DEF WellConfigured
  <2> QED BY <2>4, <2>5, <2>6, <2>7, HasWork
<1>7. CASE IsRetarget(header) /\ ~Retargeting
  <2>1. NextTarget(c, header, {}) = Tip(c).bits
    BY <1>7, NextTargetCases DEF RetargetedTarget
  <2> QED BY <1>4, <1>5, <2>1
<1>8. CASE ~IsRetarget(header) /\ ~MinDifficultyBlocks
  <2>1. NextTarget(c, header, {}) = Tip(c).bits
    BY <1>8, NextTargetCases
  <2> QED BY <1>4, <1>5, <2>1
<1>9. CASE ~IsRetarget(header) /\ MinDifficultyBlocks /\ ~IsLate(c, header)
  <2>1. PICK s \in low .. top : s = StopHeight(c, {})
    BY SearchSucceeds
  <2>2. NextTarget(c, header, {}) = Seen(c, {}, s)
    BY <1>9, <2>1, NextTargetCases
  <2>3. Seen(c, {}, s) = At(c, s).bits
    BY DEF Seen
  <2> QED BY <1>2, <1>5, <2>2, <2>3
<1>10. CASE ~IsRetarget(header) /\ MinDifficultyBlocks /\ IsLate(c, header)
  <2>1. NextTarget(c, header, {}) = MaxTarget
    BY <1>10, NextTargetCases
  <2>2. MaxTarget \in Nat /\ MaxTarget < HashSpace
    BY DEF WellConfigured
  <2> QED BY <2>1, <2>2, HasWork
<1> QED BY <1>6, <1>7, <1>8, <1>9, <1>10

(* A batch of one header.                                                   *)
LEMMA BatchOfOne ==
    ASSUME NEW q \in Seq(Header), NEW h, NEW hs, hs = <<h>>, HeaderValid(q, h, {})
    PROVE  BatchValid(q, hs)
<1>1. Len(hs) = 1 /\ hs[1] = h /\ Len(hs) \in Nat
  OBVIOUS
<1>2. PICK f : f = CachedBefore(q, hs)
  OBVIOUS
<1>3. IsCaching(f, q, hs, Len(hs))
  BY <1>1, <1>2, CachedIs
<1>4. f[1] = {}
  BY <1>1, <1>3 DEF IsCaching
<1>5. SubSeq(hs, 1, 1 - 1) = <<>>
  BY <1>1
<1>6. ChainBefore(q, hs, 1) = q
  BY <1>5 DEF ChainBefore
<1>7. \A k \in 1 .. Len(hs) : k = 1
  BY <1>1
<1> QED BY <1>1, <1>2, <1>4, <1>6, <1>7 DEF BatchValid

(* Its work.                                                                *)
LEMMA WorkOfOne ==
    ASSUME NEW h, NEW hs, hs = <<h>>, Work(h.bits) \in Nat
    PROVE  WorkOf(hs) = Work(h.bits)
<1>1. DOMAIN hs = {1} /\ hs[1] = h
  OBVIOUS
<1>2. PICK f : f = [k \in DOMAIN hs |-> Work(hs[k].bits)]
  OBVIOUS
<1>3. DOMAIN f = {1} /\ f[1] = Work(h.bits)
  BY <1>1, <1>2
<1>4. WorkOf(hs) = SumFunctionOnSet(f, DOMAIN f)
  BY <1>2 DEF WorkOf, SumFunction, FoldFunction, SumFunctionOnSet
<1>5. SumFunctionOnSet(f, {1}) = f[1]
  BY <1>3, SumOne
<1>6. SumFunctionOnSet(f, DOMAIN f) = SumFunctionOnSet(f, {1})
  BY <1>3, Zenon
<1> QED BY <1>3, <1>4, <1>5, <1>6

(* A block that is valid on the best branch is accepted, when the queue     *)
(* reaches far enough and no timespan is negative.                          *)
LEMMA AcceptsValid ==
    ASSUME WellConfigured, IInv, TInv, Reaches, PeriodOrdered \/ ~Retargeting
    PROVE  ValidIsAccepted
<1> SUFFICES ASSUME RuleDefined(Branch(headers)), NEW t \in Times, ValidTime(t)
             PROVE  Accepted(<<NextValid(t)>>)
  BY DEF ValidIsAccepted
<1>1. PICK c : c = Chain
  OBVIOUS
<1>2. /\ headers \in Seq(Entry) /\ Len(headers) \in Nat /\ Len(headers) >= 1
      /\ c \in Seq(Header) /\ Len(c) = Len(headers) /\ IsChain(c)
      /\ c[1] = headers[1].header
  <2>1. headers \in Seq(Entry) /\ Len(headers) \in Nat /\ Len(headers) >= 1 /\ IsChain(c)
    BY <1>1 DEF IInv
  <2> QED BY <1>1, <2>1, HeadersOfType DEF Chain
<1>3. Based(c[1])
  BY <1>1 DEF TInv
<1>4. PICK low, top : Tracks(c, Hash(Tip(c)), low, top) /\ top - low + 1 = Len(c)
  BY <1>2, <1>3, ChainTracks
<1>5. PICK path : path = Hash(Tip(c))
  OBVIOUS
<1>6. Branch(headers) = path
  BY <1>1, <1>5 DEF Branch, Chain
<1>7. Tracks(c, path, low, top)
  BY <1>4, <1>5
<1>8. /\ low \in Nat /\ top \in Nat /\ low <= top /\ First(c) = low /\ Tip(c).height = top
      /\ Len(path) = top - TrustedHeight + 1
  BY <1>7 DEF Tracks
<1>9. PICK h : h = NextValid(t)
  OBVIOUS
<1>10. h.height = top + 1 /\ h.prev = path /\ h.time = t /\ h.bits = RuleTarget(path, t)
  BY <1>1, <1>6, <1>8, <1>9 DEF NextValid
<1>11. Follows(c, h)
  BY <1>5, <1>8, <1>10 DEF Follows
<1>12. Len(c) >= MedianSpan => AfterMedian(c, h.time)
  BY <1>1, <1>10 DEF ValidTime
<1>13. /\ RetargetInterval \in Nat /\ RetargetInterval > 0
       /\ TrustedHeight \in Nat /\ TrustedHeight > 0
  BY HeaderAssumption DEF WellConfigured
<1>14. low = TrustedHeight \/ Len(c) >= RetargetInterval
  BY <1>1, <1>8 DEF Reaches
<1>15. PICK m \in low .. top : m % RetargetInterval = 0
  BY <1>4, <1>8, <1>14, ReachesStart
<1>16. ASSUME IsRetarget(h), Retargeting
       PROVE  /\ Tip(c).height >= RetargetInterval
              /\ PeriodStart(c) >= First(c)
              /\ Tip(c).time >= At(c, PeriodStart(c)).time
  <2>1. TrustedHeight + Len(path) = top + 1
    BY <1>8, <1>13
  <2>2. Len(path) >= RetargetInterval
    BY <1>6, <1>10, <1>16, <2>1 DEF RuleDefined, IsRetarget
  <2>3. top >= RetargetInterval /\ PeriodStart(c) >= TrustedHeight
    BY <1>8, <1>13, <2>2 DEF PeriodStart
  <2>4. PeriodStart(c) >= low
    BY <1>4, <1>8, <1>13, <1>14, <2>3 DEF PeriodStart
  <2>5. PeriodOrdered
    BY <1>16
  <2>6. (Tip(c).height + 1) % RetargetInterval = 0
    BY <1>8, <1>10, <1>16 DEF IsRetarget
  <2> QED BY <1>1, <1>8, <2>3, <2>4, <2>5, <2>6 DEF PeriodOrdered
<1>17. NextTargetSucceeds(c, h, {})
  <2>1. Readable(c, {}, StopHeight(c, {}))
    BY <1>7, <1>15, SearchSucceeds
  <2> QED BY <1>16, <2>1 DEF NextTargetSucceeds, RetargetSucceeds
<1>18. CacheOK(c, {})
  BY DEF CacheOK
<1>19. NextTarget(c, h, {}) = RuleTarget(path, h.time)
  BY <1>5, <1>7, <1>10, <1>17, <1>18, TargetIsRule
<1>20. h.bits = NextTarget(c, h, {})
  BY <1>10, <1>19
<1>21. HeaderValid(c, h, {})
  BY <1>11, <1>12, <1>17, <1>20 DEF HeaderValid
<1>22. Work(h.bits) \in Nat /\ Work(h.bits) > 0
  BY <1>2, <1>4, <1>7, <1>15, <1>17, <1>20, NextTargetWorks
<1>23. PICK hs : hs = <<h>>
  OBVIOUS
<1>24. Len(hs) = 1 /\ hs[1] = h
  BY <1>23
<1>25. KeptLen(hs) = Len(headers)
  <2>1. hs[1].height - headers[1].header.height = Len(headers)
    <3>1. headers[1].header.height = low
      BY <1>2, <1>8 DEF First
    <3>2. (top + 1) - low = Len(headers)
      BY <1>2, <1>4, <1>8
    <3> QED BY <1>10, <1>24, <3>1, <3>2
  <2> QED BY <2>1 DEF KeptLen, AtMost
<1>26. HeadersOf(Kept(hs)) = c
  <2>1. SubSeq(headers, 1, Len(headers)) = headers
    BY <1>2
  <2> QED BY <1>1, <1>25, <2>1 DEF Kept, Chain
<1>27. Replaced(hs) = <<>>
  <2>1. SubSeq(headers, Len(headers) + 1, Len(headers)) = <<>>
    BY <1>2
  <2> QED BY <1>25, <2>1 DEF Replaced
<1>28. WorkOf(HeadersOf(Replaced(hs))) = 0
  <2>1. PICK q : q = HeadersOf(<<>>)
    OBVIOUS
  <2>2. <<>> \in Seq(Entry) /\ Len(<<>>) = 0
    OBVIOUS
  <2>3. q \in Seq(Header) /\ Len(q) = 0
    BY <2>1, <2>2, HeadersOfType
  <2>4. WorkOf(q) = SumFunctionOnSet(WorkAt(q), 1 .. Len(q))
    BY <2>3, WorkAtType
  <2>5. 1 .. Len(q) = {}
    BY <2>3
  <2>6. SumFunctionOnSet(WorkAt(q), 1 .. Len(q)) = SumFunctionOnSet(WorkAt(q), {})
    BY <2>5, Zenon
  <2>7. SumFunctionOnSet(WorkAt(q), {}) = 0
    BY SumEmpty
  <2> QED BY <1>27, <2>1, <2>4, <2>6, <2>7
<1>29. WorkOf(hs) > 0
  BY <1>22, <1>23, WorkOfOne
<1>30. BatchValid(c, hs)
  BY <1>2, <1>21, <1>23, BatchOfOne
<1>31. Len(hs) \in 1 .. MaxRelay
  BY <1>24, HeaderAssumption
<1>32. Accepted(hs)
  BY <1>2, <1>25, <1>26, <1>27, <1>28, <1>29, <1>30, <1>31 DEF Accepted, MoreWork
<1> QED BY <1>9, <1>23, <1>32

(* add: "If the headers are valid, they will be added to the header queue." *)
(* A block that Bitcoin's rules allow on top of the best branch is accepted *)
(* whatever was reorganised and pruned before, as long as the queue reaches *)
(* back for a period and the period is not one that ends before it began.   *)
THEOREM OrderedBlocksAccepted ==
    ASSUME WellConfigured
    PROVE  Spec => [](Reaches => OrderedIsAccepted)
<1>1. IInv /\ TInv => (Reaches => OrderedIsAccepted)
  BY AcceptsValid DEF OrderedIsAccepted
<1> QED BY <1>1, Invariant, TargetsInv, PTL

(* The same where targets are never adjusted: no timespan is taken, so the  *)
(* order of timestamps does not matter.                                     *)
THEOREM ValidBlocksAccepted ==
    ASSUME WellConfigured, ~Retargeting
    PROVE  Spec => [](Reaches => ValidIsAccepted)
<1>1. IInv /\ TInv => (Reaches => ValidIsAccepted)
  BY AcceptsValid
<1> QED BY <1>1, Invariant, TargetsInv, PTL
=============================================================================
