---------------------------- MODULE RecoveryProofs ----------------------------
(***************************************************************************)
(* deduct_fee keeps the largest set of outputs that can pay, and what a     *)
(* signer submits for the recovery transactions leaves none behind, for any *)
(* deposits, fee rates, signatories and number of transactions.             *)
(***************************************************************************)
EXTENDS Recovery, SequenceTheorems, SumTheorems

-----------------------------------------------------------------------------
(* The rounds of deduct_fee.                                                *)

(* A sequence of values in satoshis, and what is left of its outputs after  *)
(* each round.                                                              *)
IsLeft(left, outputs, n, fee) ==
    /\ left[0] = 1 .. n
    /\ \A m \in 1 .. n : left[m] = Payers(outputs, left[m - 1], fee)

IsRounds(left, outputs, n, fee) ==
    left = [m \in 0 .. n |-> IF m = 0 THEN DOMAIN outputs ELSE Payers(outputs, left[m - 1], fee)]

(* There are such sets.                                                     *)
LEMMA RoundsExist ==
    ASSUME NEW outputs, NEW fee, NEW n \in Nat
    PROVE  \E left : IsRounds(left, outputs, n, fee)
<1> DEFINE Bad == {k \in Nat : ~\E left : IsRounds(left, outputs, k, fee)}
<1>1. SUFFICES ASSUME Bad # {} PROVE FALSE
  <2>1. n \notin Bad
    BY <1>1
  <2> QED BY <2>1
<1>2. PICK k \in Bad : \A j \in Bad : k <= j
  <2>1. Bad \in SUBSET Nat
    OBVIOUS
  <2> HIDE DEF Bad
  <2> QED BY <1>1, <2>1, LeastNat
<1>3. k \in Nat /\ ~\E left : IsRounds(left, outputs, k, fee)
  OBVIOUS
<1>4. CASE k = 0
  <2> DEFINE g == [m \in 0 .. 0 |-> DOMAIN outputs]
  <2>1. g = [m \in 0 .. 0 |-> IF m = 0 THEN DOMAIN outputs ELSE Payers(outputs, g[m - 1], fee)]
    OBVIOUS
  <2> HIDE DEF g
  <2>2. IsRounds(g, outputs, 0, fee)
    BY <2>1 DEF IsRounds
  <2> QED BY <1>3, <1>4, <2>2
<1>5. CASE k # 0
  <2>1. PICK j \in Nat : j = k - 1
    BY <1>3, <1>5
  <2>2. j \notin Bad
    <3> HIDE DEF Bad
    <3> QED BY <1>2, <1>3, <2>1
  <2>3. PICK g : IsRounds(g, outputs, j, fee)
    BY <2>2
  <2> DEFINE f == [m \in 0 .. k |-> IF m = k THEN Payers(outputs, g[j], fee) ELSE g[m]]
  <2>4. \A m \in 0 .. j : f[m] = g[m]
    BY <2>1
  <2>5. f[k] = Payers(outputs, g[j], fee)
    BY <1>3
  <2>6. \A m \in 0 .. j : g[m] = IF m = 0 THEN DOMAIN outputs ELSE Payers(outputs, g[m - 1], fee)
    BY <2>3 DEF IsRounds
  <2>7. ASSUME NEW m \in 0 .. k
        PROVE  f[m] = IF m = 0 THEN DOMAIN outputs ELSE Payers(outputs, f[m - 1], fee)
    <3> HIDE DEF f
    <3>1. CASE m = k
      <4>1. m # 0 /\ m - 1 = j /\ j \in 0 .. j
        BY <1>5, <2>1, <3>1
      <4>2. f[m - 1] = g[j]
        BY <2>4, <4>1
      <4> QED BY <2>5, <3>1, <4>1, <4>2
    <3>2. CASE m # k
      <4>1. m \in 0 .. j
        BY <2>1, <3>2
      <4>2. CASE m = 0
        BY <2>4, <2>6, <4>1, <4>2
      <4>3. CASE m # 0
        <5>1. m - 1 \in 0 .. j
          BY <4>1, <4>3
        <5>2. f[m - 1] = g[m - 1] /\ f[m] = g[m]
          BY <2>4, <4>1, <5>1
        <5> QED BY <2>6, <4>1, <4>3, <5>2
      <4> QED BY <4>2, <4>3
    <3> QED BY <3>1, <3>2
  <2>8. DOMAIN f = 0 .. k /\ f = [m \in DOMAIN f |-> f[m]]
    OBVIOUS
  <2> HIDE DEF f
  <2>9. f = [m \in 0 .. k |-> IF m = 0 THEN DOMAIN outputs ELSE Payers(outputs, f[m - 1], fee)]
    BY <2>7, <2>8
  <2>10. IsRounds(f, outputs, k, fee)
    BY <2>9 DEF IsRounds
  <2> QED BY <1>3, <2>10
<1> QED BY <1>4, <1>5

(* The outputs left, round by round.                                        *)
LEMMA LeftRounds ==
    ASSUME NEW outputs \in Seq(Nat), NEW fee, NEW n, n = Len(outputs)
    PROVE  IsLeft(Left(outputs, fee), outputs, n, fee)
<1>1. n \in Nat /\ DOMAIN outputs = 1 .. n
  OBVIOUS
<1>2. PICK g : IsRounds(g, outputs, n, fee)
  BY <1>1, RoundsExist
<1>3. PICK left : left = Left(outputs, fee)
  OBVIOUS
<1>4. left = CHOOSE l : IsRounds(l, outputs, n, fee)
  BY <1>3 DEF Left, IsRounds
<1>5. IsRounds(left, outputs, n, fee)
  BY <1>2, <1>4
<1>6. left[0] = 1 .. n
  <2>1. 0 \in 0 .. n
    BY <1>1
  <2> QED BY <1>1, <1>5, <2>1 DEF IsRounds
<1>7. ASSUME NEW m \in 1 .. n PROVE left[m] = Payers(outputs, left[m - 1], fee)
  <2>1. m \in 0 .. n /\ m # 0
    BY <1>1
  <2> QED BY <1>5, <2>1 DEF IsRounds
<1> QED BY <1>3, <1>6, <1>7 DEF IsLeft

(* What an output has over dust is a number.                                *)
LEMMA AdjustedNat ==
    ASSUME NEW v \in Nat
    PROVE  /\ Adjusted(v) \in Nat
           /\ Adjusted(v) > 0 => Adjusted(v) = v - DustValue
BY DustAssumption DEF Adjusted

(* A share of the fee is a number.                                          *)
LEMMA ShareNat ==
    ASSUME NEW fee \in Nat, NEW a \in Nat \ {0}
    PROVE  fee \div a \in Nat
OBVIOUS

(* A number of outputs.                                                     *)
LEMMA Counted ==
    ASSUME NEW n \in Nat, NEW K, K \subseteq 1 .. n
    PROVE  IsFiniteSet(K) /\ Cardinality(K) \in Nat /\ (Cardinality(K) = 0 <=> K = {})
<1>1. IsFiniteSet(1 .. n)
  BY FS_Interval
<1>2. IsFiniteSet(K)
  BY <1>1, FS_Subset
<1> QED BY <1>2, FS_CardinalityType, FS_EmptySet

(* Every round leaves some of the outputs.                                  *)
LEMMA LeftTypes ==
    ASSUME NEW outputs \in Seq(Nat), NEW fee, NEW n, n = Len(outputs),
           NEW left, IsLeft(left, outputs, n, fee), NEW m \in 0 .. n
    PROVE  left[m] \subseteq 1 .. n
<1>1. n \in Nat /\ left[0] = 1 .. n /\ \A k \in 1 .. n : left[k] = Payers(outputs, left[k - 1], fee)
  BY DEF IsLeft
<1> DEFINE Bad == {k \in Nat : k <= n /\ ~(left[k] \subseteq 1 .. n)}
<1>2. SUFFICES ASSUME Bad # {} PROVE FALSE
  <2>1. m \notin Bad /\ m \in Nat /\ m <= n
    BY <1>1, <1>2
  <2> QED BY <2>1
<1>3. PICK k \in Bad : \A j \in Bad : k <= j
  <2>1. Bad \in SUBSET Nat
    OBVIOUS
  <2> HIDE DEF Bad
  <2> QED BY <1>2, <2>1, LeastNat
<1>4. k \in Nat /\ k <= n /\ ~(left[k] \subseteq 1 .. n)
  OBVIOUS
<1>5. k # 0
  BY <1>1, <1>4
<1>6. PICK j \in Nat : j = k - 1
  BY <1>4, <1>5
<1>7. left[j] \subseteq 1 .. n
  <2>1. j <= n
    BY <1>1, <1>4, <1>6
  <2>2. j \notin Bad
    <3> HIDE DEF Bad
    <3> QED BY <1>3, <1>4, <1>6
  <2> QED BY <2>1, <2>2
<1>8. left[k] = Payers(outputs, left[j], fee)
  BY <1>1, <1>4, <1>5, <1>6
<1> QED BY <1>4, <1>7, <1>8 DEF Payers

(* A round that is not the last removes an output.                          *)
LEMMA RoundRemoves ==
    ASSUME NEW outputs \in Seq(Nat), NEW fee \in Nat, NEW n, n = Len(outputs),
           NEW left, left \subseteq 1 .. n, ~IsLast(outputs, left, fee),
           NEW rest, rest = Payers(outputs, left, fee)
    PROVE  Cardinality(rest) < Cardinality(left)
<1>1. n \in Nat /\ rest \subseteq left /\ rest # {}
  BY DEF Payers, IsLast
<1>2. /\ IsFiniteSet(left) /\ Cardinality(left) \in Nat
      /\ IsFiniteSet(rest) /\ Cardinality(rest) \in Nat /\ Cardinality(rest) # 0
  BY <1>1, Counted
<1>3. rest # left
  <2> SUFFICES ASSUME rest = left PROVE FALSE
    OBVIOUS
  <2>1. PICK a \in Nat \ {0} : a = Cardinality(left)
    BY <1>2
  <2>2. PICK q \in Nat : q = fee \div a
    BY ShareNat
  <2>3. ASSUME NEW k \in left PROVE Adjusted(outputs[k]) >= fee \div Cardinality(rest)
    <3>1. outputs[k] \in Nat
      BY <1>1
    <3>2. Adjusted(outputs[k]) \in Nat
      BY <3>1, AdjustedNat
    <3>3. Adjusted(outputs[k]) > q
      BY <2>1, <2>2 DEF Payers
    <3> QED BY <2>1, <2>2, <3>2, <3>3
  <2> QED BY <2>3 DEF IsLast
<1>4. Cardinality(rest) <= Cardinality(left) /\ (Cardinality(rest) = Cardinality(left) => rest = left)
  BY <1>1, <1>2, FS_Subset
<1> QED BY <1>2, <1>3, <1>4

(* 1 .. n has n members.                                                    *)
LEMMA IntervalSize ==
    ASSUME NEW n \in Nat
    PROVE  Cardinality(1 .. n) = n
<1>1. 1 \in Int /\ n \in Int
  OBVIOUS
<1>2. Cardinality(1 .. n) = IF 1 > n THEN 0 ELSE n - 1 + 1
  BY <1>1, FS_Interval
<1> QED BY <1>2

(* So that one of as many rounds as there are outputs is the last.          *)
LEMMA LastRound ==
    ASSUME NEW outputs \in Seq(Nat), NEW fee \in Nat, NEW n, n = Len(outputs), n # 0,
           NEW left, IsLeft(left, outputs, n, fee)
    PROVE  \E m \in 1 .. n : IsLast(outputs, left[m - 1], fee)
<1>1. n \in Nat /\ left[0] = 1 .. n /\ \A k \in 1 .. n : left[k] = Payers(outputs, left[k - 1], fee)
  BY DEF IsLeft
<1>2. SUFFICES ASSUME \A m \in 1 .. n : ~IsLast(outputs, left[m - 1], fee) PROVE FALSE
  OBVIOUS
<1> DEFINE Bad == {k \in Nat : k <= n /\ ~(Cardinality(left[k]) <= n - k)}
<1>3. ASSUME Bad # {} PROVE FALSE
  <2>1. PICK k \in Bad : \A j \in Bad : k <= j
    <3>1. Bad \in SUBSET Nat
      OBVIOUS
    <3> HIDE DEF Bad
    <3> QED BY <1>3, <3>1, LeastNat
  <2>2. k \in Nat /\ k <= n /\ ~(Cardinality(left[k]) <= n - k)
    OBVIOUS
  <2>3. k # 0
    <3>1. Cardinality(1 .. n) = n
      BY <1>1, IntervalSize
    <3> QED BY <1>1, <2>2, <3>1
  <2>4. PICK j \in Nat : j = k - 1
    BY <2>2, <2>3
  <2>5. Cardinality(left[j]) <= n - j
    <3>1. j <= n
      BY <1>1, <2>2, <2>4
    <3>2. j \notin Bad
      <4> HIDE DEF Bad
      <4> QED BY <2>1, <2>2, <2>4
    <3> QED BY <3>1, <3>2
  <2>6. k \in 1 .. n /\ j \in 0 .. n /\ k \in 0 .. n
    BY <1>1, <2>2, <2>3, <2>4
  <2>7. left[j] \subseteq 1 .. n /\ left[k] \subseteq 1 .. n
    BY <2>6, LeftTypes
  <2>8. left[k] = Payers(outputs, left[j], fee) /\ ~IsLast(outputs, left[j], fee)
    BY <1>1, <1>2, <2>4, <2>6
  <2>9. Cardinality(left[k]) < Cardinality(left[j])
    BY <2>7, <2>8, RoundRemoves
  <2>10. Cardinality(left[k]) \in Nat /\ Cardinality(left[j]) \in Nat
    BY <1>1, <2>7, Counted
  <2> QED BY <1>1, <2>2, <2>4, <2>5, <2>9, <2>10
<1>4. left[n] \subseteq 1 .. n
  <2>1. n \in 0 .. n
    BY <1>1
  <2> QED BY <2>1, LeftTypes
<1>5. Cardinality(left[n]) = 0
  <2>1. Cardinality(left[n]) <= n - n
    <3>1. n \notin Bad /\ n <= n
      BY <1>1, <1>3
    <3> QED BY <1>1, <3>1
  <2>2. Cardinality(left[n]) \in Nat
    BY <1>1, <1>4, Counted
  <2> QED BY <1>1, <2>1, <2>2
<1>6. left[n] = {}
  BY <1>1, <1>4, <1>5, Counted
<1>7. n \in 1 .. n
  BY <1>1
<1>8. left[n] = Payers(outputs, left[n - 1], fee)
  BY <1>1, <1>7
<1>9. IsLast(outputs, left[n - 1], fee)
  BY <1>6, <1>8 DEF IsLast
<1> QED BY <1>2, <1>7, <1>9

(* The outputs kept are those of the last round.                            *)
LEMMA KeptIs ==
    ASSUME NEW outputs \in Seq(Nat), NEW fee \in Nat, NEW n, n = Len(outputs), n # 0
    PROVE  \E m \in 1 .. n : /\ IsLast(outputs, Left(outputs, fee)[m - 1], fee)
                            /\ Kept(outputs, fee) = Left(outputs, fee)[m]
<1>1. PICK left : left = Left(outputs, fee)
  OBVIOUS
<1>2. IsLeft(left, outputs, n, fee)
  BY <1>1, LeftRounds
<1> DEFINE T == {m \in Nat : m \in 1 .. n /\ IsLast(outputs, left[m - 1], fee)}
<1>3. PICK m \in T : \A k \in T : m <= k
  <2>1. T \in SUBSET Nat
    OBVIOUS
  <2>2. T # {}
    <3>1. PICK k \in 1 .. n : IsLast(outputs, left[k - 1], fee)
      BY <1>2, LastRound
    <3>2. k \in T
      BY <3>1
    <3> QED BY <3>2
  <2> HIDE DEF T
  <2> QED BY <2>1, <2>2, LeastNat
<1>4. m \in 1 .. n /\ IsLast(outputs, left[m - 1], fee)
  OBVIOUS
<1>5. \A k \in 1 .. (m - 1) : ~IsLast(outputs, left[k - 1], fee)
  <2> SUFFICES ASSUME NEW k \in 1 .. (m - 1), IsLast(outputs, left[k - 1], fee) PROVE FALSE
    OBVIOUS
  <2>1. k \in T /\ k < m
    BY <1>4
  <2> QED BY <1>3, <1>4, <2>1
<1> HIDE DEF T
<1> DEFINE First(i) == /\ IsLast(outputs, left[i - 1], fee)
                       /\ \A k \in 1 .. (i - 1) : ~IsLast(outputs, left[k - 1], fee)
<1>6. PICK l : l = CHOOSE i \in 1 .. n : First(i)
  OBVIOUS
<1>7. First(m)
  BY <1>4, <1>5
<1>8. Kept(outputs, fee) = left[l]
  BY <1>1, <1>6 DEF Kept
<1> HIDE DEF First
<1>9. l \in 1 .. n /\ First(l)
  BY <1>4, <1>6, <1>7
<1>10. IsLast(outputs, left[l - 1], fee)
  BY <1>9 DEF First
<1> QED BY <1>1, <1>8, <1>9, <1>10

(* Each of them pays its share and stays above dust.                        *)
LEMMA KeptPays ==
    ASSUME NEW outputs \in Seq(Nat), NEW fee \in Nat, NEW n, n = Len(outputs), n # 0,
           NEW kept, kept = Kept(outputs, fee)
    PROVE  /\ kept \subseteq 1 .. n
           /\ \A k \in kept : Adjusted(outputs[k]) > fee \div Cardinality(kept)
<1>1. PICK left : left = Left(outputs, fee)
  OBVIOUS
<1>2. IsLeft(left, outputs, n, fee)
  BY <1>1, LeftRounds
<1>3. PICK m \in 1 .. n : IsLast(outputs, left[m - 1], fee) /\ kept = left[m]
  BY <1>1, KeptIs
<1>4. n \in Nat /\ m \in 0 .. n /\ m - 1 \in 0 .. n
  OBVIOUS
<1>5. PICK before : before = left[m - 1]
  OBVIOUS
<1>6. kept \subseteq 1 .. n /\ before \subseteq 1 .. n
  BY <1>2, <1>3, <1>4, <1>5, LeftTypes
<1>7. kept = Payers(outputs, before, fee)
  BY <1>2, <1>3, <1>5 DEF IsLeft
<1>8. ASSUME NEW k \in kept PROVE Adjusted(outputs[k]) > fee \div Cardinality(kept)
  <2>1. kept \subseteq before /\ k \in before
    BY <1>7 DEF Payers
  <2>2. PICK a \in Nat \ {0}, b \in Nat \ {0} : a = Cardinality(before) /\ b = Cardinality(kept)
    BY <1>4, <1>6, <1>8, <2>1, Counted
  <2>3. PICK p \in Nat, q \in Nat : p = fee \div a /\ q = fee \div b
    BY ShareNat
  <2>4. ASSUME NEW i \in before
        PROVE  /\ Adjusted(outputs[i]) \in Nat /\ Adjusted(outputs[i]) >= q
               /\ i \in kept <=> Adjusted(outputs[i]) > p
    <3>1. outputs[i] \in Nat
      BY <1>6
    <3>2. Adjusted(outputs[i]) \in Nat
      BY <3>1, AdjustedNat
    <3>3. Adjusted(outputs[i]) >= q
      BY <1>3, <1>5, <1>7, <1>8, <2>2, <2>3 DEF IsLast
    <3>4. i \in kept <=> Adjusted(outputs[i]) > p
      BY <1>7, <2>2, <2>3 DEF Payers
    <3> QED BY <3>2, <3>3, <3>4
  <2>5. Adjusted(outputs[k]) > q
    <3>1. CASE kept = before
      BY <2>1, <2>2, <2>3, <2>4, <3>1
    <3>2. CASE kept # before
      <4>1. PICK e \in before : e \notin kept
        BY <2>1, <3>2
      <4>2. q <= p
        BY <2>4, <4>1
      <4> QED BY <2>1, <2>4, <4>2
    <3> QED BY <3>1, <3>2
  <2> QED BY <2>2, <2>3, <2>5
<1> QED BY <1>6, <1>8

(* More outputs, smaller shares.                                            *)
LEMMA SharesShrink ==
    ASSUME NEW fee \in Nat, NEW a \in Nat \ {0}, NEW b \in Nat \ {0}, a <= b
    PROVE  fee \div b <= fee \div a
<1>1. PICK p \in Nat, q \in Nat : p = fee \div a /\ q = fee \div b
  OBVIOUS
<1>2. fee < a * p + a /\ b * q <= fee
  BY <1>1
<1>3. ASSUME q > p PROVE FALSE
  <2>1. b * q >= b * (p + 1)
    BY <1>3
  <2>2. b * (p + 1) >= a * (p + 1)
    OBVIOUS
  <2>3. a * (p + 1) = a * p + a
    OBVIOUS
  <2>4. PICK x \in Int, y \in Int, z \in Int : x = b * q /\ y = b * (p + 1) /\ z = a * p
    OBVIOUS
  <2> QED BY <1>2, <2>1, <2>2, <2>3, <2>4
<1> QED BY <1>1, <1>3

(* Outputs that can all pay stay in every round.                            *)
LEMMA AffordableStays ==
    ASSUME NEW outputs \in Seq(Nat), NEW fee \in Nat, NEW n, n = Len(outputs),
           NEW left, IsLeft(left, outputs, n, fee), NEW K, K \subseteq 1 .. n,
           \A k \in K : Adjusted(outputs[k]) > fee \div Cardinality(K), NEW m \in 0 .. n
    PROVE  K \subseteq left[m]
<1>1. n \in Nat /\ left[0] = 1 .. n /\ \A k \in 1 .. n : left[k] = Payers(outputs, left[k - 1], fee)
  BY DEF IsLeft
<1> DEFINE Bad == {j \in Nat : j <= n /\ ~(K \subseteq left[j])}
<1>2. SUFFICES ASSUME Bad # {} PROVE FALSE
  <2>1. m \notin Bad /\ m \in Nat /\ m <= n
    BY <1>1, <1>2
  <2> QED BY <2>1
<1>3. PICK j \in Bad : \A i \in Bad : j <= i
  <2>1. Bad \in SUBSET Nat
    OBVIOUS
  <2> HIDE DEF Bad
  <2> QED BY <1>2, <2>1, LeastNat
<1>4. j \in Nat /\ j <= n /\ ~(K \subseteq left[j])
  OBVIOUS
<1>5. j # 0
  BY <1>1, <1>4
<1>6. PICK i \in Nat : i = j - 1
  BY <1>4, <1>5
<1>7. K \subseteq left[i]
  <2>1. i <= n
    BY <1>1, <1>4, <1>6
  <2>2. i \notin Bad
    <3> HIDE DEF Bad
    <3> QED BY <1>3, <1>4, <1>6
  <2> QED BY <2>1, <2>2
<1>8. left[j] = Payers(outputs, left[i], fee)
  BY <1>1, <1>4, <1>5, <1>6
<1>9. i \in 0 .. n
  BY <1>1, <1>4, <1>6
<1>10. left[i] \subseteq 1 .. n
  BY <1>9, LeftTypes
<1>11. ASSUME NEW k \in K PROVE k \in left[j]
  <2>1. IsFiniteSet(left[i]) /\ Cardinality(K) <= Cardinality(left[i])
    BY <1>1, <1>7, <1>10, Counted, FS_Subset
  <2>2. PICK a \in Nat \ {0}, b \in Nat \ {0} : a = Cardinality(K) /\ b = Cardinality(left[i])
    BY <1>1, <1>7, <1>10, <1>11, Counted
  <2>3. fee \div b <= fee \div a
    BY <2>1, <2>2, SharesShrink
  <2>4. PICK p \in Nat, q \in Nat : p = fee \div a /\ q = fee \div b
    BY ShareNat
  <2>5. Adjusted(outputs[k]) \in Nat
    <3>1. outputs[k] \in Nat
      OBVIOUS
    <3> QED BY <3>1, AdjustedNat
  <2>6. Adjusted(outputs[k]) > p
    BY <2>2, <2>4
  <2>7. Adjusted(outputs[k]) > q
    BY <2>3, <2>4, <2>5, <2>6
  <2> QED BY <1>7, <1>8, <2>2, <2>4, <2>7 DEF Payers
<1> QED BY <1>4, <1>11

(* deduct_fee keeps the largest set of outputs that can pay.                *)
THEOREM LargestSetAlwaysPays ==
    ASSUME NEW outputs \in Seq(Nat), outputs # <<>>, NEW fee \in Nat \ {0}
    PROVE  LargestSetPays(outputs, fee)
<1>1. PICK n : n = Len(outputs)
  OBVIOUS
<1>2. n \in Nat /\ n # 0 /\ DOMAIN outputs = 1 .. n
  BY <1>1
<1>3. PICK kept : kept = Kept(outputs, fee)
  OBVIOUS
<1>4. /\ kept \subseteq 1 .. n
      /\ \A k \in kept : Adjusted(outputs[k]) > fee \div Cardinality(kept)
  BY <1>1, <1>2, <1>3, KeptPays
<1>5. ASSUME NEW K, K \subseteq 1 .. n, \A k \in K : Adjusted(outputs[k]) > fee \div Cardinality(K)
      PROVE  K \subseteq kept
  <2>1. PICK left : left = Left(outputs, fee)
    OBVIOUS
  <2>2. IsLeft(left, outputs, n, fee)
    BY <1>1, <2>1, LeftRounds
  <2>3. PICK m \in 1 .. n : kept = left[m]
    BY <1>1, <1>2, <1>3, <2>1, KeptIs
  <2>4. m \in 0 .. n
    BY <1>2
  <2> QED BY <1>1, <1>5, <2>2, <2>3, <2>4, AffordableStays
<1>6. Affordable(outputs, fee) = kept
  <2>1. kept \in {K \in SUBSET DOMAIN outputs :
                    \A k \in K : Adjusted(outputs[k]) > fee \div Cardinality(K)}
    BY <1>2, <1>4
  <2>2. \A K \in {K \in SUBSET DOMAIN outputs :
                    \A k \in K : Adjusted(outputs[k]) > fee \div Cardinality(K)} : K \subseteq kept
    BY <1>2, <1>5
  <2> QED BY <2>1, <2>2 DEF Affordable
<1>7. Deducted(outputs, fee) = PayShares(outputs, kept, fee)
  BY <1>3 DEF Deducted
<1> QED BY <1>6, <1>7 DEF LargestSetPays

(* With one output: it pays the whole fee, or there is none left.           *)
LEMMA OneOutput ==
    ASSUME NEW v \in Nat, NEW fee \in Nat \ {0}
    PROVE  IF v > DustValue + fee THEN Deducted(<<v>>, fee) = <<v - fee>>
                                  ELSE DOMAIN Deducted(<<v>>, fee) = {}
<1>1. PICK outputs : outputs = <<v>>
  OBVIOUS
<1>2. outputs \in Seq(Nat) /\ outputs # <<>> /\ DOMAIN outputs = {1} /\ outputs[1] = v
  BY <1>1
<1>3. PICK K : K = Affordable(outputs, fee)
  OBVIOUS
<1>4. Deducted(outputs, fee) = PayShares(outputs, K, fee)
  BY <1>2, <1>3, LargestSetAlwaysPays DEF LargestSetPays
<1>5. Cardinality({1}) = 1 /\ fee \div 1 = fee
  BY FS_Singleton
<1>6. Adjusted(v) > fee <=> v > DustValue + fee
  BY DustAssumption DEF Adjusted
<1>7. 1 \in K <=> v > DustValue + fee
  <2>1. ASSUME NEW L \in SUBSET {1}, 1 \in L PROVE L = {1}
    BY <2>1
  <2>2. 1 \in K <=> Adjusted(outputs[1]) > fee \div Cardinality({1})
    BY <1>2, <1>3, <2>1 DEF Affordable
  <2> QED BY <1>2, <1>5, <1>6, <2>2
<1>8. K \subseteq {1}
  BY <1>2, <1>3 DEF Affordable
<1>9. CASE v > DustValue + fee
  <2>1. K = {1}
    BY <1>7, <1>8, <1>9
  <2>2. PayShares(outputs, K, fee) = [k \in {1} |-> v - fee]
    BY <1>2, <1>5, <2>1 DEF PayShares
  <2>3. [k \in {1} |-> v - fee] = <<v - fee>>
    OBVIOUS
  <2> QED BY <1>1, <1>4, <1>9, <2>2, <2>3
<1>10. CASE ~(v > DustValue + fee)
  <2>1. K = {}
    BY <1>7, <1>8, <1>10
  <2>2. DOMAIN PayShares(outputs, K, fee) = {}
    BY <2>1 DEF PayShares
  <2> QED BY <1>1, <1>4, <1>10, <2>2
<1> QED BY <1>9, <1>10

-----------------------------------------------------------------------------
(* The queue of recovery transactions.                                      *)

(* A transaction pays the deposit less the fee, and its input has a share   *)
(* of each signatory.                                                       *)
TxOK(tx) ==
    /\ tx = [amount |-> tx.amount, fee |-> tx.fee, output |-> tx.output,
             input |-> tx.input, signedInputs |-> tx.signedInputs]
    /\ tx.amount \in Nat /\ tx.fee \in Nat
    /\ FeeRates \subseteq Nat \ {0} => tx.fee # 0
    /\ tx.output = Deducted(<<tx.amount>>, tx.fee)
    /\ tx.input = [threshold |-> tx.input.threshold, signed |-> tx.input.signed,
                   sigs |-> tx.input.sigs]
    /\ tx.input.sigs \in [DOMAIN tx.input.sigs -> BOOLEAN]

TxsOK(txs) ==
    /\ DOMAIN txs = 1 .. Len(txs) /\ Len(txs) \in Nat
    /\ txs = [i \in 1 .. Len(txs) |-> txs[i]]
    /\ \A i \in DOMAIN txs : TxOK(txs[i])

QueueOK == TxsOK(recoveryTxs)

(* The fee is not zero when its rate is not.                                *)
LEMMA FeeNat ==
    ASSUME NEW rate \in FeeRates, NEW signatories \in (SUBSET Signers) \ {{}}, NEW fee,
           fee = rate * EstVsize(signatories)
    PROVE  fee \in Nat /\ (FeeRates \subseteq Nat \ {0} => fee # 0)
<1>1. PICK n : n = Cardinality(signatories)
  OBVIOUS
<1>2. n \in Nat
  BY <1>1, RecoveryAssumption, FS_Subset, FS_CardinalityType
<1>3. n * SigVsize \in Nat
  BY <1>2, RecoveryAssumption
<1>4. PICK v \in Nat \ {0} : v = EstVsize(signatories)
  BY <1>1, <1>3, RecoveryAssumption DEF EstVsize
<1>5. rate \in Nat
  BY RecoveryAssumption
<1>6. rate * v \in Nat /\ (rate # 0 => rate * v # 0)
  BY <1>5
<1> QED BY <1>4, <1>5, <1>6

(* A new transaction.                                                       *)
LEMMA FreshTx ==
    ASSUME NEW value \in Values, NEW rate \in FeeRates, NEW signatories \in (SUBSET Signers) \ {{}},
           NEW tx, tx = NewRecoveryTx(value, signatories, rate * EstVsize(signatories))
    PROVE  TxOK(tx)
<1>1. PICK fee : fee = rate * EstVsize(signatories)
  OBVIOUS
<1>2. fee \in Nat /\ (FeeRates \subseteq Nat \ {0} => fee # 0) /\ value \in Nat
  BY <1>1, FeeNat, RecoveryAssumption
<1>3. PICK o, ts : o = Deducted(<<value>>, fee) /\ ts = FromSigset(signatories)
  OBVIOUS
<1>4. tx = [amount |-> value, fee |-> fee, output |-> o, input |-> ts, signedInputs |-> 0]
  BY <1>1, <1>3 DEF NewRecoveryTx
<1>5. /\ tx.amount = value /\ tx.fee = fee /\ tx.output = o /\ tx.input = ts
      /\ tx = [amount |-> tx.amount, fee |-> tx.fee, output |-> tx.output,
               input |-> tx.input, signedInputs |-> tx.signedInputs]
  BY <1>4
<1>6. /\ ts = [threshold |-> ts.threshold, signed |-> ts.signed, sigs |-> ts.sigs]
      /\ ts.sigs = [s \in signatories |-> FALSE]
  BY <1>3 DEF FromSigset
<1>7. ts.sigs \in [DOMAIN ts.sigs -> BOOLEAN]
  BY <1>6
<1> QED BY <1>2, <1>3, <1>5, <1>6, <1>7 DEF TxOK

(* A share more.                                                            *)
LEMMA OneMore ==
    ASSUME NEW tx, TxOK(tx), NEW s, s \in DOMAIN tx.input.sigs, NEW new, new = WithShare(tx, s)
    PROVE  /\ TxOK(new)
           /\ ~ShareNeeded(new.input, s)
           /\ SignedBy(new.input) = SignedBy(tx.input) \cup {s}
<1>1. PICK ts, c : ts = tx.input /\ c = new.signedInputs
  OBVIOUS
<1>2. /\ ts = [threshold |-> ts.threshold, signed |-> ts.signed, sigs |-> ts.sigs]
      /\ ts.sigs \in [DOMAIN ts.sigs -> BOOLEAN] /\ s \in DOMAIN ts.sigs
  BY <1>1 DEF TxOK
<1>3. PICK us : us = AddShare(ts, s)
  OBVIOUS
<1>4. /\ us = [threshold |-> us.threshold, signed |-> us.signed, sigs |-> us.sigs]
      /\ us.sigs = [ts.sigs EXCEPT ![s] = TRUE]
  BY <1>2, <1>3 DEF AddShare
<1>5. /\ tx = [amount |-> tx.amount, fee |-> tx.fee, output |-> tx.output,
               input |-> tx.input, signedInputs |-> tx.signedInputs]
  BY DEF TxOK
<1>6. /\ new.amount = tx.amount /\ new.fee = tx.fee /\ new.output = tx.output /\ new.input = us
      /\ new = [amount |-> new.amount, fee |-> new.fee, output |-> new.output,
                input |-> new.input, signedInputs |-> new.signedInputs]
  BY <1>1, <1>3, <1>5 DEF WithShare
<1>7. /\ DOMAIN us.sigs = DOMAIN ts.sigs /\ us.sigs \in [DOMAIN us.sigs -> BOOLEAN]
      /\ us.sigs[s] = TRUE /\ \A t \in DOMAIN ts.sigs \ {s} : us.sigs[t] = ts.sigs[t]
  BY <1>2, <1>4
<1>8. TxOK(new)
  BY <1>4, <1>6, <1>7 DEF TxOK
<1>9. ~ShareNeeded(us, s)
  BY <1>7 DEF ShareNeeded
<1>10. SignedBy(us) = SignedBy(ts) \cup {s}
  BY <1>2, <1>7 DEF SignedBy
<1> QED BY <1>1, <1>6, <1>8, <1>9, <1>10

(* The transactions that want a signer, in order: every one of them.        *)
IsWanting(f, W) ==
    /\ f \in [1 .. Cardinality(W) -> W]
    /\ \A j, k \in 1 .. Cardinality(W) : j < k => f[j] < f[k]

(* Every finite set of positions can be put in order.                       *)
LEMMA Ascending ==
    ASSUME NEW n \in Nat, NEW W, W \subseteq 1 .. n
    PROVE  \E f : IsWanting(f, W)
<1> DEFINE Bad == {m \in Nat : \E U \in SUBSET (1 .. m) : ~\E f : IsWanting(f, U)}
<1>1. SUFFICES ASSUME Bad # {} PROVE FALSE
  <2>1. n \notin Bad /\ W \in SUBSET (1 .. n)
    BY <1>1
  <2> QED BY <2>1
<1>2. PICK m \in Bad : \A k \in Bad : m <= k
  <2>1. Bad \in SUBSET Nat
    OBVIOUS
  <2> HIDE DEF Bad
  <2> QED BY <1>1, <2>1, LeastNat
<1>3. m \in Nat
  OBVIOUS
<1>4. PICK U \in SUBSET (1 .. m) : ~\E f : IsWanting(f, U)
  OBVIOUS
<1>5. m # 0
  <2> SUFFICES ASSUME m = 0 PROVE FALSE
    OBVIOUS
  <2>1. U = {} /\ Cardinality(U) = 0
    <3>1. U = {}
      BY <1>4
    <3> QED BY <3>1, FS_EmptySet
  <2> DEFINE f == [i \in 1 .. 0 |-> 0]
  <2>2. f \in [1 .. 0 -> U]
    OBVIOUS
  <2>3. IsWanting(f, U)
    BY <2>1, <2>2 DEF IsWanting
  <2> QED BY <1>4, <2>3
<1>6. PICK l \in Nat : l = m - 1
  BY <1>3, <1>5
<1>7. l \notin Bad
  <2> HIDE DEF Bad
  <2> QED BY <1>2, <1>3, <1>6
<1>8. PICK X : X = U \ {m}
  OBVIOUS
<1>9. X \in SUBSET (1 .. l)
  BY <1>4, <1>6, <1>8
<1>10. PICK g : IsWanting(g, X)
  BY <1>7, <1>9
<1>11. CASE m \notin U
  <2>1. X = U
    BY <1>8, <1>11
  <2> QED BY <1>4, <1>10, <2>1
<1>12. CASE m \in U
  <2>1. PICK c : c = Cardinality(X)
    OBVIOUS
  <2>2. c \in Nat /\ Cardinality(U) = c + 1
    <3>1. IsFiniteSet(X) /\ c \in Nat
      BY <1>6, <1>9, <2>1, Counted
    <3>2. U = X \cup {m} /\ m \notin X
      BY <1>8, <1>12
    <3>3. Cardinality(X \cup {m}) = c + 1
      BY <2>1, <3>1, <3>2, FS_AddElement
    <3> QED BY <3>1, <3>2, <3>3
  <2>3. g \in [1 .. c -> X] /\ \A j, k \in 1 .. c : j < k => g[j] < g[k]
    BY <1>10, <2>1 DEF IsWanting
  <2> DEFINE f == [i \in 1 .. (c + 1) |-> IF i = c + 1 THEN m ELSE g[i]]
  <2>4. ASSUME NEW i \in 1 .. (c + 1)
        PROVE  /\ i = c + 1 => f[i] = m
               /\ i # c + 1 => i \in 1 .. c /\ f[i] = g[i] /\ f[i] \in X /\ f[i] < m
               /\ f[i] \in U
    <3>1. CASE i = c + 1
      BY <1>12, <3>1
    <3>2. CASE i # c + 1
      <4>1. i \in 1 .. c /\ f[i] = g[i]
        BY <2>2, <3>2
      <4>2. g[i] \in X /\ g[i] \in 1 .. l
        BY <1>9, <2>3, <4>1
      <4> QED BY <1>6, <1>8, <3>2, <4>1, <4>2
    <3> QED BY <3>1, <3>2
  <2>5. f \in [1 .. (c + 1) -> U]
    BY <2>4
  <2> HIDE DEF f
  <2>6. ASSUME NEW j \in 1 .. (c + 1), NEW k \in 1 .. (c + 1), j < k PROVE f[j] < f[k]
    <3>1. j # c + 1
      BY <2>2, <2>6
    <3>2. CASE k = c + 1
      BY <2>4, <3>1, <3>2
    <3>3. CASE k # c + 1
      BY <2>3, <2>4, <2>6, <3>1, <3>3
    <3> QED BY <3>2, <3>3
  <2>7. IsWanting(f, U)
    BY <2>2, <2>5, <2>6 DEF IsWanting
  <2> QED BY <1>4, <2>7
<1> QED BY <1>11, <1>12

(* What sign goes through.                                                  *)
LEMMA WantingAll ==
    ASSUME QueueOK, NEW s, NEW W,
           W = {i \in DOMAIN recoveryTxs : ShareNeeded(recoveryTxs[i].input, s)}
    PROVE  /\ \A i \in W : \E k \in DOMAIN Wanting(s) : Wanting(s)[k] = i
           /\ \A k \in DOMAIN Wanting(s) : Wanting(s)[k] \in W
<1>1. PICK n \in Nat : n = Len(recoveryTxs)
  BY DEF QueueOK, TxsOK
<1>2. W \subseteq 1 .. n
  BY <1>1 DEF QueueOK, TxsOK
<1>3. PICK c : c = Cardinality(W)
  OBVIOUS
<1>4. IsFiniteSet(W) /\ c \in Nat
  BY <1>2, <1>3, Counted
<1>5. PICK g : IsWanting(g, W)
  BY <1>2, Ascending
<1>6. PICK f : f = Wanting(s)
  OBVIOUS
<1>7. f \in [1 .. c -> W] /\ \A j, k \in 1 .. c : j < k => f[j] < f[k]
  <2>1. g \in [1 .. c -> W] /\ DOMAIN g = 1 .. c
    BY <1>3, <1>5 DEF IsWanting
  <2>2. \A j, k \in DOMAIN g : j < k => g[j] < g[k]
    BY <1>3, <1>5, <2>1 DEF IsWanting
  <2>3. f = CHOOSE h \in [1 .. c -> W] : \A j, k \in DOMAIN h : j < k => h[j] < h[k]
    BY <1>3, <1>6 DEF Wanting
  <2>4. f \in [1 .. c -> W] /\ \A j, k \in DOMAIN f : j < k => f[j] < f[k]
    BY <2>1, <2>2, <2>3
  <2>5. DOMAIN f = 1 .. c
    BY <2>4
  <2> QED BY <2>4, <2>5
<1>8. ASSUME NEW j \in 1 .. c, NEW k \in 1 .. c, f[j] = f[k] PROVE j = k
  <2>1. f[j] \in Int
    BY <1>2, <1>7
  <2>2. ~(j < k) /\ ~(k < j)
    BY <1>7, <1>8, <2>1
  <2> QED BY <1>4, <2>2
<1>9. f \in Injection(1 .. c, W)
  BY <1>7, <1>8 DEF Injection, IsInjective
<1>10. IsFiniteSet(1 .. c) /\ Cardinality(1 .. c) = c
  BY <1>4, FS_Interval
<1>11. f \in Surjection(1 .. c, W)
  BY <1>3, <1>4, <1>9, <1>10, FS_Injection
<1>12. \A i \in W : \E k \in 1 .. c : f[k] = i
  BY <1>11 DEF Surjection
<1>13. DOMAIN f = 1 .. c /\ \A k \in 1 .. c : f[k] \in W
  BY <1>7
<1> QED BY <1>6, <1>12, <1>13

(* A sequence with one element more.                                        *)
LEMMA Appended ==
    ASSUME NEW n \in Nat, NEW q, q = [i \in 1 .. n |-> q[i]], NEW e, NEW r, r = Append(q, e)
    PROVE  /\ Len(r) = n + 1 /\ DOMAIN r = 1 .. (n + 1)
           /\ r = [i \in 1 .. (n + 1) |-> r[i]]
           /\ r[n + 1] = e /\ \A i \in 1 .. n : r[i] = q[i]
<1> DEFINE X == {q[i] : i \in 1 .. n} \cup {e}
<1>1. \A i \in 1 .. n : q[i] \in X
  OBVIOUS
<1>2. e \in X
  OBVIOUS
<1> HIDE DEF X
<1>3. q \in [1 .. n -> X]
  BY <1>1
<1>4. q \in Seq(X) /\ Len(q) = n
  BY <1>3
<1>5. /\ r \in Seq(X) /\ Len(r) = n + 1 /\ r[n + 1] = e
      /\ \A i \in 1 .. n : r[i] = q[i]
  BY <1>2, <1>4
<1>6. r \in [1 .. (n + 1) -> X]
  <2>1. r \in [1 .. Len(r) -> X]
    BY <1>5, LenProperties
  <2> QED BY <1>5, <2>1
<1> QED BY <1>5, <1>6

(* What a submission that is accepted does.                                 *)
LEMMA Submitted ==
    ASSUME QueueOK, NEW s \in Signers, SubmitRecoverySignature(s), NEW i \in DOMAIN recoveryTxs
    PROVE  recoveryTxs'[i] = IF ShareNeeded(recoveryTxs[i].input, s)
                             THEN WithShare(recoveryTxs[i], s) ELSE recoveryTxs[i]
<1>1. PICK W : W = {j \in DOMAIN recoveryTxs : ShareNeeded(recoveryTxs[j].input, s)}
  OBVIOUS
<1>2. asked[s] = Wanting(s)
  BY DEF SubmitRecoverySignature, SignSucceeds
<1>3. (\E k \in DOMAIN asked[s] : asked[s][k] = i) <=> i \in W
  BY <1>1, <1>2, WantingAll
<1>4. i \in W <=> ShareNeeded(recoveryTxs[i].input, s)
  BY <1>1
<1>5. recoveryTxs'[i] = IF \E k \in DOMAIN asked[s] : asked[s][k] = i
                        THEN WithShare(recoveryTxs[i], s) ELSE recoveryTxs[i]
  BY DEF SubmitRecoverySignature
<1> QED BY <1>3, <1>4, <1>5

(* The queue keeps its form.                                                *)
LEMMA QueueKept == QueueOK /\ [Next]_vars => QueueOK'
<1> SUFFICES ASSUME QueueOK, [Next]_vars PROVE QueueOK'
  OBVIOUS
<1>1. PICK n \in Nat : n = Len(recoveryTxs)
  BY DEF QueueOK, TxsOK
<1>2. /\ DOMAIN recoveryTxs = 1 .. n /\ recoveryTxs = [i \in 1 .. n |-> recoveryTxs[i]]
      /\ \A i \in 1 .. n : TxOK(recoveryTxs[i])
  BY <1>1 DEF QueueOK, TxsOK
<1>3. ASSUME recoveryTxs' = recoveryTxs PROVE QueueOK'
  BY <1>3 DEF QueueOK
<1>4. ASSUME NEW value \in Values, NEW signatories \in (SUBSET Signers) \ {{}}, NEW rate \in FeeRates,
             CreateRecoveryTx(value, signatories, rate)
      PROVE  QueueOK'
  <2>1. PICK tx : tx = NewRecoveryTx(value, signatories, rate * EstVsize(signatories))
    OBVIOUS
  <2>2. TxOK(tx)
    BY <2>1, FreshTx
  <2>3. PICK r : r = recoveryTxs'
    OBVIOUS
  <2>4. r = Append(recoveryTxs, tx)
    BY <1>4, <2>1, <2>3 DEF CreateRecoveryTx
  <2>5. /\ Len(r) = n + 1 /\ DOMAIN r = 1 .. (n + 1)
        /\ r = [i \in 1 .. (n + 1) |-> r[i]]
        /\ r[n + 1] = tx /\ \A i \in 1 .. n : r[i] = recoveryTxs[i]
    BY <1>2, <2>4, Appended
  <2>6. ASSUME NEW i \in 1 .. (n + 1) PROVE TxOK(r[i])
    <3>1. CASE i = n + 1
      BY <2>2, <2>5, <3>1
    <3>2. CASE i # n + 1
      <4>1. i \in 1 .. n
        BY <3>2
      <4> QED BY <1>2, <2>5, <4>1
    <3> QED BY <3>1, <3>2
  <2>7. \A i \in DOMAIN r : TxOK(r[i])
    BY <2>5, <2>6
  <2>8. TxsOK(r)
    BY <2>5, <2>7 DEF TxsOK
  <2> QED BY <2>3, <2>8 DEF QueueOK
<1>5. ASSUME NEW s \in Signers, SubmitRecoverySignature(s) PROVE QueueOK'
  <2>1. PICK r : r = recoveryTxs'
    OBVIOUS
  <2>2. DOMAIN r = 1 .. n /\ r = [i \in 1 .. n |-> r[i]]
    BY <1>2, <1>5, <2>1 DEF SubmitRecoverySignature
  <2>3. Len(r) = n
    BY <2>2
  <2>4. ASSUME NEW i \in 1 .. n PROVE TxOK(r[i])
    <3>1. i \in DOMAIN recoveryTxs /\ TxOK(recoveryTxs[i])
      BY <1>2
    <3>2. CASE ShareNeeded(recoveryTxs[i].input, s)
      <4>1. s \in DOMAIN recoveryTxs[i].input.sigs
        BY <3>2 DEF ShareNeeded
      <4>2. r[i] = WithShare(recoveryTxs[i], s)
        BY <1>5, <2>1, <3>1, <3>2, Submitted
      <4> QED BY <3>1, <4>1, <4>2, OneMore
    <3>3. CASE ~ShareNeeded(recoveryTxs[i].input, s)
      <4>1. r[i] = recoveryTxs[i]
        BY <1>5, <2>1, <3>1, <3>3, Submitted
      <4> QED BY <3>1, <4>1
    <3> QED BY <3>2, <3>3
  <2>5. \A i \in DOMAIN r : TxOK(r[i])
    BY <2>2, <2>4
  <2>6. TxsOK(r)
    BY <2>2, <2>3, <2>5 DEF TxsOK
  <2> QED BY <2>1, <2>6 DEF QueueOK
<1>6. CASE UNCHANGED vars
  BY <1>3, <1>6 DEF vars
<1>7. CASE Next
  BY <1>3, <1>4, <1>5, <1>7 DEF Next, QuerySigningRecoveryTxs, RejectRecoverySignature
<1> QED BY <1>6, <1>7

(* At first it is empty.                                                    *)
LEMMA QueueInit == Init => QueueOK
<1> SUFFICES ASSUME Init PROVE QueueOK
  OBVIOUS
<1>1. recoveryTxs = <<>>
  BY DEF Init
<1>2. DOMAIN recoveryTxs = 1 .. 0 /\ Len(recoveryTxs) = 0
  BY <1>1
<1>3. recoveryTxs = [i \in 1 .. 0 |-> recoveryTxs[i]]
  BY <1>1, <1>2
<1>4. 1 .. 0 = {}
  OBVIOUS
<1> QED BY <1>2, <1>3, <1>4 DEF QueueOK, TxsOK

(* A recovery transaction sends its deposit on less exactly its fee when    *)
(* that leaves more than dust, and otherwise has no output, if the fee rate *)
(* is not zero.                                                             *)
THEOREM RecoveryPaysItsFee ==
    ASSUME FeeRates \subseteq Nat \ {0}
    PROVE  Spec => []OnlyDustIsLost
<1>1. QueueOK => OnlyDustIsLost
  <2> SUFFICES ASSUME QueueOK, NEW i \in DOMAIN recoveryTxs, NEW tx, tx = recoveryTxs[i]
               PROVE  IF tx.amount > DustValue + tx.fee
                      THEN tx.output = <<tx.amount - tx.fee>>
                      ELSE DOMAIN tx.output = {}
    BY DEF OnlyDustIsLost
  <2>1. PICK v, fee, o : v = tx.amount /\ fee = tx.fee /\ o = tx.output
    OBVIOUS
  <2>2. v \in Nat /\ fee \in Nat \ {0} /\ o = Deducted(<<v>>, fee)
    BY <2>1 DEF QueueOK, TxsOK, TxOK
  <2>3. IF v > DustValue + fee THEN o = <<v - fee>> ELSE DOMAIN o = {}
    BY <2>2, OneOutput
  <2> QED BY <2>1, <2>3
<1> QED BY <1>1, QueueInit, QueueKept, PTL DEF Spec

(* A submission that is accepted leaves no transaction that still wants the *)
(* signer.                                                                  *)
THEOREM SubmissionIsComplete == Spec => NothingLeftBehind
<1>1. QueueOK /\ [Next]_vars
        => [\A s \in Signers :
              (\E i \in DOMAIN recoveryTxs :
                  s \in SignedBy(recoveryTxs'[i].input) \ SignedBy(recoveryTxs[i].input))
              => \A i \in DOMAIN recoveryTxs' : ~ShareNeeded(recoveryTxs'[i].input, s)]_vars
  <2> SUFFICES ASSUME QueueOK, Next, NEW s \in Signers, NEW i \in DOMAIN recoveryTxs,
                      s \in SignedBy(recoveryTxs'[i].input), s \notin SignedBy(recoveryTxs[i].input),
                      NEW j \in DOMAIN recoveryTxs'
               PROVE  ~ShareNeeded(recoveryTxs'[j].input, s)
    OBVIOUS
  <2>1. PICK n \in Nat : n = Len(recoveryTxs)
    BY DEF QueueOK, TxsOK
  <2>2. /\ DOMAIN recoveryTxs = 1 .. n /\ recoveryTxs = [k \in 1 .. n |-> recoveryTxs[k]]
        /\ \A k \in 1 .. n : TxOK(recoveryTxs[k])
    BY <2>1 DEF QueueOK, TxsOK
  <2>3. ASSUME NEW value \in Values, NEW signatories \in (SUBSET Signers) \ {{}},
               NEW rate \in FeeRates, CreateRecoveryTx(value, signatories, rate)
        PROVE  FALSE
    <3>1. PICK r, tx : r = recoveryTxs' /\ r = Append(recoveryTxs, tx)
      BY <2>3 DEF CreateRecoveryTx
    <3>2. r[i] = recoveryTxs[i]
      BY <2>2, <3>1, Appended
    <3> QED BY <3>1, <3>2
  <2>4. ASSUME NEW t \in Signers, SubmitRecoverySignature(t) PROVE t = s
    <3>1. CASE ShareNeeded(recoveryTxs[i].input, t)
      <4>1. t \in DOMAIN recoveryTxs[i].input.sigs /\ TxOK(recoveryTxs[i])
        BY <2>2, <3>1 DEF ShareNeeded
      <4>2. recoveryTxs'[i] = WithShare(recoveryTxs[i], t)
        BY <2>4, <3>1, Submitted
      <4>3. SignedBy(recoveryTxs'[i].input) = SignedBy(recoveryTxs[i].input) \cup {t}
        BY <4>1, <4>2, OneMore
      <4> QED BY <4>3
    <3>2. CASE ~ShareNeeded(recoveryTxs[i].input, t)
      <4>1. recoveryTxs'[i] = recoveryTxs[i]
        BY <2>4, <3>2, Submitted
      <4> QED BY <4>1
    <3> QED BY <3>1, <3>2
  <2>5. SubmitRecoverySignature(s)
    <3>1. recoveryTxs' # recoveryTxs
      OBVIOUS
    <3>2. \E t \in Signers : SubmitRecoverySignature(t)
      BY <2>3, <3>1 DEF Next, QuerySigningRecoveryTxs, RejectRecoverySignature
    <3> QED BY <2>4, <3>2
  <2>6. j \in DOMAIN recoveryTxs /\ TxOK(recoveryTxs[j])
    BY <2>2, <2>5 DEF SubmitRecoverySignature
  <2>7. CASE ShareNeeded(recoveryTxs[j].input, s)
    <3>1. s \in DOMAIN recoveryTxs[j].input.sigs
      BY <2>7 DEF ShareNeeded
    <3>2. recoveryTxs'[j] = WithShare(recoveryTxs[j], s)
      BY <2>5, <2>6, <2>7, Submitted
    <3> QED BY <2>6, <3>1, <3>2, OneMore
  <2>8. CASE ~ShareNeeded(recoveryTxs[j].input, s)
    <3>1. recoveryTxs'[j] = recoveryTxs[j]
      BY <2>5, <2>6, <2>8, Submitted
    <3> QED BY <2>8, <3>1
  <2> QED BY <2>7, <2>8
<1> QED BY <1>1, QueueInit, QueueKept, PTL DEF Spec, NothingLeftBehind
=============================================================================
