----------------------------- MODULE SumTheorems -----------------------------
(***************************************************************************)
(* Facts about the sums the models take of amounts, fees, powers and work:  *)
(* SumFunctionOnSet(f, S), the community modules' fold, which adds the f[x] *)
(* in the order CHOOSE picks the elements of S.  For a finite S and integer *)
(* values the order does not matter, and the sum splits as sums do.         *)
(*                                                                         *)
(* Induction is by minimal counterexample: a non-empty set of finite sets   *)
(* has a minimal element, a non-empty set of naturals a least one.          *)
(***************************************************************************)
EXTENDS Integers, Sequences, FiniteSets, Functions, FiniteSetTheorems, TLAPS

-----------------------------------------------------------------------------
(* Minimal elements.                                                        *)

Less == {p \in Nat \X Nat : p[1] < p[2]}

(* A non-empty set of naturals has a least element.                         *)
LEMMA LeastNat ==
    ASSUME NEW T \in SUBSET Nat, T # {}
    PROVE  \E m \in T : \A k \in T : m <= k
<1>1. IsWellFoundedOn(Less, Nat)
  BY NatLessThanWellFounded DEF OpToRel, Less
<1>2. PICK x \in T : \A y \in T : ~(<<y, x>> \in Less)
  BY <1>1, WFMin
<1>3. ASSUME NEW y \in T PROVE x <= y
  <2>1. <<y, x>> \in Nat \X Nat
    OBVIOUS
  <2>2. ~(y < x)
    BY <1>2, <2>1 DEF Less
  <2>3. QED
    BY <2>2
<1>4. QED
  BY <1>3

(* A non-empty set of subsets of a finite set has a minimal one.            *)
LEMMA MinimalSubset ==
    ASSUME NEW S, IsFiniteSet(S), NEW T \in SUBSET (SUBSET S), T # {}
    PROVE  \E m \in T : \A k \in T : k \subseteq m => k = m
<1>1. \E x \in T : \A y \in T : ~(<<y, x>> \in StrictSubsetOrdering(S))
  BY FS_StrictSubsetOrderingWellFounded, FS_FiniteSubsetsOfFinite, WFMin
<1>2. QED
  BY <1>1 DEF StrictSubsetOrdering

-----------------------------------------------------------------------------
(* The fold is well defined on a finite set.                                *)

Pick(s) == CHOOSE x \in s : TRUE

(* it is the table of partial sums of f over the subsets of S.              *)
IsTable(it, f, S) ==
    it = [s \in SUBSET S |-> IF s = {} THEN 0 ELSE f[Pick(s)] + it[s \ {Pick(s)}]]

Table(f, S) == CHOOSE it : IsTable(it, f, S)

(* The community modules' fold is the table's last entry.                   *)
LEMMA SumIsTable ==
    ASSUME NEW f, NEW S
    PROVE  SumFunctionOnSet(f, S) = Table(f, S)[S]
BY DEF SumFunctionOnSet, FoldFunctionOnSet, MapThenFoldSet, Table, IsTable, Pick

(* CHOOSE picks an element of a non-empty set.                              *)
LEMMA PickIn ==
    ASSUME NEW s, s # {}
    PROVE  Pick(s) \in s
BY DEF Pick

(* An entry of the table.                                                   *)
LEMMA TableEntry ==
    ASSUME NEW it, NEW f, NEW S, IsTable(it, f, S), NEW s \in SUBSET S
    PROVE  it[s] = IF s = {} THEN 0 ELSE f[Pick(s)] + it[s \ {Pick(s)}]
BY DEF IsTable

(* Two tables agree where both are defined.                                 *)
LEMMA TablesAgree ==
    ASSUME NEW f, NEW U, NEW V, IsFiniteSet(U), U \subseteq V,
           NEW g, IsTable(g, f, U), NEW h, IsTable(h, f, V),
           NEW s \in SUBSET U
    PROVE  g[s] = h[s]
<1> DEFINE Bad == {t \in SUBSET U : g[t] # h[t]}
<1>1. SUFFICES ASSUME Bad # {} PROVE FALSE
  BY <1>1
<1>2. PICK t \in Bad : \A k \in Bad : k \subseteq t => k = t
  <2>1. Bad \in SUBSET (SUBSET U)
    OBVIOUS
  <2> HIDE DEF Bad
  <2>2. QED
    BY <1>1, <2>1, MinimalSubset
<1>3. t \in SUBSET U /\ t \in SUBSET V
  OBVIOUS
<1>4. g[t] = IF t = {} THEN 0 ELSE f[Pick(t)] + g[t \ {Pick(t)}]
  BY <1>3, TableEntry
<1>5. h[t] = IF t = {} THEN 0 ELSE f[Pick(t)] + h[t \ {Pick(t)}]
  BY <1>3, TableEntry
<1>6. CASE t = {}
  BY <1>4, <1>5, <1>6
<1>7. CASE t # {}
  <2>1. Pick(t) \in t
    BY <1>7, PickIn
  <2>2. t \ {Pick(t)} \notin Bad
    BY <1>2, <2>1
  <2>3. g[t \ {Pick(t)}] = h[t \ {Pick(t)}]
    BY <2>2, <1>3
  <2>4. QED
    BY <1>4, <1>5, <1>7, <2>3
<1>8. QED
  BY <1>6, <1>7

(* The table of a finite set exists.                                        *)
LEMMA TableExists ==
    ASSUME NEW f, NEW S, IsFiniteSet(S)
    PROVE  IsTable(Table(f, S), f, S)
<1> DEFINE Bad == {t \in SUBSET S : ~\E it : IsTable(it, f, t)}
<1>1. SUFFICES Bad = {}
  <2>1. S \notin Bad
    BY <1>1
  <2>2. QED
    BY <2>1 DEF Table
<1>2. SUFFICES ASSUME Bad # {} PROVE FALSE
  BY <1>2
<1>3. PICK t \in Bad : \A k \in Bad : k \subseteq t => k = t
  <2>1. Bad \in SUBSET (SUBSET S)
    OBVIOUS
  <2> HIDE DEF Bad
  <2>2. QED
    BY <1>2, <2>1, MinimalSubset
<1>4. IsFiniteSet(t)
  BY FS_Subset
<1>5. ASSUME NEW k \in SUBSET t, k # t PROVE IsTable(Table(f, k), f, k)
  <2>1. k \notin Bad
    BY <1>3, <1>5
  <2>2. QED
    BY <2>1 DEF Table
<1> DEFINE last == f[Pick(t)] + Table(f, t \ {Pick(t)})[t \ {Pick(t)}]
           it   == [s \in SUBSET t |->
                       IF s = t THEN IF t = {} THEN 0 ELSE last ELSE Table(f, s)[s]]
<1>6. ASSUME NEW s \in SUBSET t
      PROVE  it[s] = IF s = {} THEN 0 ELSE f[Pick(s)] + it[s \ {Pick(s)}]
  <2>1. CASE s = {} /\ t = {}
    BY <2>1
  <2>2. CASE s = {} /\ t # {}
    <3>1. it[s] = Table(f, s)[s]
      BY <2>2
    <3>2. IsTable(Table(f, s), f, s)
      BY <1>5, <2>2
    <3>3. s \in SUBSET s
      OBVIOUS
    <3>4. Table(f, s)[s] = 0
      BY <2>2, <3>2, <3>3, TableEntry
    <3>5. QED
      BY <2>2, <3>1, <3>4
  <2>3. CASE s # {} /\ s = t
    <3>1. Pick(s) \in s
      BY <2>3, PickIn
    <3>2. s \ {Pick(s)} \in SUBSET t /\ s \ {Pick(s)} # t
      BY <2>3, <3>1
    <3>3. it[s \ {Pick(s)}] = Table(f, s \ {Pick(s)})[s \ {Pick(s)}]
      BY <3>2
    <3>4. it[s] = last
      BY <2>3
    <3>5. QED
      BY <2>3, <3>3, <3>4
  <2>4. CASE s # {} /\ s # t
    <3> DEFINE r == s \ {Pick(s)}
    <3>1. Pick(s) \in s
      BY <2>4, PickIn
    <3>2. r \in SUBSET t /\ r # t /\ r \in SUBSET s
      BY <2>4, <3>1
    <3>3. it[r] = Table(f, r)[r] /\ it[s] = Table(f, s)[s]
      BY <2>4, <3>2
    <3>4. IsTable(Table(f, r), f, r) /\ IsTable(Table(f, s), f, s)
      BY <1>5, <2>4, <3>2
    <3>5. IsFiniteSet(r)
      BY <1>4, <3>2, FS_Subset
    <3>6. Table(f, r)[r] = Table(f, s)[r]
      BY <3>2, <3>4, <3>5, TablesAgree
    <3>7. Table(f, s)[s] = f[Pick(s)] + Table(f, s)[r]
      <4>1. s \in SUBSET s
        OBVIOUS
      <4>2. QED
        BY <2>4, <3>4, <4>1, TableEntry
    <3>8. QED
      BY <2>4, <3>3, <3>6, <3>7
  <2>5. QED
    BY <2>1, <2>2, <2>3, <2>4
<1>7. IsTable(it, f, t)
  BY <1>6 DEF IsTable
<1>8. QED
  BY <1>7

-----------------------------------------------------------------------------
(* Sums.                                                                    *)

(* The sum over no element is 0.                                            *)
LEMMA SumEmpty ==
    ASSUME NEW f
    PROVE  SumFunctionOnSet(f, {}) = 0
<1>1. IsTable(Table(f, {}), f, {})
  BY TableExists, FS_EmptySet
<1>2. {} \in SUBSET {}
  OBVIOUS
<1>3. QED
  BY <1>1, <1>2, TableEntry, SumIsTable

(* The sum over a non-empty set, by the element CHOOSE picks.               *)
LEMMA SumPick ==
    ASSUME NEW f, NEW S, IsFiniteSet(S), S # {}
    PROVE  SumFunctionOnSet(f, S)
               = f[Pick(S)] + SumFunctionOnSet(f, S \ {Pick(S)})
<1> DEFINE r == S \ {Pick(S)}
<1>1. IsFiniteSet(r) /\ r \in SUBSET S /\ r \in SUBSET r /\ S \in SUBSET S
  BY FS_Subset
<1>2. IsTable(Table(f, S), f, S) /\ IsTable(Table(f, r), f, r)
  BY <1>1, TableExists
<1>3. Table(f, S)[S] = f[Pick(S)] + Table(f, S)[r]
  BY <1>1, <1>2, TableEntry
<1> HIDE DEF r
<1>4. Table(f, r)[r] = Table(f, S)[r]
  BY <1>1, <1>2, TablesAgree
<1>5. SumFunctionOnSet(f, S) = f[Pick(S)] + SumFunctionOnSet(f, r)
  BY <1>3, <1>4, SumIsTable
<1>6. QED
  BY <1>5 DEF r

(* A sum of integers is an integer.                                         *)
LEMMA SumInt ==
    ASSUME NEW S, IsFiniteSet(S), NEW f, \A x \in S : f[x] \in Int
    PROVE  SumFunctionOnSet(f, S) \in Int
<1> DEFINE Bad == {t \in SUBSET S : SumFunctionOnSet(f, t) \notin Int}
<1>1. SUFFICES ASSUME Bad # {} PROVE FALSE
  BY <1>1
<1>2. PICK t \in Bad : \A k \in Bad : k \subseteq t => k = t
  <2>1. Bad \in SUBSET (SUBSET S)
    OBVIOUS
  <2> HIDE DEF Bad
  <2>2. QED
    BY <1>1, <2>1, MinimalSubset
<1>3. CASE t = {}
  BY <1>3, SumEmpty
<1>4. CASE t # {}
  <2>1. Pick(t) \in t /\ f[Pick(t)] \in Int
    BY <1>4, PickIn
  <2>2. t \ {Pick(t)} \notin Bad
    BY <1>2, <2>1
  <2>3. SumFunctionOnSet(f, t \ {Pick(t)}) \in Int
    BY <2>2
  <2>4. SumFunctionOnSet(f, t) = f[Pick(t)] + SumFunctionOnSet(f, t \ {Pick(t)})
    BY <1>4, SumPick, FS_Subset
  <2>5. QED
    BY <2>1, <2>3, <2>4
<1>5. QED
  BY <1>3, <1>4

(* Any element can be taken out of a sum.                                   *)
LEMMA SumRemove ==
    ASSUME NEW S, IsFiniteSet(S), NEW f, \A x \in S : f[x] \in Int, NEW e \in S
    PROVE  SumFunctionOnSet(f, S) = f[e] + SumFunctionOnSet(f, S \ {e})
<1> DEFINE Bad == {t \in SUBSET S :
                     \E x \in t : SumFunctionOnSet(f, t)
                                    # f[x] + SumFunctionOnSet(f, t \ {x})}
<1>1. SUFFICES ASSUME Bad # {} PROVE FALSE
  BY <1>1
<1>2. PICK t \in Bad : \A k \in Bad : k \subseteq t => k = t
  <2>1. Bad \in SUBSET (SUBSET S)
    OBVIOUS
  <2> HIDE DEF Bad
  <2>2. QED
    BY <1>1, <2>1, MinimalSubset
<1>3. PICK x \in t : SumFunctionOnSet(f, t) # f[x] + SumFunctionOnSet(f, t \ {x})
  OBVIOUS
<1> DEFINE p == Pick(t)
<1>4. p \in t /\ IsFiniteSet(t) /\ t \in SUBSET S
  BY PickIn, FS_Subset
<1>5. SumFunctionOnSet(f, t) = f[p] + SumFunctionOnSet(f, t \ {p})
  BY <1>4, SumPick
<1> HIDE DEF p
<1>6. x # p
  BY <1>3, <1>5
<1>7. t \ {p} \notin Bad /\ t \ {x} \notin Bad
  BY <1>2, <1>4
<1>8. SumFunctionOnSet(f, t \ {p}) = f[x] + SumFunctionOnSet(f, (t \ {p}) \ {x})
  BY <1>4, <1>6, <1>7
<1>9. SumFunctionOnSet(f, t \ {x}) = f[p] + SumFunctionOnSet(f, (t \ {x}) \ {p})
  BY <1>4, <1>6, <1>7
<1>10. (t \ {p}) \ {x} = (t \ {x}) \ {p}
  OBVIOUS
<1>11. f[x] \in Int /\ f[p] \in Int
  BY <1>4
<1>12. SumFunctionOnSet(f, (t \ {p}) \ {x}) \in Int
  BY <1>4, SumInt, FS_Subset
<1>13. SumFunctionOnSet(f, (t \ {p}) \ {x}) = SumFunctionOnSet(f, (t \ {x}) \ {p})
  BY <1>10, Zenon
<1> HIDE DEF Bad
<1>14. QED
  BY <1>3, <1>5, <1>8, <1>9, <1>11, <1>12, <1>13

(* Adding an element to a sum.                                              *)
LEMMA SumAdd ==
    ASSUME NEW S, IsFiniteSet(S), NEW e, e \notin S,
           NEW f, \A x \in S \cup {e} : f[x] \in Int
    PROVE  SumFunctionOnSet(f, S \cup {e}) = SumFunctionOnSet(f, S) + f[e]
<1>1. IsFiniteSet(S \cup {e}) /\ (S \cup {e}) \ {e} = S
  BY FS_AddElement
<1>2. SumFunctionOnSet(f, S \cup {e}) = f[e] + SumFunctionOnSet(f, S)
  BY <1>1, SumRemove
<1>3. SumFunctionOnSet(f, S) \in Int /\ f[e] \in Int
  BY SumInt
<1>4. QED
  BY <1>2, <1>3

(* Functions that agree on the set have the same sum.                       *)
LEMMA SumSame ==
    ASSUME NEW S, IsFiniteSet(S), NEW f, NEW g, \A x \in S : f[x] = g[x]
    PROVE  SumFunctionOnSet(f, S) = SumFunctionOnSet(g, S)
<1> DEFINE Bad == {t \in SUBSET S : SumFunctionOnSet(f, t) # SumFunctionOnSet(g, t)}
<1>1. SUFFICES ASSUME Bad # {} PROVE FALSE
  BY <1>1
<1>2. PICK t \in Bad : \A k \in Bad : k \subseteq t => k = t
  <2>1. Bad \in SUBSET (SUBSET S)
    OBVIOUS
  <2> HIDE DEF Bad
  <2>2. QED
    BY <1>1, <2>1, MinimalSubset
<1>3. CASE t = {}
  BY <1>3, SumEmpty
<1>4. CASE t # {}
  <2>1. Pick(t) \in t /\ f[Pick(t)] = g[Pick(t)] /\ IsFiniteSet(t)
    BY <1>4, PickIn, FS_Subset
  <2>2. t \ {Pick(t)} \notin Bad
    BY <1>2, <2>1
  <2>3. SumFunctionOnSet(f, t \ {Pick(t)}) = SumFunctionOnSet(g, t \ {Pick(t)})
    BY <2>2
  <2>4. QED
    BY <1>4, <2>1, <2>3, SumPick
<1>5. QED
  BY <1>3, <1>4

(* A sum over two disjoint sets is the sum of the sums.                     *)
LEMMA SumUnion ==
    ASSUME NEW S, IsFiniteSet(S), NEW U, IsFiniteSet(U), S \cap U = {},
           NEW f, \A x \in S \cup U : f[x] \in Int
    PROVE  SumFunctionOnSet(f, S \cup U)
               = SumFunctionOnSet(f, S) + SumFunctionOnSet(f, U)
<1> DEFINE Bad == {t \in SUBSET U : SumFunctionOnSet(f, S \cup t)
                       # SumFunctionOnSet(f, S) + SumFunctionOnSet(f, t)}
<1>1. SUFFICES ASSUME Bad # {} PROVE FALSE
  BY <1>1
<1>2. PICK t \in Bad : \A k \in Bad : k \subseteq t => k = t
  <2>1. Bad \in SUBSET (SUBSET U)
    OBVIOUS
  <2> HIDE DEF Bad
  <2>2. QED
    BY <1>1, <2>1, MinimalSubset
<1>3. SumFunctionOnSet(f, S) \in Int
  BY SumInt
<1>4. CASE t = {}
  <2>1. S \cup t = S
    BY <1>4
  <2>2. QED
    BY <1>3, <1>4, <2>1, SumEmpty
<1>5. CASE t # {}
  <2>1. PICK e \in t : TRUE
    BY <1>5
  <2> DEFINE r == t \ {e}
  <2>2. r \notin Bad /\ r \in SUBSET U
    BY <1>2
  <2>3. SumFunctionOnSet(f, S \cup r) = SumFunctionOnSet(f, S) + SumFunctionOnSet(f, r)
    BY <2>2
  <2>4. IsFiniteSet(r) /\ IsFiniteSet(S \cup r) /\ e \notin r /\ e \notin S \cup r
    BY FS_Subset, FS_Union
  <2>5. r \cup {e} = t /\ (S \cup r) \cup {e} = S \cup t
    OBVIOUS
  <2>6. /\ \A x \in r \cup {e} : f[x] \in Int
        /\ \A x \in (S \cup r) \cup {e} : f[x] \in Int
    OBVIOUS
  <2> HIDE DEF r, Bad
  <2>7. SumFunctionOnSet(f, r \cup {e}) = SumFunctionOnSet(f, r) + f[e]
    BY <2>4, <2>6, SumAdd
  <2>8. SumFunctionOnSet(f, (S \cup r) \cup {e}) = SumFunctionOnSet(f, S \cup r) + f[e]
    BY <2>4, <2>6, SumAdd
  <2>9. SumFunctionOnSet(f, r) \in Int /\ f[e] \in Int
    BY <2>4, <2>6, SumInt
  <2>10. SumFunctionOnSet(f, S \cup t) = SumFunctionOnSet(f, S) + SumFunctionOnSet(f, t)
    <3>1. /\ SumFunctionOnSet(f, S \cup t) = SumFunctionOnSet(f, (S \cup r) \cup {e})
          /\ SumFunctionOnSet(f, t) = SumFunctionOnSet(f, r \cup {e})
      BY <2>5, Zenon
    <3>2. QED
      BY <1>3, <2>3, <2>7, <2>8, <2>9, <3>1
  <2>11. QED
    BY <2>10 DEF Bad
<1>6. QED
  BY <1>4, <1>5

(* A sum of naturals is a natural.                                          *)
LEMMA SumNat ==
    ASSUME NEW S, IsFiniteSet(S), NEW f, \A x \in S : f[x] \in Nat
    PROVE  SumFunctionOnSet(f, S) \in Nat
<1> DEFINE Bad == {t \in SUBSET S : SumFunctionOnSet(f, t) \notin Nat}
<1>1. SUFFICES ASSUME Bad # {} PROVE FALSE
  BY <1>1
<1>2. PICK t \in Bad : \A k \in Bad : k \subseteq t => k = t
  <2>1. Bad \in SUBSET (SUBSET S)
    OBVIOUS
  <2> HIDE DEF Bad
  <2>2. QED
    BY <1>1, <2>1, MinimalSubset
<1>3. CASE t = {}
  BY <1>3, SumEmpty
<1>4. CASE t # {}
  <2>1. Pick(t) \in t /\ f[Pick(t)] \in Nat
    BY <1>4, PickIn
  <2>2. t \ {Pick(t)} \notin Bad
    BY <1>2, <2>1
  <2>3. SumFunctionOnSet(f, t \ {Pick(t)}) \in Nat
    BY <2>2
  <2>4. SumFunctionOnSet(f, t) = f[Pick(t)] + SumFunctionOnSet(f, t \ {Pick(t)})
    BY <1>4, SumPick, FS_Subset
  <2>5. QED
    BY <2>1, <2>3, <2>4
<1>5. QED
  BY <1>3, <1>4

(* A sum of zeros is zero.                                                  *)
LEMMA SumZero ==
    ASSUME NEW S, IsFiniteSet(S), NEW f, \A x \in S : f[x] = 0
    PROVE  SumFunctionOnSet(f, S) = 0
<1> DEFINE T == {U \in SUBSET S : SumFunctionOnSet(f, U) # 0}
<1> SUFFICES ASSUME S \in T PROVE FALSE
  OBVIOUS
<1>1. PICK m \in T : \A k \in T : k \subseteq m => k = m
  <2>1. T \in SUBSET (SUBSET S) /\ T # {}
    OBVIOUS
  <2> HIDE DEF T
  <2> QED BY <2>1, MinimalSubset
<1>2. m \subseteq S /\ SumFunctionOnSet(f, m) # 0
  OBVIOUS
<1>3. m # {}
  BY <1>2, SumEmpty
<1>4. PICK e \in m : TRUE
  BY <1>3
<1>5. IsFiniteSet(m) /\ \A x \in m : f[x] \in Int
  BY <1>2, FS_Subset
<1>6. SumFunctionOnSet(f, m) = f[e] + SumFunctionOnSet(f, m \ {e})
  BY <1>5, SumRemove
<1>7. SumFunctionOnSet(f, m \ {e}) = 0
  <2>1. m \ {e} \notin T
    BY <1>1
  <2> QED BY <1>2, <2>1
<1> QED BY <1>2, <1>6, <1>7

(* A sum of naturals over more elements is no smaller.                      *)
LEMMA SumMonotone ==
    ASSUME NEW S, IsFiniteSet(S), NEW U \in SUBSET S,
           NEW f, \A x \in S : f[x] \in Nat
    PROVE  SumFunctionOnSet(f, U) <= SumFunctionOnSet(f, S)
<1> DEFINE r == S \ U
<1>1. IsFiniteSet(U) /\ IsFiniteSet(r) /\ U \cap r = {} /\ U \cup r = S
  BY FS_Subset
<1>2. SumFunctionOnSet(f, U) \in Nat /\ SumFunctionOnSet(f, r) \in Nat
  BY <1>1, SumNat
<1>3. \A x \in U \cup r : f[x] \in Int
  OBVIOUS
<1> HIDE DEF r
<1>4. SumFunctionOnSet(f, U \cup r) = SumFunctionOnSet(f, U) + SumFunctionOnSet(f, r)
  BY <1>1, <1>3, SumUnion
<1>5. SumFunctionOnSet(f, S) = SumFunctionOnSet(f, U \cup r)
  BY <1>1, Zenon
<1>6. QED
  BY <1>2, <1>4, <1>5

(* A sum does not depend on the names of the elements.                      *)
LEMMA SumRenamed ==
    ASSUME NEW S, IsFiniteSet(S), NEW T, NEW b \in Bijection(S, T),
           NEW f, NEW g, \A x \in S : f[x] \in Int /\ g[b[x]] = f[x]
    PROVE  SumFunctionOnSet(g, T) = SumFunctionOnSet(f, S)
<1> DEFINE Image(t) == {b[x] : x \in t}
           Bad == {t \in SUBSET S : SumFunctionOnSet(g, Image(t)) # SumFunctionOnSet(f, t)}
<1>0. /\ b \in [S -> T]
      /\ \A x, y \in S : b[x] = b[y] => x = y
      /\ \A y \in T : \E x \in S : b[x] = y
  BY DEF Bijection, Injection, Surjection, IsInjective
<1>1. SUFFICES ASSUME Bad # {} PROVE FALSE
  <2>1. Image(S) = T
    BY <1>0
  <2>2. QED
    BY <1>1, <2>1
<1>2. PICK t \in Bad : \A k \in Bad : k \subseteq t => k = t
  <2>1. Bad \in SUBSET (SUBSET S)
    OBVIOUS
  <2> HIDE DEF Bad
  <2>2. QED
    BY <1>1, <2>1, MinimalSubset
<1>3. CASE t = {}
  <2>1. Image(t) = {}
    BY <1>3
  <2>2. QED
    BY <1>3, <2>1, SumEmpty
<1>4. CASE t # {}
  <2>1. PICK e \in t : TRUE
    BY <1>4
  <2> DEFINE r == t \ {e}
  <2>2. r \notin Bad /\ r \in SUBSET S
    BY <1>2
  <2>3. SumFunctionOnSet(g, Image(r)) = SumFunctionOnSet(f, r)
    BY <2>2
  <2>4. IsFiniteSet(r) /\ e \notin r /\ r \cup {e} = t
    BY FS_Subset
  <2>5. Image(t) = Image(r) \cup {b[e]} /\ b[e] \notin Image(r)
    BY <1>0
  <2>6. IsFiniteSet(Image(r))
    <3>1. [x \in r |-> b[x]] \in Surjection(r, Image(r))
      BY DEF Surjection
    <3>2. QED
      BY <2>4, <3>1, FS_Surjection
  <2>7. \A y \in Image(r) \cup {b[e]} : g[y] \in Int
    OBVIOUS
  <2>8. \A x \in r \cup {e} : f[x] \in Int
    OBVIOUS
  <2>9. g[b[e]] = f[e]
    OBVIOUS
  <2> HIDE DEF r, Bad, Image
  <2>10. SumFunctionOnSet(g, Image(r) \cup {b[e]}) = SumFunctionOnSet(g, Image(r)) + g[b[e]]
    <3> DEFINE I == Image(r)
               v == b[e]
    <3>1. IsFiniteSet(I) /\ v \notin I /\ \A y \in I \cup {v} : g[y] \in Int
      BY <2>5, <2>6, <2>7
    <3> HIDE DEF I, v
    <3>2. SumFunctionOnSet(g, I \cup {v}) = SumFunctionOnSet(g, I) + g[v]
      BY <3>1, SumAdd
    <3>3. QED
      BY <3>2 DEF I, v
  <2>11. SumFunctionOnSet(f, r \cup {e}) = SumFunctionOnSet(f, r) + f[e]
    BY <2>4, <2>8, SumAdd
  <2>12. SumFunctionOnSet(g, Image(t)) = SumFunctionOnSet(f, t)
    <3>1. /\ SumFunctionOnSet(g, Image(t)) = SumFunctionOnSet(g, Image(r) \cup {b[e]})
          /\ SumFunctionOnSet(f, t) = SumFunctionOnSet(f, r \cup {e})
      BY <2>4, <2>5, Zenon
    <3>2. QED
      BY <2>3, <2>9, <2>10, <2>11, <3>1
  <2>13. QED
    BY <2>12 DEF Bad
<1>5. QED
  BY <1>3, <1>4

-----------------------------------------------------------------------------
(* Sums over intervals, the domains of sequences.                           *)

(* A sum over an interval splits at any place.                              *)
LEMMA SumSplit ==
    ASSUME NEW a \in Int, NEW m \in Int, NEW n \in Int, a - 1 <= m, m <= n,
           NEW f, \A k \in a .. n : f[k] \in Int
    PROVE  SumFunctionOnSet(f, a .. n)
               = SumFunctionOnSet(f, a .. m) + SumFunctionOnSet(f, (m + 1) .. n)
<1>1. IsFiniteSet(a .. m) /\ IsFiniteSet((m + 1) .. n)
  BY FS_Interval
<1>2. (a .. m) \cap ((m + 1) .. n) = {}
  OBVIOUS
<1>3. (a .. m) \cup ((m + 1) .. n) = a .. n
  OBVIOUS
<1> DEFINE S == a .. m
           U == (m + 1) .. n
<1>4. \A k \in S \cup U : f[k] \in Int
  OBVIOUS
<1>5. IsFiniteSet(S) /\ IsFiniteSet(U) /\ S \cap U = {} /\ S \cup U = a .. n
  BY <1>1, <1>2, <1>3
<1> HIDE DEF S, U
<1>6. SumFunctionOnSet(f, S \cup U) = SumFunctionOnSet(f, S) + SumFunctionOnSet(f, U)
  BY <1>4, <1>5, SumUnion
<1>7. SumFunctionOnSet(f, a .. n) = SumFunctionOnSet(f, S \cup U)
  BY <1>5, Zenon
<1>8. QED
  BY <1>6, <1>7 DEF S, U

(* g has on c .. m, in this order, the integers that f has on a .. n.       *)
Shifted(f, a, n, g, c, m) ==
    /\ a \in Int /\ n \in Int /\ c \in Int /\ m \in Int
    /\ m - c = n - a
    /\ \A k \in a .. n : f[k] \in Int /\ g[k + (c - a)] = f[k]

(* A sum over an interval is the sum over the interval moved.               *)
LEMMA SumShift ==
    ASSUME NEW f, NEW a, NEW n, NEW g, NEW c, NEW m, Shifted(f, a, n, g, c, m)
    PROVE  SumFunctionOnSet(g, c .. m) = SumFunctionOnSet(f, a .. n)
<1> DEFINE S == a .. n
           T == c .. m
           b == [k \in S |-> k + (c - a)]
<1> USE DEF Shifted
<1>1. b \in [S -> T] /\ \A k \in S : b[k] = k + (c - a)
  OBVIOUS
<1>2. \A y \in T : y - (c - a) \in S /\ b[y - (c - a)] = y
  OBVIOUS
<1>3. \A x, y \in S : b[x] = b[y] => x = y
  OBVIOUS
<1>4. b \in Bijection(S, T)
  <2> HIDE DEF S, T, b
  <2>1. DOMAIN b = S
    BY <1>1
  <2>2. QED
    BY <1>1, <1>2, <1>3, <2>1 DEF Bijection, Injection, Surjection, IsInjective
<1>5. IsFiniteSet(S)
  BY FS_Interval
<1>6. \A k \in S : f[k] \in Int /\ g[b[k]] = f[k]
  OBVIOUS
<1> HIDE DEF S, T, b, Shifted
<1>7. SumFunctionOnSet(g, T) = SumFunctionOnSet(f, S)
  BY <1>4, <1>5, <1>6, SumRenamed
<1>8. QED
  BY <1>7 DEF S, T

(* g has on c .. m, last one first, the integers that f has on 1 .. n.      *)
Reversed(f, n, g, c, m) ==
    /\ n \in Int /\ c \in Int /\ m \in Int
    /\ m - c = n - 1
    /\ \A k \in 1 .. n : f[k] \in Int /\ g[m + 1 - k] = f[k]

(* A sum over an interval is the sum over the interval turned round.        *)
LEMMA SumReversed ==
    ASSUME NEW f, NEW n, NEW g, NEW c, NEW m, Reversed(f, n, g, c, m)
    PROVE  SumFunctionOnSet(g, c .. m) = SumFunctionOnSet(f, 1 .. n)
<1> DEFINE S == 1 .. n
           T == c .. m
           b == [k \in S |-> m + 1 - k]
<1>0. n \in Int /\ c \in Int /\ m \in Int /\ m - c = n - 1
  BY DEF Reversed
<1>1. \A k \in S : b[k] \in T /\ b[k] = m + 1 - k
  BY <1>0
<1>2. \A x, y \in S : b[x] = b[y] => x = y
  BY <1>0
<1>3. \A y \in T : m + 1 - y \in S /\ b[m + 1 - y] = y
  BY <1>0
<1>4. b \in Bijection(S, T)
  <2>1. b \in [S -> T]
    BY <1>1
  <2>2. QED
    BY <1>1, <1>2, <1>3, <2>1 DEF Bijection, Injection, Surjection, IsInjective
<1>5. IsFiniteSet(S)
  BY <1>0, FS_Interval
<1>6. \A x \in S : f[x] \in Int /\ g[b[x]] = f[x]
  BY DEF Reversed
<1> HIDE DEF S, T, b
<1>7. SumFunctionOnSet(g, T) = SumFunctionOnSet(f, S)
  BY <1>4, <1>5, <1>6, SumRenamed
<1>8. QED
  BY <1>7 DEF S, T

(* A sum over one element.                                                  *)
LEMMA SumOne ==
    ASSUME NEW e, NEW f, f[e] \in Int
    PROVE  SumFunctionOnSet(f, {e}) = f[e]
<1>1. IsFiniteSet({}) /\ {} \cup {e} = {e}
  BY FS_EmptySet
<1>2. SumFunctionOnSet(f, {} \cup {e}) = SumFunctionOnSet(f, {}) + f[e]
  BY <1>1, SumAdd
<1>3. SumFunctionOnSet(f, {e}) = SumFunctionOnSet(f, {} \cup {e})
  BY <1>1, Zenon
<1>4. QED
  BY <1>2, <1>3, SumEmpty

(* The last term of a sum over an interval.                                 *)
LEMMA SumLast ==
    ASSUME NEW a \in Int, NEW m \in Int, NEW n \in Int, n = m + 1, a <= n,
           NEW f, \A k \in a .. n : f[k] \in Int
    PROVE  /\ SumFunctionOnSet(f, a .. n) = SumFunctionOnSet(f, a .. m) + f[n]
           /\ SumFunctionOnSet(f, a .. m) \in Int
<1> DEFINE S == a .. m
<1>1. IsFiniteSet(S)
  BY FS_Interval
<1>2. n \notin S /\ n \in a .. n /\ \A k \in S : k \in a .. n
  OBVIOUS
<1>3. S \cup {n} = a .. n
  OBVIOUS
<1>4. \A k \in S \cup {n} : f[k] \in Int
  BY <1>2
<1> HIDE DEF S
<1>5. SumFunctionOnSet(f, S \cup {n}) = SumFunctionOnSet(f, S) + f[n]
  BY <1>1, <1>2, <1>4, SumAdd
<1>6. SumFunctionOnSet(f, a .. n) = SumFunctionOnSet(f, S \cup {n})
  BY <1>3, Zenon
<1>7. SumFunctionOnSet(f, S) \in Int
  BY <1>1, <1>4, SumInt
<1>8. QED
  BY <1>5, <1>6, <1>7 DEF S

(* On 1 .. n, f has the integers of g on 1 .. l, then those of h on 1 .. m, *)
(* in their order or last one first.                                        *)
SumJoin(f, n, g, l, h, m) ==
    /\ l \in Nat /\ m \in Nat /\ n \in Nat /\ n = l + m
    /\ \A k \in 1 .. n : f[k] \in Int
    /\ \A k \in 1 .. l : g[k] = f[k]
    /\ Shifted(h, 1, m, f, l + 1, n) \/ Reversed(h, m, f, l + 1, n)

(* Two sums over parts of an interval make the sum over it.                 *)
LEMMA SumParts ==
    ASSUME NEW f, NEW n, NEW g, NEW l, NEW h, NEW m, SumJoin(f, n, g, l, h, m)
    PROVE  SumFunctionOnSet(f, 1 .. n) =
               SumFunctionOnSet(g, 1 .. l) + SumFunctionOnSet(h, 1 .. m)
<1> USE DEF SumJoin
<1>1. IsFiniteSet(1 .. l)
  BY FS_Interval
<1>2. SumFunctionOnSet(g, 1 .. l) = SumFunctionOnSet(f, 1 .. l)
  BY <1>1, SumSame
<1>3. SumFunctionOnSet(f, (l + 1) .. n) = SumFunctionOnSet(h, 1 .. m)
  <2>1. PICK c \in Int : c = l + 1
    OBVIOUS
  <2>2. Shifted(h, 1, m, f, c, n) \/ Reversed(h, m, f, c, n)
    BY <2>1
  <2>3. SumFunctionOnSet(f, c .. n) = SumFunctionOnSet(h, 1 .. m)
    BY <2>2, SumShift, SumReversed
  <2> QED BY <2>1, <2>3
<1>4. SumFunctionOnSet(f, 1 .. n) =
        SumFunctionOnSet(f, 1 .. l) + SumFunctionOnSet(f, (l + 1) .. n)
  BY SumSplit
<1> QED BY <1>2, <1>3, <1>4

(* Differences of neighbours.                                               *)
Telescoping(f, R, a, b) ==
    /\ a \in Int /\ b \in Int /\ a <= b
    /\ \A k \in a .. b : R[k] \in Int
    /\ \A k \in (a + 1) .. b : f[k] = R[k - 1] - R[k]

(* Their sum is the difference of the ends.                                 *)
LEMMA SumTelescope ==
    ASSUME NEW f, NEW R, NEW a, NEW b, Telescoping(f, R, a, b)
    PROVE  SumFunctionOnSet(f, (a + 1) .. b) = R[a] - R[b]
<1> DEFINE Right(m) == SumFunctionOnSet(f, (a + 1) .. (a + m)) = R[a] - R[a + m]
           Bad == {m \in Nat : a + m <= b /\ ~Right(m)}
<1>1. /\ a \in Int /\ b \in Int /\ a <= b
      /\ \A k \in a .. b : R[k] \in Int
      /\ \A k \in (a + 1) .. b : f[k] = R[k - 1] - R[k]
  BY DEF Telescoping
<1>2. ASSUME Bad # {} PROVE FALSE
  <2>1. PICK m \in Bad : \A k \in Bad : m <= k
    BY <1>2, LeastNat
  <2>2. m \in Nat /\ a + m <= b /\ ~Right(m)
    OBVIOUS
  <2>3. CASE m = 0
    <3>1. (a + 1) .. (a + 0) = {} /\ a + 0 = a
      BY <1>1
    <3>2. SumFunctionOnSet(f, (a + 1) .. (a + 0)) = 0
      BY <3>1, SumEmpty, Zenon
    <3>3. R[a] - R[a + 0] = 0
      BY <1>1, <3>1
    <3> QED BY <2>2, <2>3, <3>2, <3>3
  <2>4. CASE m # 0
    <3>1. m - 1 \in Nat /\ a + (m - 1) <= b /\ ~(m <= m - 1)
      BY <1>1, <2>2, <2>4
    <3>2. Right(m - 1)
      BY <2>1, <3>1
    <3> DEFINE n == a + m
               l == a + (m - 1)
    <3>3. n \in Int /\ l \in Int /\ n = l + 1 /\ a + 1 <= n /\ n <= b /\ l = n - 1
      BY <1>1, <2>2, <2>4
    <3> HIDE DEF n, l
    <3>4. ASSUME NEW k \in (a + 1) .. n PROVE f[k] \in Int
      <4>1. k \in (a + 1) .. b /\ k \in a .. b /\ k - 1 \in a .. b
        BY <1>1, <3>3
      <4>2. R[k] \in Int /\ R[k - 1] \in Int
        BY <1>1, <4>1
      <4>3. f[k] = R[k - 1] - R[k]
        BY <1>1, <4>1
      <4> QED BY <4>2, <4>3
    <3>5. /\ SumFunctionOnSet(f, (a + 1) .. n) = SumFunctionOnSet(f, (a + 1) .. l) + f[n]
          /\ SumFunctionOnSet(f, (a + 1) .. l) \in Int
      <4>1. PICK c : c = a + 1
        OBVIOUS
      <4>2. c \in Int /\ c <= n /\ \A k \in c .. n : f[k] \in Int
        BY <1>1, <3>3, <3>4, <4>1
      <4> QED BY <3>3, <4>1, <4>2, SumLast
    <3>6. SumFunctionOnSet(f, (a + 1) .. l) = R[a] - R[l]
      BY <3>2 DEF l
    <3>7. f[n] = R[l] - R[n] /\ R[a] \in Int /\ R[l] \in Int /\ R[n] \in Int
      BY <1>1, <3>3
    <3>8. SumFunctionOnSet(f, (a + 1) .. n) = R[a] - R[n]
      BY <3>5, <3>6, <3>7
    <3> QED BY <2>2, <3>8 DEF n
  <2> QED BY <2>3, <2>4
<1>3. b - a \in Nat /\ a + (b - a) = b
  BY <1>1
<1> HIDE DEF Right
<1>4. Right(b - a)
  BY <1>1, <1>2, <1>3
<1> QED BY <1>3, <1>4 DEF Right

-----------------------------------------------------------------------------
(* Sums compared, combined and nested.                                      *)

(* A sum of integers that are nowhere larger is not larger.                 *)
LEMMA SumAtMost ==
    ASSUME NEW S, IsFiniteSet(S), NEW f, NEW g,
           \A x \in S : f[x] \in Int /\ g[x] \in Int /\ f[x] <= g[x]
    PROVE  SumFunctionOnSet(f, S) <= SumFunctionOnSet(g, S)
<1> DEFINE Bad == {t \in SUBSET S : ~(SumFunctionOnSet(f, t) <= SumFunctionOnSet(g, t))}
<1>1. SUFFICES ASSUME Bad # {} PROVE FALSE
  BY <1>1
<1>2. PICK t \in Bad : \A k \in Bad : k \subseteq t => k = t
  <2>1. Bad \in SUBSET (SUBSET S)
    OBVIOUS
  <2> HIDE DEF Bad
  <2>2. QED
    BY <1>1, <2>1, MinimalSubset
<1>3. CASE t = {}
  BY <1>3, SumEmpty
<1>4. CASE t # {}
  <2>1. PICK e \in t : TRUE
    BY <1>4
  <2> DEFINE r == t \ {e}
  <2>2. r \notin Bad /\ r \in SUBSET S /\ t \in SUBSET S
    BY <1>2
  <2>3. SumFunctionOnSet(f, r) <= SumFunctionOnSet(g, r)
    BY <2>2
  <2>4. IsFiniteSet(t) /\ IsFiniteSet(r)
    BY <2>2, FS_Subset
  <2>5. \A x \in t : f[x] \in Int /\ g[x] \in Int
    BY <2>2
  <2>6. \A x \in r : f[x] \in Int /\ g[x] \in Int
    BY <2>2
  <2>7. /\ SumFunctionOnSet(f, t) = f[e] + SumFunctionOnSet(f, r)
        /\ SumFunctionOnSet(g, t) = g[e] + SumFunctionOnSet(g, r)
    BY <2>4, <2>5, SumRemove
  <2> HIDE DEF r, Bad
  <2>8. SumFunctionOnSet(f, r) \in Int /\ SumFunctionOnSet(g, r) \in Int
    BY <2>4, <2>6, SumInt
  <2>9. f[e] \in Int /\ g[e] \in Int /\ f[e] <= g[e]
    BY <2>2
  <2>10. SumFunctionOnSet(f, t) <= SumFunctionOnSet(g, t)
    BY <2>3, <2>7, <2>8, <2>9
  <2>11. QED
    BY <2>10 DEF Bad
<1>5. QED
  BY <1>3, <1>4

(* h is a difference of multiples of f and g on S.                          *)
Combined(h, a, f, b, g, S) ==
    \A x \in S : f[x] \in Int /\ g[x] \in Int /\ h[x] = a * f[x] - b * g[x]

(* Multiplication distributes, in the form the next lemma needs.            *)
LEMMA Distributes ==
    ASSUME NEW a \in Int, NEW b \in Int, NEW x \in Int, NEW y \in Int, NEW u \in Int, NEW v \in Int
    PROVE  (a * x - b * y) + (a * u - b * v) = a * (x + u) - b * (y + v)
<1>1. a * (x + u) = a * x + a * u
  OBVIOUS
<1>2. b * (y + v) = b * y + b * v
  OBVIOUS
<1> QED BY <1>1, <1>2

(* The sum of a difference of multiples.                                    *)
LEMMA SumCombined ==
    ASSUME NEW S, IsFiniteSet(S), NEW a \in Int, NEW b \in Int,
           NEW f, NEW g, NEW h, Combined(h, a, f, b, g, S)
    PROVE  SumFunctionOnSet(h, S) = a * SumFunctionOnSet(f, S) - b * SumFunctionOnSet(g, S)
<1> DEFINE Right(t) == SumFunctionOnSet(h, t)
                         = a * SumFunctionOnSet(f, t) - b * SumFunctionOnSet(g, t)
           Bad == {t \in SUBSET S : ~Right(t)}
<1>1. SUFFICES ASSUME Bad # {} PROVE FALSE
  BY <1>1
<1>2. PICK t \in Bad : \A k \in Bad : k \subseteq t => k = t
  <2>1. Bad \in SUBSET (SUBSET S)
    OBVIOUS
  <2> HIDE DEF Bad
  <2>2. QED
    BY <1>1, <2>1, MinimalSubset
<1>3. CASE t = {}
  BY <1>3, SumEmpty
<1>4. CASE t # {}
  <2>1. PICK e \in t : TRUE
    BY <1>4
  <2> DEFINE r == t \ {e}
  <2>2. r \notin Bad /\ r \in SUBSET S /\ t \in SUBSET S
    BY <1>2
  <2>3. Right(r)
    BY <2>2
  <2>4. IsFiniteSet(t) /\ IsFiniteSet(r)
    BY <2>2, FS_Subset
  <2>5. \A x \in t : f[x] \in Int /\ g[x] \in Int /\ h[x] \in Int
    BY <2>2 DEF Combined
  <2>6. \A x \in r : f[x] \in Int /\ g[x] \in Int
    BY <2>5
  <2>7. /\ SumFunctionOnSet(f, t) = f[e] + SumFunctionOnSet(f, r)
        /\ SumFunctionOnSet(g, t) = g[e] + SumFunctionOnSet(g, r)
        /\ SumFunctionOnSet(h, t) = h[e] + SumFunctionOnSet(h, r)
    BY <2>4, <2>5, SumRemove
  <2> HIDE DEF r, Bad
  <2>8. SumFunctionOnSet(f, r) \in Int /\ SumFunctionOnSet(g, r) \in Int
    BY <2>4, <2>6, SumInt
  <2>9. f[e] \in Int /\ g[e] \in Int /\ h[e] = a * f[e] - b * g[e]
    BY <2>2 DEF Combined
  <2>10. Right(t)
    BY <2>3, <2>7, <2>8, <2>9, Distributes
  <2>11. QED
    BY <2>10 DEF Bad
<1>5. QED
  BY <1>3, <1>4

(* g are the sums of f over disjoint sets A, one for each d of D.           *)
IsFamily(g, D, A, f, X) ==
    /\ IsFiniteSet(D) /\ IsFiniteSet(X)
    /\ \A x \in X : f[x] \in Int
    /\ \A d \in D : A[d] \subseteq X /\ g[d] = SumFunctionOnSet(f, A[d])
    /\ \A d, e \in D : d # e => A[d] \cap A[e] = {}

(* The sums of the parts sum up to the sum of the whole.                    *)
LEMMA SumFamily ==
    ASSUME NEW g, NEW D, NEW A, NEW f, NEW X, IsFamily(g, D, A, f, X)
    PROVE  SumFunctionOnSet(g, D) = SumFunctionOnSet(f, UNION {A[d] : d \in D})
<1> DEFINE All(t) == UNION {A[d] : d \in t}
           Right(t) == SumFunctionOnSet(g, t) = SumFunctionOnSet(f, All(t))
           Bad == {t \in SUBSET D : ~Right(t)}
<1>1. SUFFICES ASSUME Bad # {} PROVE FALSE
  BY <1>1
<1>0. IsFiniteSet(D) /\ IsFiniteSet(X)
  BY DEF IsFamily
<1>2. PICK t \in Bad : \A k \in Bad : k \subseteq t => k = t
  <2>1. Bad \in SUBSET (SUBSET D)
    OBVIOUS
  <2> HIDE DEF Bad
  <2>2. QED
    BY <1>0, <1>1, <2>1, MinimalSubset
<1>3. CASE t = {}
  <2>1. All({}) = {}
    OBVIOUS
  <2>2. QED
    BY <1>3, <2>1, SumEmpty
<1>4. CASE t # {}
  <2>1. PICK e \in t : TRUE
    BY <1>4
  <2> DEFINE r == t \ {e}
  <2>2. r \notin Bad /\ r \in SUBSET D /\ t \in SUBSET D /\ e \in D /\ e \in t
    BY <1>2
  <2>3. Right(r)
    BY <2>2
  <2>4. IsFiniteSet(t) /\ IsFiniteSet(r)
    BY <1>0, <2>2, FS_Subset
  <2>5. \A d \in D : IsFiniteSet(A[d]) /\ g[d] \in Int
    <3> SUFFICES ASSUME NEW d \in D PROVE IsFiniteSet(A[d]) /\ g[d] \in Int
      OBVIOUS
    <3>1. A[d] \subseteq X /\ g[d] = SumFunctionOnSet(f, A[d])
      BY DEF IsFamily
    <3>2. IsFiniteSet(A[d]) /\ \A x \in A[d] : f[x] \in Int
      BY <1>0, <3>1, FS_Subset DEF IsFamily
    <3> QED BY <3>1, <3>2, SumInt
  <2>6. All(t) = All(r) \cup A[e]
    BY <2>2
  <2>7. All(r) \subseteq X /\ A[e] \subseteq X
    BY <2>2 DEF IsFamily
  <2>8. All(r) \cap A[e] = {}
    BY <2>2 DEF IsFamily
  <2>9. SumFunctionOnSet(g, t) = g[e] + SumFunctionOnSet(g, r)
    <3>1. \A x \in t : g[x] \in Int
      BY <2>2, <2>5
    <3> QED BY <2>2, <2>4, <3>1, SumRemove
  <2> HIDE DEF r, Bad
  <2>10. IsFiniteSet(All(r)) /\ IsFiniteSet(A[e])
    BY <1>0, <2>7, FS_Subset
  <2>11. \A x \in All(r) \cup A[e] : f[x] \in Int
    BY <2>7 DEF IsFamily
  <2> HIDE DEF All
  <2>12. SumFunctionOnSet(f, All(r) \cup A[e])
           = SumFunctionOnSet(f, All(r)) + SumFunctionOnSet(f, A[e])
    BY <2>8, <2>10, <2>11, SumUnion
  <2>13. SumFunctionOnSet(f, All(t)) = SumFunctionOnSet(f, All(r) \cup A[e])
    BY <2>6, Zenon
  <2>14. g[e] = SumFunctionOnSet(f, A[e]) /\ g[e] \in Int
    BY <2>2, <2>5 DEF IsFamily
  <2>15. SumFunctionOnSet(f, All(r)) \in Int
    <3>1. \A x \in All(r) : f[x] \in Int
      BY <2>11
    <3> QED BY <2>10, <3>1, SumInt
  <2>16. Right(t)
    BY <2>3, <2>9, <2>12, <2>13, <2>14, <2>15
  <2>17. QED
    BY <2>16 DEF Bad
<1>5. QED
  BY <1>3, <1>4
=============================================================================
