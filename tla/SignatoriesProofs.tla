-------------------------- MODULE SignatoriesProofs ---------------------------
(***************************************************************************)
(* Signing keys stay apart, for any validators, keys, key changes and       *)
(* punishments; what the thresholds and the quorum of a signatory set are   *)
(* worth; and that the rates of change count the signatories who left.      *)
(***************************************************************************)
EXTENDS Signatories, SumTheorems

(* Every stored key is an extended public key for the contract's network.   *)
KeysTyped ==
    \A c \in DOMAIN sigKeys : sigKeys[c] \in Xpubs /\ sigKeys[c].network = Network

(* No two consensus keys have the same public key and chain code.           *)
KeysApart ==
    \A c, d \in DOMAIN sigKeys : c # d => sigKeys[c].key # sigKeys[d].key

(* No two signatories of a set have the same derived key.                   *)
SigsetsApart ==
    \A i \in DOMAIN sigsets : \A c, d \in DOMAIN sigsets[i].signatories :
        c # d => sigsets[i].signatories[c].pubkey # sigsets[i].signatories[d].pubkey

(* The inductive invariant: a key that is in use is taken, so a new one     *)
(* differs from it; and it stays taken when another validator is punished,  *)
(* because that one's key differs.                                          *)
IInv == KeysTyped /\ KeysApart /\ KeysReserved /\ SigsetsApart

-----------------------------------------------------------------------------
(* For keys of one network the form that insert compares is as good as the  *)
(* public key itself.                                                       *)
LEMMA NormalizedKey ==
    ASSUME NEW a \in Xpubs, NEW b \in Xpubs, a.network = b.network
    PROVE  /\ Normalized(a).key = a.key
           /\ a.key = b.key => Normalized(a) = Normalized(b)
  BY DEF Xpubs, Normalized

(* There is no key and no set at first.                                     *)
LEMMA InitInv == Init => IInv
  BY DEF Init, IInv, KeysTyped, KeysApart, KeysReserved, SigsetsApart

(* add_validators touches neither keys nor sets.                            *)
LEMMA AddValidatorsInv ==
    ASSUME IInv, NEW entries, AddValidators(entries)
    PROVE  IInv'
  BY DEF AddValidators, IInv, KeysTyped, KeysApart, KeysReserved, SigsetsApart

(* set_signatory_key takes a key that nobody has.                           *)
LEMMA SetSignatoryKeyInv ==
    ASSUME IInv, NEW addr, NEW xpub \in Xpubs, SetSignatoryKey(addr, xpub)
    PROVE  IInv'
<1> DEFINE cons == signers[addr]
<1>1. /\ DOMAIN sigKeys' = DOMAIN sigKeys \cup {cons}
      /\ sigKeys'[cons] = xpub
      /\ \A c \in DOMAIN sigKeys : c # cons => sigKeys'[c] = sigKeys[c]
      /\ xpub.network = Network
      /\ Normalized(xpub) \notin xpubs
      /\ xpubs' = xpubs \cup {Normalized(xpub)}
      /\ sigsets' = sigsets
  BY DEF SetSignatoryKey, Insert, Saved, NetworkMatches
<1>2. KeysTyped'
  BY <1>1 DEF IInv, KeysTyped
<1>3. ASSUME NEW c \in DOMAIN sigKeys PROVE sigKeys[c].key # xpub.key
  <2>1. /\ sigKeys[c] \in Xpubs
        /\ sigKeys[c].network = xpub.network
        /\ Normalized(sigKeys[c]) \in xpubs
    BY <1>1 DEF IInv, KeysTyped, KeysReserved
  <2> QED BY <1>1, <2>1, NormalizedKey
<1>4. KeysApart'
  BY <1>1, <1>3 DEF IInv, KeysApart
<1>5. KeysReserved'
  BY <1>1 DEF IInv, KeysReserved
<1>6. SigsetsApart'
  BY <1>1 DEF IInv, SigsetsApart
<1> QED BY <1>2, <1>4, <1>5, <1>6 DEF IInv

(* A push makes a set of keys in use; a punishment frees only its own key.  *)
LEMMA EndBlockPushInv ==
    ASSUME IInv, NEW S, NEW offline, EndBlockPush(S, offline)
    PROVE  IInv'
<1> DEFINE n == NextIndex
           set == FromValidatorCtx(S, n)
<1>1. /\ sigKeys' = [c \in DOMAIN sigKeys \ offline |-> sigKeys[c]]
      /\ xpubs' = xpubs \ {sigKeys[c] : c \in offline}
      /\ sigsets' = [i \in DOMAIN sigsets \cup {n} |-> IF i = n THEN set ELSE sigsets[i]]
      /\ S \subseteq DOMAIN sigKeys
      /\ offline \subseteq DOMAIN sigKeys
  BY DEF EndBlockPush, Punish, Removed, Saved, IsTruncated, MayBeOffline, WithKey
<1>2. KeysTyped' /\ KeysApart'
  BY <1>1 DEF IInv, KeysTyped, KeysApart
<1>3. KeysReserved'
  <2> SUFFICES ASSUME NEW c \in DOMAIN sigKeys \ offline
               PROVE  Normalized(sigKeys[c]) \in xpubs'
    BY <1>1 DEF KeysReserved, Normalized
  <2>1. ASSUME NEW d \in offline PROVE Normalized(sigKeys[c]) # sigKeys[d]
    <3>1. /\ sigKeys[c] \in Xpubs /\ sigKeys[d] \in Xpubs
          /\ sigKeys[c].network = sigKeys[d].network
          /\ sigKeys[c].key # sigKeys[d].key
      BY <1>1 DEF IInv, KeysTyped, KeysApart
    <3> QED BY <3>1, NormalizedKey
  <2>2. Normalized(sigKeys[c]) \in xpubs
    BY DEF IInv, KeysReserved
  <2> QED BY <1>1, <2>1, <2>2
<1>4. SigsetsApart'
  <2>1. \A c \in S : set.signatories[c].pubkey = <<sigKeys[c].key, n>>
    BY DEF FromValidatorCtx, DerivePubkey
  <2>2. DOMAIN set.signatories = S
    BY DEF FromValidatorCtx
  <2>3. \A c, d \in S : c # d => set.signatories[c].pubkey # set.signatories[d].pubkey
    BY <1>1, <2>1 DEF IInv, KeysApart
  <2> HIDE DEF set, n
  <2> QED BY <1>1, <2>2, <2>3 DEF IInv, SigsetsApart
<1> QED BY <1>2, <1>3, <1>4 DEF IInv

(* Every step keeps the invariant.                                          *)
LEMMA StepInv == IInv /\ [Next]_vars => IInv'
<1> SUFFICES ASSUME IInv, [Next]_vars PROVE IInv'
  OBVIOUS
<1>1. ASSUME NEW entries, AddValidators(entries) PROVE IInv'
  BY <1>1, AddValidatorsInv
<1>2. ASSUME NEW addr, NEW xpub \in Xpubs, SetSignatoryKey(addr, xpub) PROVE IInv'
  BY <1>2, SetSignatoryKeyInv
<1>3. ASSUME NEW S, NEW offline, EndBlockPush(S, offline) PROVE IInv'
  BY <1>3, EndBlockPushInv
<1>4. CASE UNCHANGED vars
  BY <1>4 DEF vars, IInv, KeysTyped, KeysApart, KeysReserved, SigsetsApart
<1> QED BY <1>1, <1>2, <1>3, <1>4 DEF Next

-----------------------------------------------------------------------------
(* set_signatory_key, insert and punish_validator together: a key in use is *)
(* always taken, under the form insert compares.                            *)
THEOREM KeysStayReserved == Spec => []KeysReserved
<1>1. IInv => KeysReserved
  BY DEF IInv
<1> QED BY <1>1, InitInv, StepInv, PTL DEF Spec

(* set_signatory_key, from_validator_ctx and punish_validator together: no  *)
(* two validators ever derive the same signing key, in no signatory set.    *)
THEOREM PubkeysStayDistinct == Spec => []DistinctPubkeys
<1>1. IInv => DistinctPubkeys
  <2> SUFFICES ASSUME IInv PROVE DistinctPubkeys
    OBVIOUS
  <2>1. ASSUME NEW c \in DOMAIN sigKeys, NEW d \in DOMAIN sigKeys, c # d, NEW i
        PROVE  DerivePubkey(sigKeys[c], i) # DerivePubkey(sigKeys[d], i)
    BY <2>1 DEF IInv, KeysApart, DerivePubkey
  <2> QED BY <2>1 DEF IInv, SigsetsApart, DistinctPubkeys
<1> QED BY <1>1, InitInv, StepInv, PTL DEF Spec

(* Two thirds of p, rounded down, and p in a ratio of at least two thirds.  *)
LEMMA RatioAtLeast ==
    ASSUME NEW p \in Nat, NEW n \in Nat, NEW d \in Nat \ {0}, 3 * n >= 2 * d
    PROVE  (p * 2) \div 3 <= (p * n) \div d
<1> DEFINE t == (p * 2) \div 3
<1>1. t \in Nat /\ 3 * t <= 2 * p
  OBVIOUS
<1> HIDE DEF t
<1>2. d * (3 * t) <= d * (2 * p)
  BY <1>1
<1>3. p * (2 * d) <= p * (3 * n)
  OBVIOUS
<1>4. PICK m \in Nat : m = p * n
  OBVIOUS
<1>5. PICK e \in Nat : e = d * t
  BY <1>1
<1>6. d * (3 * t) = 3 * e /\ d * (2 * p) = p * (2 * d) /\ p * (3 * n) = 3 * m
  BY <1>1, <1>4, <1>5
<1>7. e <= m
  BY <1>2, <1>3, <1>6
<1>8. t <= m \div d
  BY <1>1, <1>5, <1>7
<1> QED BY <1>4, <1>8 DEF t

(* ... and at most two thirds.                                              *)
LEMMA RatioAtMost ==
    ASSUME NEW p \in Nat, NEW n \in Nat, NEW d \in Nat \ {0}, 3 * n <= 2 * d
    PROVE  (p * n) \div d <= (p * 2) \div 3
<1>1. PICK m \in Nat : m = p * n
  OBVIOUS
<1> DEFINE t == m \div d
<1>2. t \in Nat /\ d * t <= m
  OBVIOUS
<1> HIDE DEF t
<1>3. p * (3 * n) <= p * (2 * d)
  OBVIOUS
<1>4. p * (3 * n) = 3 * m /\ p * (2 * d) = d * (2 * p)
  BY <1>1
<1>5. d * (3 * t) = 3 * (d * t)
  BY <1>2
<1>6. PICK x \in Nat : x = 3 * t
  BY <1>2
<1>7. PICK y \in Nat : y = 2 * p
  OBVIOUS
<1>8. d * x <= d * y
  BY <1>2, <1>3, <1>4, <1>5, <1>6, <1>7
<1>9. x <= y
  BY <1>8
<1>10. t <= (p * 2) \div 3
  BY <1>2, <1>6, <1>7, <1>9
<1> QED BY <1>1, <1>10 DEF t

(* has_quorum and signature_threshold: whatever power x is enough to spend  *)
(* from a set with a quorum, at a ratio of two thirds or more, is at least  *)
(* a third of the power of all validators, for all powers and in spite of   *)
(* both divisions rounding down.                                            *)
THEOREM QuorumIsWorthAThird ==
    ASSUME 3 * Ratio[1] >= 2 * Ratio[2],
           NEW set, set.present \in Nat, set.possible \in Nat, HasQuorum(set),
           NEW x \in Nat, x > SignatureThreshold(set) \/ x > (set.present * 2) \div 3
    PROVE  3 * x >= set.possible
<1>1. PICK p \in Nat : p = set.present
  OBVIOUS
<1>2. PICK q \in Nat : q = set.possible
  OBVIOUS
<1>3. PICK n \in Nat : n = Ratio[1]
  BY KeysAssumption
<1>4. PICK d \in Nat \ {0} : d = Ratio[2]
  BY KeysAssumption
<1>5. (p * 2) \div 3 <= (p * n) \div d
  BY <1>3, <1>4, RatioAtLeast
<1>6. PICK s : s = SignatureThreshold(set)
  OBVIOUS
<1>7. s = (p * n) \div d
  BY <1>1, <1>3, <1>4, <1>6 DEF SignatureThreshold
<1>8. p * n \in Nat /\ s \in Int
  BY <1>7
<1>9. x > (p * 2) \div 3
  BY <1>1, <1>5, <1>6, <1>7, <1>8
<1>10. p >= q \div 2
  BY <1>1, <1>2 DEF HasQuorum, QuorumThreshold
<1>11. 3 * x >= q
  BY <1>9, <1>10
<1> QED BY <1>2, <1>11

-----------------------------------------------------------------------------
(* Powers and quorums.                                                      *)

(* A stored signatory set was made with a quorum, from unsigned powers, and *)
(* its present power is that of its signatories.                            *)
SetOK(set) ==
    /\ set.present \in Nat /\ set.possible \in Nat
    /\ set.present = SignatoryPower(set, DOMAIN set.signatories)
    /\ HasQuorum(set)
    /\ IsFiniteSet(DOMAIN set.signatories)
    /\ \A c \in DOMAIN set.signatories : set.signatories[c].power \in Nat

PowersOK == \A c \in DOMAIN validators : c \in ConsKeys /\ validators[c].power \in Nat
SetsOK   == \A i \in DOMAIN sigsets : SetOK(sigsets[i])

(* The last of some entries is one of them.                                 *)
LEMMA LastIsOne ==
    ASSUME NEW n \in Nat, NEW ks, ks \subseteq 1 .. n, ks # {}
    PROVE  Max(ks) \in ks
<1> DEFINE T == {n - k : k \in ks}
<1>1. T \in SUBSET Nat /\ T # {}
  <2>1. \A k \in ks : n - k \in Nat
    OBVIOUS
  <2>2. PICK k : k \in ks
    OBVIOUS
  <2> QED BY <2>1, <2>2
<1>2. PICK m \in T : \A t \in T : m <= t
  BY <1>1, LeastNat
<1>3. PICK k \in ks : m = n - k
  BY <1>2
<1>4. \A l \in ks : k >= l
  <2> SUFFICES ASSUME NEW l \in ks PROVE k >= l
    OBVIOUS
  <2>1. n - k <= n - l
    BY <1>2, <1>3
  <2> QED BY <2>1
<1> QED BY <1>4 DEF Max

(* The total power of some validators is a natural number.                  *)
LEMMA PowerOfType ==
    ASSUME PowersOK, NEW S, S \subseteq DOMAIN validators
    PROVE  IsFiniteSet(S) /\ PowerOf(S) \in Nat
<1> DEFINE f == [c \in S |-> validators[c].power]
<1>1. IsFiniteSet(S)
  BY KeysAssumption, FS_Subset DEF PowersOK
<1>2. \A c \in S : f[c] \in Nat
  BY DEF PowersOK
<1>3. PowerOf(S) = SumFunctionOnSet(f, S)
  BY DEF PowerOf, SumFunction
<1> HIDE DEF f
<1> QED BY <1>1, <1>2, <1>3, SumNat

(* insert and sort_and_truncate: what is added for every validator with a   *)
(* key, less what is taken off for those drained, is the power of those     *)
(* kept.                                                                    *)
LEMMA PresentIsPower ==
    ASSUME PowersOK, NEW S, S \subseteq WithKey
    PROVE  Present(S) = PowerOf(S)
<1> DEFINE f == [c \in DOMAIN validators |-> validators[c].power]
<1>1. \A c \in DOMAIN validators : f[c] \in Nat
  BY DEF PowersOK
<1>2. WithKey \subseteq DOMAIN validators
  BY DEF WithKey
<1>3. ASSUME NEW T, T \subseteq WithKey
      PROVE  /\ IsFiniteSet(T) /\ PowerOf(T) = SumFunctionOnSet(f, T)
             /\ PowerOf(T) \in Nat
  <2> DEFINE g == [c \in T |-> validators[c].power]
  <2>1. IsFiniteSet(T) /\ PowerOf(T) \in Nat
    BY <1>2, <1>3, PowerOfType
  <2>2. PowerOf(T) = SumFunctionOnSet(g, T)
    BY DEF PowerOf, SumFunction
  <2>3. \A c \in T : g[c] = f[c]
    BY <1>2, <1>3
  <2> HIDE DEF f, g
  <2>4. SumFunctionOnSet(g, T) = SumFunctionOnSet(f, T)
    BY <2>1, <2>3, SumSame
  <2> QED BY <2>1, <2>2, <2>4
<1> HIDE DEF f
<1>4. PICK R : R = WithKey \ S
  OBVIOUS
<1>5. R \subseteq WithKey /\ S \cap R = {} /\ S \cup R = WithKey
  BY <1>4
<1>6. \A c \in S \cup R : f[c] \in Int
  BY <1>1, <1>2, <1>5
<1>7. SumFunctionOnSet(f, S \cup R) = SumFunctionOnSet(f, S) + SumFunctionOnSet(f, R)
  BY <1>3, <1>5, <1>6, SumUnion
<1>8. PowerOf(WithKey) = PowerOf(S) + PowerOf(R)
  <2>1. /\ PowerOf(S) = SumFunctionOnSet(f, S) /\ PowerOf(R) = SumFunctionOnSet(f, R)
        /\ PowerOf(WithKey) = SumFunctionOnSet(f, WithKey)
    BY <1>3, <1>5
  <2> QED BY <1>5, <1>7, <2>1
<1>9. PowerOf(S) \in Nat /\ PowerOf(R) \in Nat
  BY <1>3, <1>5
<1>10. Present(S) = PowerOf(WithKey) - PowerOf(R)
  BY <1>4 DEF Present
<1> QED BY <1>8, <1>9, <1>10

(* A set with the index n is made of signatories S.                         *)
MadeOf(set, S, n) ==
    /\ set.present = PowerOf(S) /\ set.possible = PowerOf(DOMAIN validators)
    /\ DOMAIN set.signatories = S
    /\ \A c \in S : set.signatories[c].power = validators[c].power
    /\ \A c \in S : set.signatories[c].pubkey = <<sigKeys[c].key, n>>
    /\ set.present = SignatoryPower(set, DOMAIN set.signatories)

(* from_validator_ctx: the set it returns is made of the signatories kept.  *)
LEMMA MadeOfSignatories ==
    ASSUME PowersOK, NEW S, S \subseteq WithKey, NEW n
    PROVE  MadeOf(FromValidatorCtx(S, n), S, n)
<1>0. PICK set : set = FromValidatorCtx(S, n)
  OBVIOUS
<1>1. /\ set.present = PowerOf(S) /\ set.possible = PowerOf(DOMAIN validators)
      /\ DOMAIN set.signatories = S
      /\ \A c \in S : set.signatories[c].power = validators[c].power
      /\ \A c \in S : set.signatories[c].pubkey = <<sigKeys[c].key, n>>
  BY <1>0, PresentIsPower DEF FromValidatorCtx, DerivePubkey
<1>2. [c \in S |-> set.signatories[c].power] = [c \in S |-> validators[c].power]
  BY <1>1
<1>3. set.present = SignatoryPower(set, DOMAIN set.signatories)
  BY <1>1, <1>2 DEF SignatoryPower, PowerOf
<1> QED BY <1>0, <1>1, <1>3 DEF MadeOf

(* add_validators declares unsigned powers.                                 *)
LEMMA AddValidatorsPowers ==
    ASSUME PowersOK, NEW entries \in BoundedSeq(Entries, MaxEntries), AddValidators(entries)
    PROVE  PowersOK'
<1>1. PICK n \in Nat : entries \in [1 .. n -> Entries]
  BY KeysAssumption DEF BoundedSeq, SeqOf
<1> DEFINE for(c) == {k \in 1 .. n : entries[k].cons = c}
<1>2. /\ DOMAIN validators' = DOMAIN validators \cup {entries[k].cons : k \in 1 .. n}
      /\ \A c \in DOMAIN validators' :
           validators'[c] = IF for(c) = {} THEN validators[c]
                            ELSE [power |-> entries[Max(for(c))].power,
                                  addr  |-> entries[Max(for(c))].addr]
  BY <1>1 DEF AddValidators, ValidatorsAfter, LastOf
<1> HIDE DEF for
<1>3. ASSUME NEW c \in DOMAIN validators'
      PROVE  c \in ConsKeys /\ validators'[c].power \in Nat
  <2>1. CASE for(c) = {}
    <3>1. c \in DOMAIN validators
      BY <1>2, <2>1 DEF for
    <3> QED BY <1>2, <2>1, <3>1 DEF PowersOK
  <2>2. CASE for(c) # {}
    <3>1. Max(for(c)) \in for(c)
      <4>1. for(c) \subseteq 1 .. n
        BY DEF for
      <4> QED BY <2>2, <4>1, LastIsOne
    <3>2. PICK k \in 1 .. n : k = Max(for(c)) /\ entries[k].cons = c
      BY <3>1 DEF for
    <3>3. entries[k] \in Entries
      BY <1>1
    <3>4. validators'[c].power = entries[k].power
      <4>1. validators'[c] = [power |-> entries[Max(for(c))].power,
                              addr  |-> entries[Max(for(c))].addr]
        BY <1>2, <2>2
      <4> QED BY <3>2, <4>1
    <3> QED BY <3>2, <3>3, <3>4, KeysAssumption DEF Entries
  <2> QED BY <2>1, <2>2
<1> QED BY <1>3 DEF PowersOK

(* A set that is pushed has a quorum.                                       *)
LEMMA EndBlockPushPowers ==
    ASSUME PowersOK, SetsOK, NEW S, NEW offline, EndBlockPush(S, offline)
    PROVE  PowersOK' /\ SetsOK'
<1>0. PICK n : n = NextIndex
  OBVIOUS
<1>a. PICK set : set = FromValidatorCtx(S, n)
  OBVIOUS
<1>1. /\ sigsets' = [i \in DOMAIN sigsets \cup {n} |-> IF i = n THEN set ELSE sigsets[i]]
      /\ validators' = [c \in DOMAIN validators \ offline |-> validators[c]]
      /\ S \subseteq WithKey /\ S \subseteq DOMAIN validators
      /\ HasQuorum(set)
  BY <1>0, <1>a DEF EndBlockPush, Punish, Removed, Saved, IsTruncated, WithKey, Pushable
<1>2. /\ IsFiniteSet(S) /\ PowerOf(S) \in Nat /\ PowerOf(DOMAIN validators) \in Nat
  BY <1>1, PowerOfType
<1>b. S \subseteq WithKey
  BY <1>1
<1>3. MadeOf(set, S, n)
  BY <1>a, <1>b, MadeOfSignatories
<1>4. SetOK(set)
  BY <1>1, <1>2, <1>3 DEF SetOK, PowersOK, MadeOf
<1>5. PowersOK'
  BY <1>1 DEF PowersOK
<1>6. SetsOK'
  BY <1>1, <1>4 DEF SetsOK, SetOK, HasQuorum, QuorumThreshold, SignatoryPower
<1> QED BY <1>5, <1>6

(* The power of some of a set's signatories.                                *)
LEMMA PartPower ==
    ASSUME NEW set, SetOK(set), NEW T \in SUBSET DOMAIN set.signatories
    PROVE  SignatoryPower(set, T) \in Nat
<1> DEFINE f == [c \in T |-> set.signatories[c].power]
<1>1. IsFiniteSet(T) /\ \A c \in T : f[c] \in Nat
  BY FS_Subset DEF SetOK
<1>2. SignatoryPower(set, T) = SumFunctionOnSet(f, T)
  BY DEF SignatoryPower, SumFunction
<1> HIDE DEF f
<1> QED BY <1>1, <1>2, SumNat

(* Whoever can sign for a set or spend from it, at any time, for any        *)
(* validators and powers, has a third of the power all validators had when  *)
(* the set was made (from_validator_ctx, has_quorum, signature_threshold),  *)
(* if the configured ratio is not below two thirds.                         *)
THEOREM SigningNeedsAThird ==
    ASSUME 3 * Ratio[1] >= 2 * Ratio[2]
    PROVE  Spec => []SignedNeedsThird
<1>1. Init => PowersOK /\ SetsOK
  BY DEF Init, PowersOK, SetsOK
<1>2. PowersOK /\ SetsOK /\ [Next]_vars => PowersOK' /\ SetsOK'
  <2> SUFFICES ASSUME PowersOK, SetsOK, [Next]_vars PROVE PowersOK' /\ SetsOK'
    OBVIOUS
  <2>1. ASSUME UNCHANGED sigsets PROVE SetsOK'
    BY <2>1 DEF SetsOK, SetOK, HasQuorum, QuorumThreshold, SignatoryPower
  <2>2. ASSUME NEW entries \in BoundedSeq(Entries, MaxEntries), AddValidators(entries)
        PROVE  PowersOK' /\ SetsOK'
    BY <2>1, <2>2, AddValidatorsPowers DEF AddValidators
  <2>3. ASSUME NEW S, NEW offline, EndBlockPush(S, offline) PROVE PowersOK' /\ SetsOK'
    BY <2>3, EndBlockPushPowers
  <2>4. ASSUME UNCHANGED <<validators, sigsets>> PROVE PowersOK' /\ SetsOK'
    BY <2>1, <2>4 DEF PowersOK
  <2> QED BY <2>2, <2>3, <2>4 DEF Next, vars, SetSignatoryKey
<1>3. SetsOK => SignedNeedsThird
  <2> SUFFICES ASSUME SetsOK, NEW i \in DOMAIN sigsets,
                      NEW T \in SUBSET DOMAIN sigsets[i].signatories,
                      Signs(sigsets[i], T) \/ Spends(sigsets[i], T)
               PROVE  3 * SignatoryPower(sigsets[i], T) >= sigsets[i].possible
    BY DEF SignedNeedsThird
  <2>1. PICK set : set = sigsets[i]
    OBVIOUS
  <2>2. SetOK(set)
    BY <2>1 DEF SetsOK
  <2>3. SignatoryPower(set, T) \in Nat
    BY <2>1, <2>2, PartPower
  <2>4. set.present \in Nat /\ set.possible \in Nat /\ HasQuorum(set)
    BY <2>2 DEF SetOK
  <2>5. CountedThreshold(set) = (set.present * 2) \div 3
    BY <2>2 DEF SetOK, CountedThreshold
  <2>6. PICK x \in Nat : x = SignatoryPower(set, T)
    BY <2>3
  <2>7. x > SignatureThreshold(set) \/ x > (set.present * 2) \div 3
    BY <2>1, <2>5, <2>6 DEF Signs, Spends
  <2> QED BY <2>1, <2>4, <2>6, <2>7, QuorumIsWorthAThird
<1> QED BY <1>1, <1>2, <1>3, PTL DEF Spec

-----------------------------------------------------------------------------
(* Rates of change.                                                         *)

(* What the rates of change read is what the sets were made of: a set has   *)
(* some power, and its signatories' keys were derived for the set's index.  *)
(* Sets are numbered from zero on.                                          *)
SetExact(i) ==
    LET set == sigsets[i]
    IN  /\ set.present > 0
        /\ \A c \in DOMAIN set.signatories : \E key \in Keys : set.signatories[c].pubkey = <<key, i>>

SetsExact   == \A i \in DOMAIN sigsets : SetExact(i)
SetsInOrder == \E n \in Nat : DOMAIN sigsets = 0 .. n - 1

(* Keys are stored for consensus keys only.                                 *)
ConsKnown ==
    /\ \A a \in DOMAIN signers : signers[a] \in ConsKeys
    /\ DOMAIN sigKeys \subseteq ConsKeys

(* No validator is declared with a power of zero.                           *)
Powered == \A c \in DOMAIN validators : validators[c].power > 0

(* The inductive invariant of the rates of change.                          *)
RInv == IInv /\ PowersOK /\ SetsOK /\ SetsExact /\ SetsInOrder /\ ConsKnown /\ Powered

(* Of set i: the powers of its signatories; by the holder of a key of       *)
(* today, the signatories with that key, and their power; what the holder   *)
(* gained since set j.                                                      *)
PowersIn(i)  == [c \in DOMAIN sigsets[i].signatories |-> sigsets[i].signatories[c].power]
HoldersIn(i) == [d \in DOMAIN sigKeys |-> {c \in DOMAIN sigsets[i].signatories :
                    sigsets[i].signatories[c].pubkey = DerivePubkey(sigKeys[d], i)}]
SharesIn(i)  == [d \in DOMAIN sigKeys |-> VpOf(i, sigKeys[d])]
Gains(j, i)  == [d \in DOMAIN sigKeys |-> Gain(sigKeys[d], j, i)]

(* The power of some signatories of set i.                                  *)
LEMMA PowerIsSum ==
    ASSUME SetsOK, NEW i \in DOMAIN sigsets, NEW T, T \subseteq DOMAIN sigsets[i].signatories
    PROVE  /\ IsFiniteSet(T)
           /\ SignatoryPower(sigsets[i], T) = SumFunctionOnSet(PowersIn(i), T)
           /\ SignatoryPower(sigsets[i], T) \in Nat
<1> DEFINE X == DOMAIN sigsets[i].signatories
           f == [c \in T |-> sigsets[i].signatories[c].power]
<1>1. IsFiniteSet(X) /\ \A c \in X : PowersIn(i)[c] \in Nat
  BY DEF SetsOK, SetOK, PowersIn
<1>2. IsFiniteSet(T)
  BY <1>1, FS_Subset
<1>3. SignatoryPower(sigsets[i], T) = SumFunctionOnSet(f, T)
  BY DEF SignatoryPower, SumFunction
<1>4. \A c \in T : f[c] = PowersIn(i)[c] /\ PowersIn(i)[c] \in Nat
  BY <1>1 DEF PowersIn
<1> HIDE DEF f, X
<1>5. SumFunctionOnSet(f, T) = SumFunctionOnSet(PowersIn(i), T)
  BY <1>2, <1>4, SumSame
<1>6. SumFunctionOnSet(PowersIn(i), T) \in Nat
  BY <1>2, <1>4, SumNat
<1> QED BY <1>2, <1>3, <1>5, <1>6

(* The holders of different keys have different signatories: their powers   *)
(* in a set sum up.                                                         *)
LEMMA SharesAreParts ==
    ASSUME IInv, SetsOK, NEW i \in DOMAIN sigsets, NEW D, D \subseteq DOMAIN sigKeys, IsFiniteSet(D)
    PROVE  /\ IsFamily(SharesIn(i), D, HoldersIn(i), PowersIn(i), DOMAIN sigsets[i].signatories)
           /\ \A d \in D : SharesIn(i)[d] \in Nat
<1> DEFINE X == DOMAIN sigsets[i].signatories
           f == PowersIn(i)
           A == HoldersIn(i)
           g == SharesIn(i)
<1>1. IsFiniteSet(X) /\ \A c \in X : f[c] \in Int
  BY DEF SetsOK, SetOK, PowersIn
<1>2. \A d \in D : A[d] \subseteq X
  BY DEF HoldersIn
<1>3. \A d \in D : g[d] = SumFunctionOnSet(f, A[d]) /\ g[d] \in Nat
  <2> SUFFICES ASSUME NEW d \in D PROVE g[d] = SumFunctionOnSet(f, A[d]) /\ g[d] \in Nat
    OBVIOUS
  <2>1. g[d] = SignatoryPower(sigsets[i], A[d])
    BY DEF SharesIn, HoldersIn, VpOf
  <2>2. A[d] \subseteq X
    BY <1>2
  <2> HIDE DEF g, A, f
  <2> QED BY <2>1, <2>2, PowerIsSum DEF X, f
<1>4. ASSUME NEW d \in D, NEW e \in D, d # e PROVE A[d] \cap A[e] = {}
  <2>1. sigKeys[d].key # sigKeys[e].key
    BY <1>4 DEF IInv, KeysApart
  <2>2. DerivePubkey(sigKeys[d], i) # DerivePubkey(sigKeys[e], i)
    BY <2>1 DEF DerivePubkey
  <2> QED BY <2>2 DEF HoldersIn
<1> HIDE DEF X, f, A, g
<1>5. IsFamily(g, D, A, f, X)
  BY <1>1, <1>2, <1>3, <1>4 DEF IsFamily
<1> QED BY <1>3, <1>5 DEF g, A, f, X

(* What the holders of keys D had in set i: the power of the signatories    *)
(* with one of these keys.                                                  *)
LEMMA SharesSum ==
    ASSUME IInv, SetsOK, NEW i \in DOMAIN sigsets, NEW D, D \subseteq DOMAIN sigKeys, IsFiniteSet(D),
           NEW T, T = UNION {HoldersIn(i)[d] : d \in D}
    PROVE  /\ T \subseteq DOMAIN sigsets[i].signatories
           /\ SumFunctionOnSet(SharesIn(i), D) = SignatoryPower(sigsets[i], T)
<1>1. T \subseteq DOMAIN sigsets[i].signatories
  BY DEF HoldersIn
<1>2. SumFunctionOnSet(SharesIn(i), D) = SumFunctionOnSet(PowersIn(i), T)
  BY SharesAreParts, SumFamily
<1> QED BY <1>1, <1>2, PowerIsSum

(* change_rates sums up the gains.                                          *)
LEMMA GainsSum ==
    ASSUME NEW i, NEW j, IsFiniteSet(DOMAIN sigKeys)
    PROVE  TotalGain(j, i) = SumFunctionOnSet(Gains(j, i), DOMAIN sigKeys)
<1> DEFINE K == DOMAIN sigKeys
           G == Gains(j, i)
           IsIt(it) == it = [s \in SUBSET K |-> IF s = {} THEN 0
                               ELSE Gain(sigKeys[Pick(s)], j, i) + it[s \ {Pick(s)}]]
           It == CHOOSE it : IsIt(it)
<1>1. TotalGain(j, i) = It[K]
  BY DEF TotalGain, MapThenSumSet, MapThenFoldSet, Pick
<1>2. ASSUME NEW it PROVE IsIt(it) <=> IsTable(it, G, K)
  <2>1. \A s \in SUBSET K : s # {} => G[Pick(s)] = Gain(sigKeys[Pick(s)], j, i)
    BY PickIn DEF Gains
  <2> HIDE DEF G
  <2>2. [s \in SUBSET K |-> IF s = {} THEN 0 ELSE Gain(sigKeys[Pick(s)], j, i) + it[s \ {Pick(s)}]]
          = [s \in SUBSET K |-> IF s = {} THEN 0 ELSE G[Pick(s)] + it[s \ {Pick(s)}]]
    BY <2>1
  <2> QED BY <2>2 DEF IsTable
<1>3. IsTable(Table(G, K), G, K)
  BY TableExists
<1>4. IsTable(It, G, K)
  <2> HIDE DEF IsIt, G
  <2>1. IsIt(Table(G, K))
    BY <1>2, <1>3
  <2>2. IsIt(It)
    BY <2>1
  <2> QED BY <1>2, <2>2
<1> HIDE DEF It, G
<1>5. It[K] = Table(G, K)[K]
  BY <1>3, <1>4, TablesAgree
<1>6. It[K] = SumFunctionOnSet(Gains(j, i), K)
  BY <1>5, SumIsTable DEF G
<1> QED BY <1>1, <1>6

(* A rate of at most all, off by one part in a, is truncated to all at most.*)
LEMMA RateAtMost ==
    ASSUME NEW one \in Nat \ {0}, NEW rate \in Nat, NEW c \in Nat, rate <= c * one,
           NEW a \in Nat, a >= 2
    PROVE  (rate * a + one) \div (one * a) <= c
<1>1. PICK u \in Nat : u = one * a
  OBVIOUS
<1>2. PICK m \in Nat : m = rate * a
  OBVIOUS
<1>3. u > one /\ u > 0
  BY <1>1
<1>4. m <= c * u
  <2>1. rate * a <= (c * one) * a
    OBVIOUS
  <2>2. (c * one) * a = c * (one * a)
    OBVIOUS
  <2> QED BY <1>1, <1>2, <2>1, <2>2
<1>5. PICK t : t = (m + one) \div u
  OBVIOUS
<1>6. t \in Nat /\ u * t <= m + one
  BY <1>3, <1>5
<1>7. u * t < c * u + u
  <2>1. c * u \in Nat /\ u * t \in Nat
    BY <1>6
  <2> QED BY <1>3, <1>4, <1>6, <2>1
<1>8. c * u + u = u * (c + 1)
  OBVIOUS
<1>9. u * t < u * (c + 1)
  BY <1>7, <1>8
<1>10. t < c + 1
  BY <1>3, <1>6, <1>9
<1> QED BY <1>1, <1>2, <1>5, <1>6, <1>10

(* A rate of at least z, off by one part in a, is truncated to z - 1 at     *)
(* least.                                                                   *)
LEMMA RateAtLeast ==
    ASSUME NEW one \in Nat \ {0}, NEW rate \in Nat, NEW z \in Int, one * z <= rate,
           NEW a \in Nat, a >= 2
    PROVE  (rate * a - one) \div (one * a) + 1 >= z
<1>1. PICK u \in Nat : u = one * a
  OBVIOUS
<1>2. PICK m \in Nat : m = rate * a
  OBVIOUS
<1>3. u >= one /\ u > 0
  BY <1>1
<1>4. u * z <= m
  <2>1. (one * z) * a <= rate * a
    OBVIOUS
  <2>2. (one * z) * a = (one * a) * z
    OBVIOUS
  <2> QED BY <1>1, <1>2, <2>1, <2>2
<1>5. u * (z - 1) = u * z - u
  OBVIOUS
<1>6. u * (z - 1) <= m - one
  <2>1. u * z \in Int
    OBVIOUS
  <2> QED BY <1>3, <1>4, <1>5, <2>1
<1>7. PICK y \in Int : y = m - one
  OBVIOUS
<1>8. PICK t \in Int : t = y \div u
  BY <1>3
<1>9. y < u * (t + 1)
  BY <1>3, <1>7, <1>8
<1>10. u * (z - 1) < u * (t + 1)
  <2>1. u * (z - 1) \in Int /\ u * (t + 1) \in Int
    BY <1>8
  <2> QED BY <1>6, <1>7, <1>9, <2>1
<1>11. z - 1 < t + 1
  BY <1>3, <1>8, <1>10
<1> QED BY <1>1, <1>2, <1>7, <1>8, <1>11

(* The larger of a number and zero.                                         *)
LEMMA MaxOfZero ==
    ASSUME NEW x \in Int
    PROVE  Max({x, 0}) \in Nat /\ Max({x, 0}) >= x /\ (Max({x, 0}) = x \/ Max({x, 0}) = 0)
<1>1. CASE x >= 0
  <2>1. \E y \in {x, 0} : \A z \in {x, 0} : y >= z
    BY <1>1
  <2> QED BY <1>1, <2>1 DEF Max
<1>2. CASE x < 0
  <2>1. \E y \in {x, 0} : \A z \in {x, 0} : y >= z
    BY <1>2
  <2> QED BY <1>2, <2>1 DEF Max
<1> QED BY <1>1, <1>2

(* A gain counts what was had in set i and is at least the difference.      *)
LEMMA GainIs ==
    ASSUME IInv, SetsOK, IsFiniteSet(DOMAIN sigKeys),
           NEW i \in DOMAIN sigsets, NEW j \in DOMAIN sigsets, NEW d \in DOMAIN sigKeys
    PROVE  /\ SharesIn(i)[d] \in Nat /\ SharesIn(j)[d] \in Nat /\ Gains(j, i)[d] \in Nat
           /\ Gains(j, i)[d] <= sigsets[j].present * SharesIn(i)[d]
           /\ Gains(j, i)[d] >= sigsets[j].present * SharesIn(i)[d]
                                  - sigsets[i].present * SharesIn(j)[d]
<1>1. SharesIn(i)[d] \in Nat /\ SharesIn(j)[d] \in Nat
  BY SharesAreParts
<1>2. sigsets[i].present \in Nat /\ sigsets[j].present \in Nat
  BY DEF SetsOK, SetOK
<1>3. PICK a \in Nat : a = sigsets[j].present * SharesIn(i)[d]
  BY <1>1, <1>2
<1>4. PICK b \in Nat : b = sigsets[i].present * SharesIn(j)[d]
  BY <1>1, <1>2
<1>5. Gains(j, i)[d] = Max({a - b, 0})
  <2>1. Gains(j, i)[d]
          = Max({SharesIn(i)[d] * sigsets[j].present - SharesIn(j)[d] * sigsets[i].present, 0})
    BY DEF Gains, Gain, SharesIn
  <2>2. /\ SharesIn(i)[d] * sigsets[j].present = a
        /\ SharesIn(j)[d] * sigsets[i].present = b
    BY <1>1, <1>2, <1>3, <1>4
  <2> QED BY <2>1, <2>2
<1>6. a - b \in Int
  BY <1>3, <1>4
<1>7. Max({a - b, 0}) \in Nat /\ Max({a - b, 0}) >= a - b
      /\ (Max({a - b, 0}) = a - b \/ Max({a - b, 0}) = 0)
  BY <1>6, MaxOfZero
<1> QED BY <1>1, <1>3, <1>4, <1>5, <1>7

(* The holders of the keys of set i, with or without power in set j.        *)
LEMMA GainsBounded ==
    ASSUME RInv, NEW i \in DOMAIN sigsets, NEW j \in DOMAIN sigsets,
           NEW left, left = Without(j, InUse(i)), NEW stale, stale = Without(i, InUse(i)),
           NEW g, g = SumFunctionOnSet(Gains(j, i), DOMAIN sigKeys)
    PROVE  /\ g \in Nat
           /\ g <= sigsets[i].present * sigsets[j].present
           /\ g >= sigsets[i].present * SignatoryPower(sigsets[j], left)
                     - sigsets[j].present * SignatoryPower(sigsets[i], stale)
<1> DEFINE K == DOMAIN sigKeys
           D == {d \in K : sigKeys[d].key \in KeysOf(i)}
           Xi == DOMAIN sigsets[i].signatories
           Xj == DOMAIN sigsets[j].signatories
           all == UNION {HoldersIn(i)[d] : d \in K}
           now == UNION {HoldersIn(i)[d] : d \in D}
           was == UNION {HoldersIn(j)[d] : d \in D}
           none == [d \in K |-> 0]
           most == [d \in K |-> sigsets[j].present * SharesIn(i)[d] - 0 * none[d]]
           diff == [d \in D |-> sigsets[j].present * SharesIn(i)[d]
                                  - sigsets[i].present * SharesIn(j)[d]]
           pi == sigsets[i].present
           pj == sigsets[j].present
           L == SignatoryPower(sigsets[j], left)
           U == SignatoryPower(sigsets[i], stale)
<1>1. IInv /\ SetsOK /\ IsFiniteSet(K) /\ IsFiniteSet(D) /\ D \subseteq K
  BY KeysAssumption, FS_Subset DEF RInv, ConsKnown
<1>2. /\ pi \in Nat /\ pj \in Nat
      /\ pi = SignatoryPower(sigsets[i], Xi) /\ pj = SignatoryPower(sigsets[j], Xj)
  BY DEF RInv, SetsOK, SetOK, SetsExact, SetExact
<1>3. \A d \in K : /\ SharesIn(i)[d] \in Nat /\ SharesIn(j)[d] \in Nat /\ Gains(j, i)[d] \in Nat
                   /\ Gains(j, i)[d] <= pj * SharesIn(i)[d]
                   /\ Gains(j, i)[d] >= pj * SharesIn(i)[d] - pi * SharesIn(j)[d]
  BY <1>1, GainIs
<1>4. g \in Nat
  BY <1>1, <1>3, SumNat
<1>5. g <= pi * pj
  <2>1. SumFunctionOnSet(SharesIn(i), K) = SignatoryPower(sigsets[i], all) /\ all \subseteq Xi
    BY <1>1, SharesSum
  <2>2. SignatoryPower(sigsets[i], all) <= pi /\ SignatoryPower(sigsets[i], all) \in Nat
    <3>1. /\ SignatoryPower(sigsets[i], all) = SumFunctionOnSet(PowersIn(i), all)
          /\ SignatoryPower(sigsets[i], all) \in Nat
      <4> HIDE DEF all
      <4> QED BY <1>1, <2>1, PowerIsSum
    <3>2. SignatoryPower(sigsets[i], Xi) = SumFunctionOnSet(PowersIn(i), Xi) /\ IsFiniteSet(Xi)
      BY <1>1, PowerIsSum
    <3>3. \A c \in Xi : PowersIn(i)[c] \in Nat
      BY <1>1 DEF SetsOK, SetOK, PowersIn
    <3> HIDE DEF all, Xi
    <3>4. SumFunctionOnSet(PowersIn(i), all) <= SumFunctionOnSet(PowersIn(i), Xi)
      BY <2>1, <3>2, <3>3, SumMonotone
    <3> QED BY <1>2, <3>1, <3>2, <3>4
  <2>3. Combined(most, pj, SharesIn(i), 0, none, K)
    BY <1>3 DEF Combined
  <2>4. SumFunctionOnSet(none, K) = 0
    BY <1>1, SumZero
  <2>5. \A d \in K : Gains(j, i)[d] \in Int /\ most[d] \in Int /\ Gains(j, i)[d] <= most[d]
    BY <1>2, <1>3
  <2> HIDE DEF most, none, K, pi, pj, all
  <2>6. SumFunctionOnSet(most, K)
          = pj * SumFunctionOnSet(SharesIn(i), K) - 0 * SumFunctionOnSet(none, K)
    BY <1>1, <1>2, <2>3, SumCombined
  <2>7. g <= SumFunctionOnSet(most, K)
    BY <1>1, <2>5, SumAtMost DEF K
  <2>8. pj * SignatoryPower(sigsets[i], all) <= pi * pj
    BY <1>2, <2>2
  <2>9. SumFunctionOnSet(most, K) = pj * SignatoryPower(sigsets[i], all)
    <3>1. PICK x \in Nat : x = SignatoryPower(sigsets[i], all)
      BY <2>2
    <3> QED BY <1>2, <2>1, <2>4, <2>6, <3>1
  <2> QED BY <1>2, <1>4, <2>2, <2>7, <2>8, <2>9
<1>6. /\ U \in Nat /\ SumFunctionOnSet(SharesIn(i), D) \in Nat
      /\ SumFunctionOnSet(SharesIn(i), D) + U = pi
  <2>1. SumFunctionOnSet(SharesIn(i), D) = SignatoryPower(sigsets[i], now) /\ now \subseteq Xi
    BY <1>1, SharesSum
  <2>2. ASSUME NEW c \in Xi, c \notin stale PROVE c \in now
    <3>1. sigsets[i].signatories[c].pubkey[1] \in InUse(i)
      BY <2>2 DEF Without
    <3>2. PICK d \in K : sigKeys[d].key = sigsets[i].signatories[c].pubkey[1]
      BY <3>1 DEF InUse
    <3>3. d \in D
      BY <3>2 DEF KeysOf
    <3>4. PICK key \in Keys : sigsets[i].signatories[c].pubkey = <<key, i>>
      BY DEF RInv, SetsExact, SetExact
    <3>5. sigsets[i].signatories[c].pubkey = DerivePubkey(sigKeys[d], i)
      BY <3>2, <3>4 DEF DerivePubkey
    <3>6. c \in HoldersIn(i)[d]
      BY <3>5 DEF HoldersIn
    <3> QED BY <3>3, <3>6
  <2>3. ASSUME NEW d \in D, NEW c \in HoldersIn(i)[d] PROVE c \notin stale
    <3>1. sigsets[i].signatories[c].pubkey = <<sigKeys[d].key, i>>
      BY <2>3 DEF HoldersIn, DerivePubkey
    <3>2. sigsets[i].signatories[c].pubkey[1] \in InUse(i)
      BY <3>1 DEF InUse
    <3> QED BY <3>2 DEF Without
  <2>4. stale \subseteq Xi
    BY DEF Without
  <2>5. now \cap stale = {}
    BY <2>3
  <2>6. \A c \in Xi : PowersIn(i)[c] \in Nat
    BY <1>1 DEF SetsOK, SetOK, PowersIn
  <2> HIDE DEF now
  <2>7. now \cup stale = Xi
    BY <2>1, <2>2, <2>4
  <2>8. /\ SignatoryPower(sigsets[i], now) = SumFunctionOnSet(PowersIn(i), now)
        /\ SignatoryPower(sigsets[i], now) \in Nat /\ IsFiniteSet(now)
    BY <1>1, <2>1, PowerIsSum
  <2>9. U = SumFunctionOnSet(PowersIn(i), stale) /\ U \in Nat /\ IsFiniteSet(stale)
    BY <1>1, <2>4, PowerIsSum
  <2>10. pi = SumFunctionOnSet(PowersIn(i), Xi)
    BY <1>1, <1>2, PowerIsSum
  <2> HIDE DEF Xi, U, pi
  <2>11. \A c \in now \cup stale : PowersIn(i)[c] \in Int
    BY <2>6, <2>7
  <2>12. SumFunctionOnSet(PowersIn(i), now \cup stale)
           = SumFunctionOnSet(PowersIn(i), now) + SumFunctionOnSet(PowersIn(i), stale)
    BY <2>5, <2>8, <2>9, <2>11, SumUnion
  <2> QED BY <2>1, <2>7, <2>8, <2>9, <2>10, <2>12
<1>7. /\ L \in Nat /\ SumFunctionOnSet(SharesIn(j), D) \in Nat
      /\ SumFunctionOnSet(SharesIn(j), D) + L <= pj
  <2>1. SumFunctionOnSet(SharesIn(j), D) = SignatoryPower(sigsets[j], was) /\ was \subseteq Xj
    BY <1>1, SharesSum
  <2>2. left \subseteq Xj /\ was \cap left = {}
    <3>1. ASSUME NEW d \in D, NEW c \in HoldersIn(j)[d] PROVE c \notin left
      <4>1. sigsets[j].signatories[c].pubkey = <<sigKeys[d].key, j>>
        BY <3>1 DEF HoldersIn, DerivePubkey
      <4>2. sigsets[j].signatories[c].pubkey[1] \in InUse(i)
        BY <4>1 DEF InUse
      <4> QED BY <4>2 DEF Without
    <3> QED BY <3>1 DEF Without
  <2>3. \A c \in Xj : PowersIn(j)[c] \in Nat
    BY <1>1 DEF SetsOK, SetOK, PowersIn
  <2> HIDE DEF was
  <2>4. /\ SignatoryPower(sigsets[j], was) = SumFunctionOnSet(PowersIn(j), was)
        /\ SignatoryPower(sigsets[j], was) \in Nat /\ IsFiniteSet(was)
    BY <1>1, <2>1, PowerIsSum
  <2>5. L = SumFunctionOnSet(PowersIn(j), left) /\ L \in Nat /\ IsFiniteSet(left)
    BY <1>1, <2>2, PowerIsSum
  <2>6. pj = SumFunctionOnSet(PowersIn(j), Xj) /\ IsFiniteSet(Xj)
    BY <1>1, <1>2, PowerIsSum
  <2> HIDE DEF Xj, L, pj
  <2>7. \A c \in was \cup left : PowersIn(j)[c] \in Int
    BY <2>1, <2>2, <2>3
  <2>8. SumFunctionOnSet(PowersIn(j), was \cup left)
          = SumFunctionOnSet(PowersIn(j), was) + SumFunctionOnSet(PowersIn(j), left)
    BY <2>2, <2>4, <2>5, <2>7, SumUnion
  <2>9. was \cup left \in SUBSET Xj
    BY <2>1, <2>2
  <2>10. SumFunctionOnSet(PowersIn(j), was \cup left) <= SumFunctionOnSet(PowersIn(j), Xj)
    BY <2>3, <2>6, <2>9, SumMonotone
  <2> QED BY <2>1, <2>4, <2>5, <2>6, <2>8, <2>10
<1>8. SumFunctionOnSet(diff, D)
        = pj * SumFunctionOnSet(SharesIn(i), D) - pi * SumFunctionOnSet(SharesIn(j), D)
  <2>1. Combined(diff, pj, SharesIn(i), pi, SharesIn(j), D)
    BY <1>1, <1>3 DEF Combined
  <2> HIDE DEF diff, pi, pj, D
  <2> QED BY <1>1, <1>2, <2>1, SumCombined
<1>9. g >= SumFunctionOnSet(diff, D)
  <2>1. \A d \in D : diff[d] \in Int /\ Gains(j, i)[d] \in Int /\ diff[d] <= Gains(j, i)[d]
    BY <1>1, <1>2, <1>3
  <2>2. SumFunctionOnSet(Gains(j, i), D) <= g
    BY <1>1, <1>3, SumMonotone
  <2>3. \A d \in D : Gains(j, i)[d] \in Nat
    BY <1>3
  <2> HIDE DEF diff, D
  <2>4. SumFunctionOnSet(diff, D) <= SumFunctionOnSet(Gains(j, i), D)
    BY <1>1, <2>1, SumAtMost
  <2>5. SumFunctionOnSet(diff, D) \in Int
    BY <1>1, <2>1, SumInt
  <2>6. SumFunctionOnSet(Gains(j, i), D) \in Nat
    BY <1>1, <2>3, SumNat
  <2> QED BY <1>4, <2>2, <2>4, <2>5, <2>6
<1>10. g >= pi * L - pj * U
  <2> HIDE DEF pi, pj, L, U, D, diff
  <2>1. PICK x \in Nat : x = SumFunctionOnSet(SharesIn(j), D)
    BY <1>7
  <2>2. PICK y \in Nat : y = SumFunctionOnSet(SharesIn(i), D)
    BY <1>6
  <2>3. x <= pj - L /\ y = pi - U
    BY <1>2, <1>6, <1>7, <2>1, <2>2
  <2>4. pi * x <= pi * (pj - L)
    BY <1>2, <1>7, <2>3
  <2>5. pi * (pj - L) = pi * pj - pi * L /\ pj * y = pi * pj - pj * U
    BY <1>2, <1>6, <1>7, <2>3
  <2>6. g >= pj * y - pi * x
    BY <1>8, <1>9, <2>1, <2>2
  <2>7. pi * x \in Int /\ pi * L \in Int /\ pi * pj \in Int /\ pj * y \in Int /\ pj * U \in Int
    BY <1>2, <1>6, <1>7
  <2> QED BY <1>4, <2>4, <2>5, <2>6, <2>7
<1> QED BY <1>4, <1>5, <1>10

(* The sets stay as they are while the rest changes.                        *)
LEMMA SetsKept ==
    ASSUME UNCHANGED sigsets
    PROVE  SetsExact' = SetsExact /\ SetsInOrder' = SetsInOrder
  BY DEF SetsExact, SetExact, SetsInOrder

(* The last entry that fits is an entry.                                    *)
LEMMA LastEntry ==
    ASSUME NEW n \in Nat, NEW entries \in [1 .. n -> Entries], NEW ks, ks \subseteq 1 .. n, ks # {}
    PROVE  LastOf(entries, ks) \in Entries
<1>1. Max(ks) \in ks
  BY LastIsOne
<1> QED BY <1>1 DEF LastOf

(* add_validators declares powers other than zero, if those are all there   *)
(* are, and signers for consensus keys.                                     *)
LEMMA AddValidatorsRates ==
    ASSUME Powered, ConsKnown, 0 \notin Powers,
           NEW entries \in BoundedSeq(Entries, MaxEntries), AddValidators(entries)
    PROVE  Powered' /\ ConsKnown'
<1>1. PICK n \in Nat : entries \in [1 .. n -> Entries]
  BY KeysAssumption DEF BoundedSeq, SeqOf
<1> DEFINE forC(c) == {k \in 1 .. n : entries[k].cons = c}
           forA(a) == {k \in 1 .. n : entries[k].addr = a}
<1>2. /\ DOMAIN validators' = DOMAIN validators \cup {entries[k].cons : k \in 1 .. n}
      /\ \A c \in DOMAIN validators' :
           validators'[c] = IF forC(c) = {} THEN validators[c]
                            ELSE [power |-> LastOf(entries, forC(c)).power,
                                  addr  |-> LastOf(entries, forC(c)).addr]
  BY <1>1 DEF AddValidators, ValidatorsAfter
<1>3. /\ DOMAIN signers' = DOMAIN signers \cup {entries[k].addr : k \in 1 .. n}
      /\ \A a \in DOMAIN signers' :
           signers'[a] = IF forA(a) = {} THEN signers[a] ELSE LastOf(entries, forA(a)).cons
      /\ sigKeys' = sigKeys
  BY <1>1 DEF AddValidators, SignersAfter
<1>4. ASSUME NEW c \in DOMAIN validators' PROVE validators'[c].power > 0
  <2>1. CASE forC(c) = {}
    <3>1. c \in DOMAIN validators
      BY <1>2, <2>1
    <3> QED BY <1>2, <2>1, <3>1 DEF Powered
  <2>2. CASE forC(c) # {}
    <3>1. LastOf(entries, forC(c)) \in Entries
      BY <1>1, <2>2, LastEntry
    <3>2. LastOf(entries, forC(c)).power \in Nat \ {0}
      BY <3>1, KeysAssumption DEF Entries
    <3> HIDE DEF forC
    <3>3. validators'[c] = [power |-> LastOf(entries, forC(c)).power,
                            addr  |-> LastOf(entries, forC(c)).addr]
      BY <1>2, <2>2
    <3>4. validators'[c].power = LastOf(entries, forC(c)).power
      BY <3>3
    <3> QED BY <3>2, <3>4
  <2> QED BY <2>1, <2>2
<1>5. ASSUME NEW a \in DOMAIN signers' PROVE signers'[a] \in ConsKeys
  <2>1. CASE forA(a) = {}
    <3>1. a \in DOMAIN signers
      BY <1>3, <2>1
    <3> QED BY <1>3, <2>1, <3>1 DEF ConsKnown
  <2>2. CASE forA(a) # {}
    <3>1. LastOf(entries, forA(a)) \in Entries
      BY <1>1, <2>2, LastEntry
    <3> HIDE DEF forA
    <3> QED BY <1>3, <2>2, <3>1 DEF Entries
  <2> QED BY <2>1, <2>2
<1> QED BY <1>3, <1>4, <1>5 DEF Powered, ConsKnown

(* A pushed set is made of its signatories, of whom there is one at least.  *)
LEMMA EndBlockPushRates ==
    ASSUME RInv, NEW S, NEW offline, EndBlockPush(S, offline)
    PROVE  SetsExact' /\ SetsInOrder' /\ ConsKnown' /\ Powered'
<1>0. PICK n : n = NextIndex
  OBVIOUS
<1>a. PICK set : set = FromValidatorCtx(S, n)
  OBVIOUS
<1>1. /\ sigsets' = [i \in DOMAIN sigsets \cup {n} |-> IF i = n THEN set ELSE sigsets[i]]
      /\ validators' = [c \in DOMAIN validators \ offline |-> validators[c]]
      /\ sigKeys' = [c \in DOMAIN sigKeys \ offline |-> sigKeys[c]]
      /\ signers' = [a \in DOMAIN signers \ {validators[c].addr : c \in offline} |-> signers[a]]
      /\ S \subseteq DOMAIN validators /\ S \subseteq DOMAIN sigKeys /\ S \subseteq WithKey
      /\ S # {}
  BY <1>0, <1>a DEF EndBlockPush, Punish, Removed, Saved, IsTruncated, WithKey
<1>2. ConsKnown' /\ Powered'
  BY <1>1 DEF RInv, ConsKnown, Powered
<1>3. n \in Nat /\ DOMAIN sigsets = 0 .. n - 1
  <2>1. PICK m \in Nat : DOMAIN sigsets = 0 .. m - 1
    BY DEF RInv, SetsInOrder
  <2>2. Cardinality(0 .. m - 1) = m
    BY FS_Interval
  <2> QED BY <1>0, <2>1, <2>2 DEF NextIndex
<1>4. SetsInOrder'
  <2>1. DOMAIN sigsets' = 0 .. (n + 1) - 1
    BY <1>1, <1>3
  <2> QED BY <1>3, <2>1 DEF SetsInOrder
<1>b. PowersOK /\ S \subseteq WithKey
  BY <1>1 DEF RInv
<1>5. MadeOf(set, S, n)
  BY <1>a, <1>b, MadeOfSignatories
<1>7. set.present > 0
  <2> DEFINE f == [c \in S |-> validators[c].power]
  <2>1. PICK e : e \in S
    BY <1>1
  <2>2. IsFiniteSet(S)
    BY <1>1, PowerOfType DEF RInv
  <2>3. \A c \in S : f[c] \in Nat /\ f[c] > 0
    BY <1>1 DEF RInv, PowersOK, Powered
  <2>4. PowerOf(S) = SumFunctionOnSet(f, S)
    BY DEF PowerOf, SumFunction
  <2> HIDE DEF f
  <2>5. SumFunctionOnSet(f, {e}) = f[e] /\ SumFunctionOnSet(f, {e}) <= SumFunctionOnSet(f, S)
    <3>1. {e} \in SUBSET S
      BY <2>1
    <3>2. f[e] \in Int
      BY <2>1, <2>3
    <3> QED BY <2>2, <2>3, <3>1, <3>2, SumOne, SumMonotone
  <2>6. SumFunctionOnSet(f, S) \in Nat
    BY <2>2, <2>3, SumNat
  <2>7. f[e] \in Nat /\ f[e] > 0
    BY <2>1, <2>3
  <2>8. set.present = PowerOf(S)
    BY <1>5 DEF MadeOf
  <2> QED BY <2>4, <2>5, <2>6, <2>7, <2>8
<1>8. \A c \in S : sigKeys[c].key \in Keys
  BY <1>1 DEF RInv, IInv, KeysTyped, Xpubs
<1>9. SetExact(n)'
  BY <1>1, <1>5, <1>7, <1>8 DEF SetExact, MadeOf
<1>10. ASSUME NEW i \in DOMAIN sigsets PROVE i # n /\ SetExact(i)'
  <2>1. i # n /\ sigsets'[i] = sigsets[i]
    BY <1>1, <1>3
  <2>2. SetExact(i)
    BY DEF RInv, SetsExact
  <2> QED BY <2>1, <2>2 DEF SetExact
<1>11. SetsExact'
  BY <1>1, <1>9, <1>10 DEF SetsExact
<1> QED BY <1>2, <1>4, <1>11

(* Every step keeps the invariant of the rates of change.                   *)
LEMMA StepRates ==
    ASSUME 0 \notin Powers
    PROVE  RInv /\ [Next]_vars => RInv'
<1> SUFFICES ASSUME RInv, [Next]_vars PROVE RInv'
  OBVIOUS
<1>1. IInv'
  BY StepInv DEF RInv
<1>2. ASSUME UNCHANGED sigsets PROVE SetsOK' /\ SetsExact' /\ SetsInOrder'
  <2>1. SetsOK'
    BY <1>2 DEF RInv, SetsOK, SetOK, HasQuorum, QuorumThreshold, SignatoryPower
  <2> QED BY <1>2, <2>1, SetsKept DEF RInv
<1>3. ASSUME NEW entries \in BoundedSeq(Entries, MaxEntries), AddValidators(entries)
      PROVE  RInv'
  <2>1. PowersOK' /\ Powered' /\ ConsKnown'
    BY <1>3, AddValidatorsPowers, AddValidatorsRates DEF RInv
  <2>2. UNCHANGED sigsets
    BY <1>3 DEF AddValidators
  <2> QED BY <1>1, <1>2, <2>1, <2>2 DEF RInv
<1>4. ASSUME NEW addr \in Addrs, NEW xpub \in Xpubs, SetSignatoryKey(addr, xpub)
      PROVE  RInv'
  <2>1. /\ UNCHANGED <<validators, signers, sigsets>>
        /\ addr \in DOMAIN signers
        /\ DOMAIN sigKeys' = DOMAIN sigKeys \cup {signers[addr]}
    BY <1>4 DEF SetSignatoryKey, Insert, Saved
  <2>2. PowersOK' /\ Powered' /\ ConsKnown'
    BY <2>1 DEF RInv, PowersOK, Powered, ConsKnown
  <2> QED BY <1>1, <1>2, <2>1, <2>2 DEF RInv
<1>5. ASSUME NEW S, NEW offline, EndBlockPush(S, offline) PROVE RInv'
  <2>1. PowersOK' /\ SetsOK'
    BY <1>5, EndBlockPushPowers DEF RInv
  <2>2. SetsExact' /\ SetsInOrder' /\ ConsKnown' /\ Powered'
    BY <1>5, EndBlockPushRates
  <2> QED BY <1>1, <2>1, <2>2 DEF RInv
<1>6. CASE UNCHANGED vars
  <2>1. PowersOK' /\ Powered' /\ ConsKnown' /\ UNCHANGED sigsets
    BY <1>6 DEF vars, RInv, PowersOK, Powered, ConsKnown
  <2> QED BY <1>1, <1>2, <2>1 DEF RInv
<1> QED BY <1>3, <1>4, <1>5, <1>6 DEF Next

(* A rate of change that may be computed between two sets is a rate, and    *)
(* at least the share of those who left, less that of stale keys and one    *)
(* unit.                                                                    *)
LEMMA ChangeBounded ==
    ASSUME RInv, NEW i \in DOMAIN sigsets, NEW j \in DOMAIN sigsets,
           NEW left, left = SignatoryPower(sigsets[j], Without(j, InUse(i))),
           NEW stale, stale = SignatoryPower(sigsets[i], Without(i, InUse(i))),
           NEW rate \in SigsetChanges(j, i)
    PROVE  /\ rate <= 10000
           /\ rate + 1 >= ((left * sigsets[i].present - stale * sigsets[j].present) * 10000)
                             \div (sigsets[i].present * sigsets[j].present)
<1>1. PICK g : g = SumFunctionOnSet(Gains(j, i), DOMAIN sigKeys)
  OBVIOUS
<1>2. /\ g \in Nat
      /\ g <= sigsets[i].present * sigsets[j].present
      /\ g >= sigsets[i].present * left - sigsets[j].present * stale
  BY <1>1, GainsBounded
<1>3. IsFiniteSet(DOMAIN sigKeys) /\ SetsOK
  BY KeysAssumption, FS_Subset DEF RInv, ConsKnown
<1>4. TotalGain(j, i) = g
  BY <1>1, <1>3, GainsSum
<1>5. PICK p \in Nat : p = sigsets[i].present /\ p > 0
  BY DEF RInv, SetsOK, SetOK, SetsExact, SetExact
<1>6. PICK q \in Nat : q = sigsets[j].present /\ q > 0
  BY DEF RInv, SetsOK, SetOK, SetsExact, SetExact
<1>7. left \in Nat /\ stale \in Nat
  <2>1. /\ Without(j, InUse(i)) \subseteq DOMAIN sigsets[j].signatories
        /\ Without(i, InUse(i)) \subseteq DOMAIN sigsets[i].signatories
    BY DEF Without
  <2> QED BY <1>3, <2>1, PowerIsSum
<1>8. PICK one \in Nat \ {0} : one = p * q
  BY <1>5, <1>6
<1>9. PICK r \in Nat : r = g * 10000
  BY <1>2
<1>10. PICK a \in Nat : a = Accuracy /\ a >= 2
  BY KeysAssumption
<1>11. PICK low, high : low = (r * a - one) \div (one * a) /\ high = (r * a + one) \div (one * a)
  OBVIOUS
<1>12. rate \in Max({low, 0}) .. high
  BY <1>4, <1>5, <1>6, <1>8, <1>9, <1>10, <1>11 DEF SigsetChanges
<1>13. low \in Int /\ high \in Int
  <2>1. PICK u \in Nat : u = one * a /\ u > 0
    BY <1>10
  <2>2. r * a - one \in Int /\ r * a + one \in Int
    OBVIOUS
  <2> QED BY <1>11, <2>1, <2>2
<1>14. rate \in Int /\ rate >= low /\ rate <= high
  <2>1. Max({low, 0}) \in Nat /\ Max({low, 0}) >= low
    BY <1>13, MaxOfZero
  <2> QED BY <1>12, <1>13, <2>1
<1>15. rate <= 10000
  <2>1. r <= 10000 * one
    BY <1>2, <1>5, <1>6, <1>8, <1>9
  <2>2. high <= 10000
    BY <1>10, <1>11, <2>1, RateAtMost
  <2> QED BY <1>13, <1>14, <2>2
<1>16. PICK m \in Int : m = left * p - stale * q
  BY <1>5, <1>6, <1>7
<1>17. PICK z \in Int : z = (m * 10000) \div one
  OBVIOUS
<1>18. one * z <= r
  <2>1. one * z <= m * 10000
    BY <1>17
  <2>2. m <= g
    <3>1. p * left = left * p /\ q * stale = stale * q
      BY <1>5, <1>6, <1>7
    <3> QED BY <1>2, <1>5, <1>6, <1>16, <3>1
  <2>3. one * z \in Int
    OBVIOUS
  <2> QED BY <1>2, <1>9, <2>1, <2>2, <2>3
<1>19. rate + 1 >= z
  <2>1. low + 1 >= z
    BY <1>10, <1>11, <1>18, RateAtLeast
  <2> QED BY <1>13, <1>14, <2>1
<1> QED BY <1>5, <1>6, <1>8, <1>15, <1>16, <1>17, <1>19

(* Nothing is stored at first.                                              *)
LEMMA InitRates == Init => RInv
<1> SUFFICES ASSUME Init PROVE RInv
  OBVIOUS
<1>1. IInv
  BY InitInv
<1>2. DOMAIN sigsets = 0 .. 0 - 1
  BY DEF Init
<1>3. SetsInOrder
  BY <1>2 DEF SetsInOrder
<1> QED BY <1>1, <1>3 DEF Init, RInv, PowersOK, SetsOK, SetsExact, ConsKnown, Powered

(* change_rates, over any history of validators, keys and punishments and   *)
(* for any two signatory sets: the rate counts whoever left, but for what   *)
(* stale keys hide of the later set, and is a rate.  Nobody is declared     *)
(* with no power: a set without any would have no shares.                   *)
THEOREM LeaversAreCounted ==
    ASSUME 0 \notin Powers
    PROVE  Spec => []LeaversCount
<1>1. RInv => LeaversCount
  <2> SUFFICES ASSUME RInv, NEW i \in DOMAIN sigsets, NEW j \in 0 .. (i - 1),
                      NEW left, left = SignatoryPower(sigsets[j], Without(j, InUse(i))),
                      NEW stale, stale = SignatoryPower(sigsets[i], Without(i, InUse(i))),
                      NEW rate \in SigsetChanges(j, i)
               PROVE  /\ rate <= 10000
                      /\ rate + 1 >= ((left * sigsets[i].present - stale * sigsets[j].present)
                                         * 10000) \div (sigsets[i].present * sigsets[j].present)
    BY DEF LeaversCount
  <2>1. j \in DOMAIN sigsets
    BY DEF RInv, SetsInOrder
  <2> QED BY <2>1, ChangeBounded
<1> QED BY <1>1, InitRates, StepRates, PTL DEF Spec

(* insert, sort_and_truncate, signature_threshold and from_sigset: for any  *)
(* validators and powers other than zero, and any truncation, whoever the   *)
(* contract counts as having signed for a set can spend from it, if the     *)
(* configured ratio is not above two thirds; and all signatories can.       *)
THEOREM SignersCanSpend ==
    ASSUME 0 \notin Powers, 3 * Ratio[1] <= 2 * Ratio[2]
    PROVE  Spec => []SignedCanSpend
<1>1. RInv => SignedCanSpend
  <2> SUFFICES ASSUME RInv, NEW i \in DOMAIN sigsets, NEW set, set = sigsets[i],
                      NEW T \in SUBSET DOMAIN set.signatories
               PROVE  /\ Signs(set, DOMAIN set.signatories)
                      /\ Signs(set, T) => Spends(set, T)
    BY DEF SignedCanSpend
  <2>1. SetOK(set)
    BY DEF RInv, SetsOK
  <2>2. PICK p \in Nat : p = set.present /\ p > 0
    BY <2>1 DEF RInv, SetsExact, SetExact, SetOK
  <2>3. PICK all : all = SignatoryPower(set, DOMAIN set.signatories)
    OBVIOUS
  <2>4. all = p
    BY <2>1, <2>2, <2>3 DEF SetOK
  <2>5. PICK x \in Nat : x = SignatoryPower(set, T)
    BY <2>1, PartPower
  <2>6. PICK n \in Nat : n = Ratio[1]
    BY KeysAssumption
  <2>7. PICK d \in Nat \ {0} : d = Ratio[2]
    BY KeysAssumption
  <2>8. CountedThreshold(set) = (p * 2) \div 3 /\ SignatureThreshold(set) = (p * n) \div d
    BY <2>2, <2>3, <2>4, <2>6, <2>7 DEF CountedThreshold, SignatureThreshold
  <2>9. (p * n) \div d <= (p * 2) \div 3
    BY <2>6, <2>7, RatioAtMost
  <2>10. p > (p * 2) \div 3
    BY <2>2
  <2>11. (p * n) \div d \in Int /\ (p * 2) \div 3 \in Int
    OBVIOUS
  <2>12. x > (p * 2) \div 3 => x > (p * n) \div d
    BY <2>9, <2>11
  <2> QED BY <2>3, <2>4, <2>5, <2>8, <2>10, <2>12 DEF Signs, Spends
<1> QED BY <1>1, InitRates, StepRates, PTL DEF Spec
=============================================================================
