------------------------ MODULE CheckpointSigningProofs -----------------------
(***************************************************************************)
(* The counters of CheckpointSigning implement the rule over sets of        *)
(* SigningSpec, for any signatories, powers, number of inputs and sequence  *)
(* of submissions.                                                          *)
(*                                                                         *)
(* The loop over the inputs is described by an invariant of its own (Loop), *)
(* shown of every pass by least counterexample.                             *)
(*                                                                         *)
(* From there to Bitcoin: the script is run on the witness clause by        *)
(* clause, so that it accepts who has more truncated power than the         *)
(* truncated threshold; and from_script reads a set back from its script.   *)
(***************************************************************************)
EXTENDS Spending, SumTheorems, SequenceTheorems

-----------------------------------------------------------------------------
(* The signing state of one input.                                          *)

(* Its threshold is that of its signatories, and the power that has signed  *)
(* is that of those whose signatures are there.                             *)
ShareOK(ts) ==
    /\ ts = [threshold |-> ts.threshold, signed |-> ts.signed, sigs |-> ts.sigs]
    /\ ts.sigs \in [DOMAIN ts.sigs -> BOOLEAN]
    /\ DOMAIN ts.sigs \subseteq Signers
    /\ ts.threshold = SignatureThreshold(DOMAIN ts.sigs)
    /\ ts.signed = TotalPower(SignedBy(ts))

(* The power of signatories is a sum of naturals.                           *)
LEMMA PowerSum ==
    ASSUME NEW U, U \subseteq Signers
    PROVE  /\ IsFiniteSet(U)
           /\ TotalPower(U) = SumFunctionOnSet(Power, U)
           /\ TotalPower(U) \in Nat
<1> DEFINE f == [s \in U |-> Power[s]]
<1>1. IsFiniteSet(U) /\ \A s \in U : Power[s] \in Nat
  BY SigningAssumption, FS_Subset
<1>2. TotalPower(U) = SumFunctionOnSet(f, U)
  BY DEF TotalPower, SumFunction
<1>3. \A s \in U : f[s] = Power[s]
  OBVIOUS
<1> HIDE DEF f
<1>4. SumFunctionOnSet(f, U) = SumFunctionOnSet(Power, U)
  BY <1>1, <1>3, SumSame
<1>5. SumFunctionOnSet(Power, U) \in Nat
  BY <1>1, SumNat
<1> QED BY <1>1, <1>2, <1>4, <1>5

(* A new input is not signed.                                               *)
LEMMA FreshShare ==
    ASSUME NEW S, S \subseteq Signers
    PROVE  /\ ShareOK(FromSigset(S))
           /\ SignedBy(FromSigset(S)) = {}
           /\ ~Signed(FromSigset(S))
           /\ DOMAIN FromSigset(S).sigs = S
<1> DEFINE ts == FromSigset(S)
<1>1. /\ ts.threshold = SignatureThreshold(S) /\ ts.signed = 0
      /\ ts.sigs = [s \in S |-> FALSE]
      /\ ts = [threshold |-> ts.threshold, signed |-> ts.signed, sigs |-> ts.sigs]
  BY DEF FromSigset
<1> HIDE DEF ts
<1>2. DOMAIN ts.sigs = S /\ ts.sigs \in [S -> BOOLEAN] /\ \A s \in S : ts.sigs[s] = FALSE
  BY <1>1
<1>3. SignedBy(ts) = {}
  BY <1>2 DEF SignedBy
<1>4. TotalPower({}) = 0
  <2>1. TotalPower({}) = SumFunctionOnSet(Power, {})
    BY PowerSum
  <2> QED BY <2>1, SumEmpty
<1>5. TotalPower(S) \in Nat
  BY PowerSum
<1>6. SignatureThreshold(S) >= 0 /\ SignatureThreshold(S) \in Int
  BY <1>5 DEF SignatureThreshold
<1>7. ~Signed(ts)
  BY <1>1, <1>6 DEF Signed
<1>8. ShareOK(ts)
  BY <1>1, <1>2, <1>3, <1>4 DEF ShareOK
<1> QED BY <1>2, <1>3, <1>7, <1>8 DEF ts

(* ThresholdSig::sign adds one signatory and its power, and a signed input  *)
(* stays signed.                                                            *)
LEMMA AddShareOK ==
    ASSUME NEW ts, ShareOK(ts), NEW s \in Signers, ShareNeeded(ts, s)
    PROVE  /\ ShareOK(AddShare(ts, s))
           /\ SignedBy(AddShare(ts, s)) = SignedBy(ts) \cup {s}
           /\ DOMAIN AddShare(ts, s).sigs = DOMAIN ts.sigs
           /\ Signed(ts) => Signed(AddShare(ts, s))
<1> DEFINE new == AddShare(ts, s)
<1>1. /\ ts = [threshold |-> ts.threshold, signed |-> ts.signed, sigs |-> ts.sigs]
      /\ ts.sigs \in [DOMAIN ts.sigs -> BOOLEAN] /\ DOMAIN ts.sigs \subseteq Signers
      /\ ts.threshold = SignatureThreshold(DOMAIN ts.sigs)
      /\ ts.signed = TotalPower(SignedBy(ts))
  BY DEF ShareOK
<1>2. s \in DOMAIN ts.sigs /\ ~ts.sigs[s]
  BY DEF ShareNeeded
<1>3. /\ new.threshold = ts.threshold
      /\ new.signed = ts.signed + Power[s]
      /\ new.sigs = [ts.sigs EXCEPT ![s] = TRUE]
      /\ new = [threshold |-> new.threshold, signed |-> new.signed, sigs |-> new.sigs]
  <2>1. PICK a, b, c : ts = [threshold |-> a, signed |-> b, sigs |-> c]
    BY <1>1
  <2>2. ts.threshold = a /\ ts.signed = b /\ ts.sigs = c
    BY <2>1
  <2>3. PICK v, e : v = ts.signed + Power[s] /\ e = [ts.sigs EXCEPT ![s] = TRUE]
    OBVIOUS
  <2>4. new = [[ts EXCEPT !.sigs = e] EXCEPT !.signed = v]
    BY <2>3, Zenon DEF AddShare
  <2>5. new = [threshold |-> a, signed |-> v, sigs |-> e]
    <3> HIDE DEF new
    <3> QED BY <2>1, <2>4
  <2> HIDE DEF new
  <2> QED BY <2>2, <2>3, <2>5
<1> HIDE DEF new
<1>4. /\ DOMAIN new.sigs = DOMAIN ts.sigs
      /\ new.sigs \in [DOMAIN ts.sigs -> BOOLEAN]
      /\ new.sigs[s] = TRUE
      /\ \A u \in DOMAIN ts.sigs : u # s => new.sigs[u] = ts.sigs[u]
  BY <1>1, <1>2, <1>3
<1>5. SignedBy(new) = SignedBy(ts) \cup {s}
  BY <1>2, <1>4 DEF SignedBy
<1>6. SignedBy(ts) \subseteq Signers /\ s \notin SignedBy(ts) /\ SignedBy(new) \subseteq Signers
  BY <1>1, <1>2, <1>5 DEF SignedBy
<1>7. TotalPower(SignedBy(new)) = TotalPower(SignedBy(ts)) + Power[s]
  <2>1. PICK U : U = SignedBy(ts)
    OBVIOUS
  <2>2. /\ U \subseteq Signers /\ s \notin U /\ IsFiniteSet(U) /\ U \cup {s} \subseteq Signers
        /\ TotalPower(U) = SumFunctionOnSet(Power, U)
    BY <1>6, <2>1, PowerSum
  <2>3. TotalPower(U \cup {s}) = SumFunctionOnSet(Power, U \cup {s})
    BY <2>2, PowerSum
  <2>4. \A x \in U \cup {s} : Power[x] \in Int
    BY <2>2, SigningAssumption
  <2>5. SumFunctionOnSet(Power, U \cup {s}) = SumFunctionOnSet(Power, U) + Power[s]
    BY <2>2, <2>4, SumAdd
  <2>6. TotalPower(SignedBy(new)) = TotalPower(U \cup {s})
    BY <1>5, <2>1
  <2> QED BY <2>1, <2>2, <2>3, <2>5, <2>6
<1>8. ShareOK(new)
  BY <1>1, <1>3, <1>4, <1>7 DEF ShareOK
<1>9. ASSUME Signed(ts) PROVE Signed(new)
  <2>1. ts.signed \in Nat /\ Power[s] \in Nat
    BY <1>1, <1>6, PowerSum, SigningAssumption
  <2>2. ts.threshold \in Int
    <3>1. TotalPower(DOMAIN ts.sigs) \in Nat
      BY <1>1, PowerSum
    <3> QED BY <1>1, <3>1 DEF SignatureThreshold
  <2> QED BY <1>3, <1>9, <2>1, <2>2 DEF Signed
<1> QED BY <1>4, <1>5, <1>8, <1>9 DEF new

-----------------------------------------------------------------------------
(* The invariant.                                                           *)

SignedSet(ins) == {k \in DOMAIN ins : Signed(ins[k])}

InputsOK ==
    /\ Len(input) \in Nat /\ Len(input) > 0
    /\ input = [k \in 1 .. Len(input) |-> input[k]]
    /\ DOMAIN input = 1 .. Len(input)
    /\ \A k \in DOMAIN input : ShareOK(input[k])

(* Who signed one input signed all that want it.                            *)
Together ==
    \A j, k \in DOMAIN input : \A s \in SignedBy(input[j]) :
        s \in DOMAIN input[k].sigs => s \in SignedBy(input[k])

Counters ==
    /\ signedInputs = Cardinality(SignedSet(input))
    /\ signedTxs = IF signedInputs = Len(input) THEN 1 ELSE 0
    /\ status = IF signedTxs = 1 THEN "Complete" ELSE "Signing"

IInv == InputsOK /\ Together /\ Counters

-----------------------------------------------------------------------------
(* The loop over the inputs.                                                *)

Start == [ok |-> TRUE, next |-> 1, input |-> input, signedInputs |-> signedInputs]

IsProgress(g, s, sigs, n) ==
    g = [k \in 0 .. n |-> IF k = 0 THEN Start ELSE SignInput(s, sigs, g[k - 1], k)]

(* The recursion of the loop has a solution, which Progress is.             *)
LEMMA ProgressExists ==
    ASSUME NEW s, NEW sigs, Len(input) \in Nat
    PROVE  IsProgress(Progress(s, sigs), s, sigs, Len(input))
<1> DEFINE Bad == {m \in Nat : ~\E g : IsProgress(g, s, sigs, m)}
<1>1. ASSUME Bad # {} PROVE FALSE
  <2>1. Bad \in SUBSET Nat
    OBVIOUS
  <2>2. PICK m \in Bad : \A k \in Bad : m <= k
    <3> HIDE DEF Bad
    <3> QED BY <1>1, <2>1, LeastNat
  <2>3. m \in Nat /\ ~\E g : IsProgress(g, s, sigs, m)
    OBVIOUS
  <2>4. CASE m = 0
    <3> DEFINE g == [k \in 0 .. 0 |-> Start]
    <3>1. IsProgress(g, s, sigs, 0)
      BY DEF IsProgress
    <3> QED BY <2>3, <2>4, <3>1
  <2>5. CASE m > 0
    <3>1. m - 1 \in Nat /\ m - 1 \notin Bad
      BY <2>2, <2>3, <2>5
    <3>2. PICK h : IsProgress(h, s, sigs, m - 1)
      BY <3>1
    <3>3. \A k \in 0 .. (m - 1) : h[k] = IF k = 0 THEN Start ELSE SignInput(s, sigs, h[k - 1], k)
      BY <3>2 DEF IsProgress
    <3> DEFINE g == [k \in 0 .. m |-> IF k = m THEN SignInput(s, sigs, h[m - 1], m) ELSE h[k]]
    <3>4. ASSUME NEW k \in 0 .. m
          PROVE  g[k] = IF k = 0 THEN Start ELSE SignInput(s, sigs, g[k - 1], k)
      <4>1. CASE k = m
        <5>1. g[k] = SignInput(s, sigs, h[m - 1], m) /\ g[m - 1] = h[m - 1] /\ k # 0
          BY <2>3, <2>5, <4>1
        <5> QED BY <4>1, <5>1
      <4>2. CASE k # m
        <5>1. k \in 0 .. (m - 1) /\ g[k] = h[k]
          BY <2>3, <4>2
        <5>2. k # 0 => g[k - 1] = h[k - 1]
          BY <2>3, <5>1
        <5> QED BY <3>3, <5>1, <5>2
      <4> QED BY <4>1, <4>2
    <3>5. g = [k \in 0 .. m |-> g[k]]
      OBVIOUS
    <3> HIDE DEF g
    <3>6. IsProgress(g, s, sigs, m)
      BY <3>4, <3>5 DEF IsProgress
    <3> QED BY <2>3, <3>6
  <2> QED BY <2>3, <2>4, <2>5
<1>2. \E g : IsProgress(g, s, sigs, Len(input))
  BY <1>1
<1>3. Progress(s, sigs) = CHOOSE g : IsProgress(g, s, sigs, Len(input))
  BY DEF Progress, IsProgress, Start
<1> QED BY <1>2, <1>3

(* The inputs once the loop is through with the first k.                    *)
AfterShares(s, k) ==
    [j \in DOMAIN input |->
        IF j <= k /\ ShareNeeded(input[j], s) THEN AddShare(input[j], s) ELSE input[j]]

(* What holds after the first k inputs, unless the submission failed.       *)
Loop(acc, s, k) ==
    /\ acc = [ok |-> acc.ok, next |-> acc.next, input |-> acc.input,
              signedInputs |-> acc.signedInputs]
    /\ acc.ok =>
         /\ acc.next \in Nat /\ acc.next > 0
         /\ acc.input = AfterShares(s, k)
         /\ acc.signedInputs = Cardinality(SignedSet(acc.input))
         /\ acc.next = 1 => \A j \in 1 .. k : ~ShareNeeded(input[j], s)

(* One pass of the loop.                                                    *)
LEMMA SignInputLoop ==
    ASSUME InputsOK, NEW s \in Signers, NEW sigs, NEW k \in 1 .. Len(input),
           NEW acc, Loop(acc, s, k - 1)
    PROVE  Loop(SignInput(s, sigs, acc, k), s, k)
<1> DEFINE new == SignInput(s, sigs, acc, k)
           more == AddShare(acc.input[k], s)
<1>1. /\ acc = [ok |-> acc.ok, next |-> acc.next, input |-> acc.input,
                signedInputs |-> acc.signedInputs]
  BY DEF Loop
<1>2. Len(input) \in Nat /\ DOMAIN input = 1 .. Len(input) /\ ShareOK(input[k])
  BY DEF InputsOK
<1>3. CASE ~acc.ok
  <2>1. new = acc
    BY <1>3 DEF SignInput
  <2> QED BY <1>1, <1>3, <2>1 DEF Loop
<1>4. CASE acc.ok
  <2>1. /\ acc.next \in Nat /\ acc.next > 0
        /\ acc.input = AfterShares(s, k - 1)
        /\ acc.signedInputs = Cardinality(SignedSet(acc.input))
        /\ acc.next = 1 => \A j \in 1 .. (k - 1) : ~ShareNeeded(input[j], s)
    BY <1>4 DEF Loop
  <2>2. /\ DOMAIN acc.input = 1 .. Len(input)
        /\ acc.input[k] = input[k]
        /\ \A j \in 1 .. Len(input) : j # k => acc.input[j] = AfterShares(s, k)[j]
    BY <1>2, <2>1 DEF AfterShares
  <2>3. CASE ~ShareNeeded(input[k], s)
    <3>1. new = acc
      BY <2>2, <2>3 DEF SignInput
    <3>2. AfterShares(s, k)[k] = input[k]
      BY <1>2, <2>3 DEF AfterShares
    <3>3. AfterShares(s, k) = AfterShares(s, k - 1)
      BY <1>2, <2>1, <2>2, <3>2 DEF AfterShares
    <3>4. \A j \in 1 .. k : j = k \/ j \in 1 .. (k - 1)
      BY <1>2
    <3>5. acc.next = 1 => \A j \in 1 .. k : ~ShareNeeded(input[j], s)
      BY <2>1, <2>3, <3>4
    <3> QED BY <1>1, <2>1, <3>1, <3>3, <3>5 DEF Loop
  <2>4. CASE ShareNeeded(input[k], s) /\ (acc.next > Len(sigs) \/ sigs[acc.next] # k)
    <3>1. new = [acc EXCEPT !.ok = FALSE]
      BY <1>4, <2>2, <2>4 DEF SignInput
    <3>2. /\ new.ok = FALSE
          /\ new = [ok |-> new.ok, next |-> new.next, input |-> new.input,
                    signedInputs |-> new.signedInputs]
      BY <1>1, <3>1
    <3> QED BY <3>2 DEF Loop
  <2>5. CASE ShareNeeded(input[k], s) /\ ~(acc.next > Len(sigs) \/ sigs[acc.next] # k)
    <3>1. new = [acc EXCEPT !.next = @ + 1, !.input[k] = AddShare(@, s),
                            !.signedInputs = @ + Counted(acc.input[k], AddShare(acc.input[k], s))]
      BY <1>4, <2>2, <2>5 DEF SignInput
    <3>2. /\ new.next = acc.next + 1
          /\ new.input = [acc.input EXCEPT ![k] = more]
          /\ new.signedInputs = acc.signedInputs + Counted(acc.input[k], more)
          /\ new = [ok |-> new.ok, next |-> new.next, input |-> new.input,
                    signedInputs |-> new.signedInputs]
      BY <1>1, <3>1
    <3>3. more = AddShare(input[k], s) /\ AfterShares(s, k)[k] = more
      BY <1>2, <2>2, <2>5 DEF AfterShares
    <3>4. Signed(input[k]) => Signed(more)
      BY <1>2, <2>5, <3>3, AddShareOK
    <3> HIDE DEF new, more
    <3>5. /\ DOMAIN new.input = 1 .. Len(input)
          /\ new.input[k] = more
          /\ \A j \in 1 .. Len(input) : j # k => new.input[j] = acc.input[j]
      BY <2>2, <3>2
    <3>6. new.input = AfterShares(s, k)
      <4>1. new.input = [j \in 1 .. Len(input) |-> new.input[j]]
        BY <2>2, <3>2
      <4>2. AfterShares(s, k) = [j \in 1 .. Len(input) |-> AfterShares(s, k)[j]]
        BY <1>2 DEF AfterShares
      <4>3. \A j \in 1 .. Len(input) : new.input[j] = AfterShares(s, k)[j]
        BY <2>2, <3>3, <3>5
      <4> QED BY <4>1, <4>2, <4>3
    <3>7. new.signedInputs = Cardinality(SignedSet(new.input))
      <4>1. PICK A : A = SignedSet(acc.input)
        OBVIOUS
      <4>2. A \subseteq 1 .. Len(input) /\ (k \in A <=> Signed(input[k]))
        BY <2>2, <4>1 DEF SignedSet
      <4>3. IsFiniteSet(A) /\ Cardinality(A) \in Nat
        <5>1. IsFiniteSet(1 .. Len(input))
          BY <1>2, FS_Interval
        <5>2. IsFiniteSet(A)
          BY <4>2, <5>1, FS_Subset
        <5> QED BY <5>2, FS_CardinalityType
      <4>4. CASE ~Signed(input[k]) /\ Signed(more)
        <5>1. SignedSet(new.input) = A \cup {k}
          BY <2>2, <3>5, <4>1, <4>4 DEF SignedSet
        <5>2. Cardinality(A \cup {k}) = Cardinality(A) + 1
          BY <4>2, <4>3, <4>4, FS_AddElement
        <5>3. Counted(acc.input[k], more) = 1
          BY <2>2, <4>4 DEF Counted
        <5> QED BY <2>1, <3>2, <4>1, <5>1, <5>2, <5>3
      <4>5. CASE ~(~Signed(input[k]) /\ Signed(more))
        <5>1. Signed(more) <=> Signed(input[k])
          BY <3>4, <4>5
        <5>2. SignedSet(new.input) = A
          BY <2>2, <3>5, <4>1, <5>1 DEF SignedSet
        <5>3. Counted(acc.input[k], more) = 0
          BY <2>2, <4>5 DEF Counted
        <5> QED BY <2>1, <3>2, <4>1, <4>3, <5>2, <5>3
      <4> QED BY <4>4, <4>5
    <3>8. new.next \in Nat /\ new.next > 0 /\ new.next # 1
      BY <2>1, <3>2
    <3> QED BY <3>2, <3>6, <3>7, <3>8 DEF Loop, new
  <2> QED BY <2>3, <2>4, <2>5
<1> QED BY <1>3, <1>4

(* The whole loop.                                                          *)
LEMMA AppliedLoop ==
    ASSUME InputsOK, Counters, NEW s \in Signers, NEW sigs
    PROVE  Loop(Applied(s, sigs), s, Len(input))
<1> DEFINE g == Progress(s, sigs)
           Bad == {k \in 0 .. Len(input) : ~Loop(g[k], s, k)}
<1>1. Len(input) \in Nat /\ DOMAIN input = 1 .. Len(input)
  BY DEF InputsOK
<1>2. \A k \in 0 .. Len(input) : g[k] = IF k = 0 THEN Start ELSE SignInput(s, sigs, g[k - 1], k)
  <2>1. IsProgress(g, s, sigs, Len(input))
    BY <1>1, ProgressExists
  <2> HIDE DEF g
  <2> QED BY <2>1 DEF IsProgress
<1> HIDE DEF g
<1>3. ASSUME Bad # {} PROVE FALSE
  <2>1. Bad \in SUBSET Nat
    BY <1>1
  <2>2. PICK k \in Bad : \A m \in Bad : k <= m
    <3> HIDE DEF Bad
    <3> QED BY <1>3, <2>1, LeastNat
  <2>3. k \in 0 .. Len(input) /\ ~Loop(g[k], s, k)
    OBVIOUS
  <2>4. CASE k = 0
    <3>1. g[0] = Start
      BY <1>1, <1>2
    <3>2. AfterShares(s, 0) = input
      <4>1. \A j \in DOMAIN input : ~(j <= 0)
        BY <1>1
      <4>2. AfterShares(s, 0) = [j \in DOMAIN input |-> input[j]]
        BY <4>1 DEF AfterShares
      <4>3. input = [j \in DOMAIN input |-> input[j]]
        BY DEF InputsOK
      <4> QED BY <4>2, <4>3
    <3>3. Loop(Start, s, 0)
      BY <3>2 DEF Loop, Start, Counters
    <3> QED BY <2>3, <2>4, <3>1, <3>3
  <2>5. CASE k # 0
    <3>1. k \in 1 .. Len(input) /\ k - 1 \in 0 .. Len(input) /\ ~(k <= k - 1)
      BY <1>1, <2>3, <2>5
    <3>2. Loop(g[k - 1], s, k - 1)
      BY <2>2, <3>1
    <3>3. Loop(SignInput(s, sigs, g[k - 1], k), s, k)
      BY <3>1, <3>2, SignInputLoop
    <3> QED BY <1>2, <2>3, <2>5, <3>3
  <2> QED BY <2>4, <2>5
<1>4. Len(input) \in 0 .. Len(input)
  BY <1>1
<1>5. Loop(g[Len(input)], s, Len(input))
  BY <1>3, <1>4
<1> QED BY <1>5 DEF Applied, g

-----------------------------------------------------------------------------
(* The invariant holds.                                                     *)

(* All inputs are signed when as many are as there are.                     *)
LEMMA AllSigned ==
    ASSUME NEW ins, NEW n \in Nat, DOMAIN ins = 1 .. n
    PROVE  /\ Cardinality(SignedSet(ins)) \in 0 .. n
           /\ Cardinality(SignedSet(ins)) = n <=> \A k \in 1 .. n : Signed(ins[k])
<1>1. SignedSet(ins) \subseteq 1 .. n
  BY DEF SignedSet
<1>2. IsFiniteSet(1 .. n) /\ Cardinality(1 .. n) = n
  BY FS_Interval
<1>3. /\ IsFiniteSet(SignedSet(ins))
      /\ Cardinality(SignedSet(ins)) <= Cardinality(1 .. n)
      /\ Cardinality(1 .. n) = Cardinality(SignedSet(ins)) => 1 .. n = SignedSet(ins)
  BY <1>1, <1>2, FS_Subset
<1>4. Cardinality(SignedSet(ins)) \in Nat
  BY <1>3, FS_CardinalityType
<1>5. Cardinality(SignedSet(ins)) = n => \A k \in 1 .. n : Signed(ins[k])
  <2>1. \A k \in SignedSet(ins) : Signed(ins[k])
    BY DEF SignedSet
  <2> QED BY <1>2, <1>3, <2>1
<1>6. (\A k \in 1 .. n : Signed(ins[k])) => SignedSet(ins) = 1 .. n
  BY DEF SignedSet
<1> QED BY <1>2, <1>3, <1>4, <1>5, <1>6

(* A frozen checkpoint has inputs, and no signature.                        *)
LEMMA InitInv == Init => IInv /\ \A k \in DOMAIN input : SignedBy(input[k]) = {}
<1> SUFFICES ASSUME Init PROVE IInv /\ \A k \in DOMAIN input : SignedBy(input[k]) = {}
  OBVIOUS
<1>0. PICK n \in 1 .. MaxInputs : \E S \in [1 .. n -> (SUBSET Signers) \ {{}}] :
        input = [k \in 1 .. n |-> FromSigset(S[k])]
  BY DEF Init
<1>1. PICK S \in [1 .. n -> (SUBSET Signers) \ {{}}] :
        input = [k \in 1 .. n |-> FromSigset(S[k])]
  BY <1>0
<1>2. n \in Nat /\ n > 0
  BY SigningAssumption
<1>3. Len(input) = n /\ DOMAIN input = 1 .. n /\ \A k \in 1 .. n : input[k] = FromSigset(S[k])
  BY <1>1, <1>2
<1>4. ASSUME NEW k \in 1 .. n
      PROVE  ShareOK(input[k]) /\ SignedBy(input[k]) = {} /\ ~Signed(input[k])
  <2>1. S[k] \subseteq Signers
    BY <1>1
  <2> QED BY <1>3, <2>1, FreshShare
<1>5. InputsOK
  BY <1>1, <1>2, <1>3, <1>4 DEF InputsOK
<1>6. Together
  BY <1>3, <1>4 DEF Together
<1>7. SignedSet(input) = {}
  BY <1>3, <1>4 DEF SignedSet
<1>8. Counters
  <2>1. Cardinality(SignedSet(input)) = 0
    BY <1>7, FS_EmptySet
  <2>2. signedInputs = 0 /\ signedTxs = 0 /\ status = "Signing"
    BY DEF Init
  <2> QED BY <1>2, <1>3, <2>1, <2>2 DEF Counters
<1> QED BY <1>3, <1>4, <1>5, <1>6, <1>8 DEF IInv

(* A submission that is accepted signs all inputs that want it.             *)
LEMMA SubmitParts ==
    ASSUME IInv, NEW s \in Signers, NEW sigs, NEW height,
           SubmitCheckpointSignature(s, sigs, height)
    PROVE  /\ input' = AfterShares(s, Len(input))
           /\ signedInputs' = Cardinality(SignedSet(input'))
           /\ Len(input') = Len(input) /\ DOMAIN input' = DOMAIN input
           /\ input' = [k \in 1 .. Len(input) |-> input'[k]]
           /\ \A k \in DOMAIN input :
                input'[k] = IF ShareNeeded(input[k], s) THEN AddShare(input[k], s) ELSE input[k]
<1>1. InputsOK /\ Counters
  BY DEF IInv
<1>2. Loop(Applied(s, sigs), s, Len(input))
  BY <1>1, AppliedLoop
<1>3. /\ Applied(s, sigs).ok
      /\ input' = Applied(s, sigs).input
      /\ signedInputs' = Applied(s, sigs).signedInputs
  BY DEF SubmitCheckpointSignature
<1>4. input' = AfterShares(s, Len(input)) /\ signedInputs' = Cardinality(SignedSet(input'))
  BY <1>2, <1>3 DEF Loop
<1>5. Len(input) \in Nat /\ DOMAIN input = 1 .. Len(input)
  BY <1>1 DEF InputsOK
<1>6. \A k \in DOMAIN input :
        input'[k] = IF ShareNeeded(input[k], s) THEN AddShare(input[k], s) ELSE input[k]
  BY <1>4, <1>5 DEF AfterShares
<1>7. Len(input') = Len(input) /\ DOMAIN input' = DOMAIN input
      /\ input' = [k \in 1 .. Len(input) |-> input'[k]]
  BY <1>4, <1>5 DEF AfterShares
<1> QED BY <1>4, <1>6, <1>7

(* Who has signed after it.                                                 *)
LEMMA SubmitSigned ==
    ASSUME IInv, NEW s \in Signers, NEW sigs, NEW height,
           SubmitCheckpointSignature(s, sigs, height), NEW k \in DOMAIN input
    PROVE  /\ ShareOK(input[k]) /\ ShareOK(input'[k])
           /\ DOMAIN input'[k].sigs = DOMAIN input[k].sigs
           /\ SignedBy(input'[k]) = SignedBy(input[k]) \cup ({s} \cap DOMAIN input[k].sigs)
           /\ Signed(input[k]) => Signed(input'[k])
<1>1. ShareOK(input[k])
  BY DEF IInv, InputsOK
<1>2. input'[k] = IF ShareNeeded(input[k], s) THEN AddShare(input[k], s) ELSE input[k]
  BY SubmitParts
<1>3. CASE ShareNeeded(input[k], s)
  <2>1. s \in DOMAIN input[k].sigs
    BY <1>3 DEF ShareNeeded
  <2>2. /\ ShareOK(AddShare(input[k], s))
        /\ SignedBy(AddShare(input[k], s)) = SignedBy(input[k]) \cup {s}
        /\ DOMAIN AddShare(input[k], s).sigs = DOMAIN input[k].sigs
        /\ Signed(input[k]) => Signed(AddShare(input[k], s))
    BY <1>1, <1>3, AddShareOK
  <2>3. input'[k] = AddShare(input[k], s)
    BY <1>2, <1>3
  <2> QED BY <1>1, <2>1, <2>2, <2>3
<1>4. CASE ~ShareNeeded(input[k], s)
  <2>1. input'[k] = input[k]
    BY <1>2, <1>4
  <2>2. s \in DOMAIN input[k].sigs => s \in SignedBy(input[k])
    BY <1>4 DEF ShareNeeded, SignedBy
  <2> QED BY <1>1, <2>1, <2>2
<1> QED BY <1>3, <1>4

(* The batch's counter and the status, and the height that is recorded.     *)
LEMMA SubmitCounters ==
    ASSUME IInv, NEW s \in Signers, NEW sigs, NEW height,
           SubmitCheckpointSignature(s, sigs, height)
    PROVE  /\ Counters'
           /\ signedAt' = IF signedTxs' = 1 /\ signedTxs # 1 THEN {height} ELSE signedAt
           /\ signedTxs = 1 => signedTxs' = 1
<1>1. InputsOK /\ Counters
  BY DEF IInv
<1> DEFINE n == Len(input)
<1>2. /\ n \in Nat /\ DOMAIN input = 1 .. n
      /\ signedInputs = Cardinality(SignedSet(input))
      /\ signedTxs = IF signedInputs = n THEN 1 ELSE 0
      /\ status = IF signedTxs = 1 THEN "Complete" ELSE "Signing"
  BY <1>1 DEF InputsOK, Counters
<1>3. /\ signedInputs' = Cardinality(SignedSet(input'))
      /\ Len(input') = n /\ DOMAIN input' = 1 .. n
  BY <1>2, SubmitParts
<1>4. /\ signedInputs = n <=> \A k \in 1 .. n : Signed(input[k])
      /\ signedInputs' = n <=> \A k \in 1 .. n : Signed(input'[k])
  BY <1>2, <1>3, AllSigned
<1>5. signedInputs = n => signedInputs' = n
  <2>1. \A k \in 1 .. n : Signed(input[k]) => Signed(input'[k])
    BY <1>2, SubmitSigned
  <2> QED BY <1>4, <2>1
<1>6. /\ signedTxs' = IF signedInputs # n /\ signedInputs' = n THEN signedTxs + 1 ELSE signedTxs
      /\ signedAt' = IF signedTxs' = 1 /\ signedTxs # 1 THEN {height} ELSE signedAt
      /\ status' = IF status = "Signing" /\ signedTxs' = 1 THEN "Complete" ELSE status
  BY DEF SubmitCheckpointSignature, TxComplete, CheckpointSigned
<1> HIDE DEF n
<1>7. signedTxs' = IF signedInputs' = n THEN 1 ELSE 0
  BY <1>2, <1>5, <1>6
<1>8. status' = IF signedTxs' = 1 THEN "Complete" ELSE "Signing"
  BY <1>2, <1>5, <1>6, <1>7
<1>9. Counters'
  BY <1>3, <1>7, <1>8 DEF Counters, n
<1> QED BY <1>2, <1>5, <1>6, <1>7, <1>9

(* Every step keeps the invariant.                                          *)
LEMMA NextInv == IInv /\ [Next]_vars => IInv'
<1> SUFFICES ASSUME IInv, [Next]_vars PROVE IInv'
  OBVIOUS
<1>1. CASE UNCHANGED vars
  BY <1>1 DEF vars, IInv, InputsOK, Together, Counters
<1>2. CASE Next
  <2>1. PICK s \in Signers, sigs \in Submissions, height \in Heights :
          SubmitCheckpointSignature(s, sigs, height)
    BY <1>2 DEF Next
  <2>2. /\ Len(input') = Len(input) /\ DOMAIN input' = DOMAIN input
        /\ input' = [k \in 1 .. Len(input) |-> input'[k]]
    BY <2>1, SubmitParts
  <2>3. \A k \in DOMAIN input :
          /\ ShareOK(input'[k]) /\ DOMAIN input'[k].sigs = DOMAIN input[k].sigs
          /\ SignedBy(input'[k]) = SignedBy(input[k]) \cup ({s} \cap DOMAIN input[k].sigs)
    BY <2>1, SubmitSigned
  <2>4. InputsOK'
    BY <2>2, <2>3 DEF IInv, InputsOK
  <2>5. Together'
    <3>1. ASSUME NEW j \in DOMAIN input, NEW k \in DOMAIN input, NEW t \in SignedBy(input'[j]),
                 t \in DOMAIN input'[k].sigs
          PROVE  t \in SignedBy(input'[k])
      BY <2>3, <3>1 DEF IInv, Together
    <3> QED BY <2>2, <3>1 DEF Together
  <2>6. Counters'
    BY <2>1, SubmitCounters
  <2> QED BY <2>4, <2>5, <2>6 DEF IInv
<1> QED BY <1>1, <1>2

(* A submission is applied to every input that wants it, or to none: the    *)
(* loop of Checkpoint::sign fails as a whole when one signature is missing. *)
THEOREM AllOrNothingHolds == Spec => []AllOrNothing
<1>1. IInv => AllOrNothing
  <2> SUFFICES ASSUME IInv, NEW s \in Signers, NEW j \in DOMAIN input, s \in SignedBy(input[j]),
                      NEW k \in DOMAIN input, ShareNeeded(input[k], s)
               PROVE  FALSE
    BY DEF AllOrNothing, ToSign
  <2>1. s \in DOMAIN input[k].sigs /\ ~input[k].sigs[s]
    BY DEF ShareNeeded
  <2>2. s \in SignedBy(input[k])
    BY <2>1 DEF IInv, Together
  <2> QED BY <2>1, <2>2 DEF SignedBy
<1> QED BY <1>1, InitInv, NextInv, PTL DEF Spec

-----------------------------------------------------------------------------
(* Refinement.                                                              *)

(* The variables of the abstract specification.                             *)
AbsInputs == [k \in DOMAIN input |-> [signatories |-> DOMAIN input[k].sigs]]
AbsSigs   == UNION {SignedBy(input[k]) : k \in DOMAIN input}

(* Its rule is that of ThresholdRule.                                       *)
LEMMA SameTotal ==
    ASSUME NEW S
    PROVE  Abstract!TotalPower(S) = TotalPower(S)
BY DEF Abstract!TotalPower, Abstract!SumFunction, Abstract!SumFunctionOnSet,
       Abstract!FoldFunctionOnSet, Abstract!MapThenFoldSet,
       TotalPower, SumFunction, SumFunctionOnSet, FoldFunctionOnSet, MapThenFoldSet

(* An input is signed by that rule when the power counted says so.          *)
LEMMA SameInputSigned ==
    ASSUME IInv, NEW k \in DOMAIN input
    PROVE  Abstract!InputSigned(AbsInputs[k], AbsSigs) <=> Signed(input[k])
<1>1. ShareOK(input[k])
  BY DEF IInv, InputsOK
<1>2. AbsInputs[k].signatories = DOMAIN input[k].sigs
  BY DEF AbsInputs
<1>3. DOMAIN input[k].sigs \cap AbsSigs = SignedBy(input[k])
  <2>1. SignedBy(input[k]) \subseteq DOMAIN input[k].sigs
    BY DEF SignedBy
  <2>2. ASSUME NEW s \in AbsSigs, s \in DOMAIN input[k].sigs PROVE s \in SignedBy(input[k])
    <3>1. PICK j \in DOMAIN input : s \in SignedBy(input[j])
      BY DEF AbsSigs
    <3> QED BY <2>2, <3>1 DEF IInv, Together
  <2> QED BY <2>1, <2>2 DEF AbsSigs
<1>4. Abstract!InputSigned(AbsInputs[k], AbsSigs) <=>
        TotalPower(SignedBy(input[k])) > SignatureThreshold(DOMAIN input[k].sigs)
  BY <1>2, <1>3, SameTotal
     DEF Abstract!InputSigned, Abstract!SignatureThreshold, SignatureThreshold
<1> QED BY <1>1, <1>4 DEF ShareOK, Signed

(* The transaction is signed by that rule when the counters say so.         *)
LEMMA SameTxSigned == IInv => (Abstract!TxSigned(AbsInputs, AbsSigs) <=> signedTxs = 1)
<1> SUFFICES ASSUME IInv PROVE Abstract!TxSigned(AbsInputs, AbsSigs) <=> signedTxs = 1
  OBVIOUS
<1>1. /\ Len(input) \in Nat /\ DOMAIN input = 1 .. Len(input)
      /\ signedInputs = Cardinality(SignedSet(input))
      /\ signedTxs = IF signedInputs = Len(input) THEN 1 ELSE 0
  BY DEF IInv, InputsOK, Counters
<1>2. signedInputs = Len(input) <=> \A k \in DOMAIN input : Signed(input[k])
  BY <1>1, AllSigned
<1>3. DOMAIN AbsInputs = DOMAIN input
  BY DEF AbsInputs
<1>4. Abstract!TxSigned(AbsInputs, AbsSigs) <=>
        \A k \in DOMAIN input : Abstract!InputSigned(AbsInputs[k], AbsSigs)
  BY <1>3 DEF Abstract!TxSigned
<1>5. \A k \in DOMAIN input : Abstract!InputSigned(AbsInputs[k], AbsSigs) <=> Signed(input[k])
  BY SameInputSigned
<1> QED BY <1>1, <1>2, <1>4, <1>5

(* A submission leaves the abstract state alone, or is one Sign step.       *)
LEMMA SubmitRefines ==
    ASSUME IInv, IInv', NEW s \in Signers, NEW sigs, NEW height \in Heights,
           SubmitCheckpointSignature(s, sigs, height)
    PROVE  \/ Abstract!Sign(s, height)
           \/ UNCHANGED <<AbsInputs, AbsSigs, status, signedAt>>
<1>1. DOMAIN input' = DOMAIN input
  BY SubmitParts
<1>2. \A k \in DOMAIN input :
        /\ DOMAIN input'[k].sigs = DOMAIN input[k].sigs
        /\ SignedBy(input'[k]) = SignedBy(input[k]) \cup ({s} \cap DOMAIN input[k].sigs)
  BY SubmitSigned
<1>3. AbsInputs' = AbsInputs
  BY <1>1, <1>2 DEF AbsInputs
<1>4. /\ status = IF signedTxs = 1 THEN "Complete" ELSE "Signing"
      /\ status' = IF signedTxs' = 1 THEN "Complete" ELSE "Signing"
  BY DEF IInv, Counters
<1>5. /\ signedAt' = IF signedTxs' = 1 /\ signedTxs # 1 THEN {height} ELSE signedAt
      /\ signedTxs = 1 => signedTxs' = 1
  BY SubmitCounters
<1>6. CASE \A k \in DOMAIN input : ~ShareNeeded(input[k], s)
  <2>1. \A k \in DOMAIN input : input'[k] = input[k]
    BY <1>6, SubmitParts
  <2>2. input' = input
    BY <1>1, <2>1, SubmitParts DEF IInv, InputsOK
  <2>3. signedTxs' = signedTxs
    BY <2>2 DEF IInv, Counters
  <2>4. UNCHANGED <<AbsSigs, status, signedAt>>
    BY <1>4, <1>5, <2>2, <2>3 DEF AbsSigs
  <2> QED BY <1>3, <2>4
<1>7. CASE \E k \in DOMAIN input : ShareNeeded(input[k], s)
  <2>1. PICK k \in DOMAIN input : s \in DOMAIN input[k].sigs /\ s \notin SignedBy(input[k])
    BY <1>7 DEF ShareNeeded, SignedBy
  <2>2. s \notin AbsSigs
    BY <2>1 DEF AbsSigs, IInv, Together
  <2>3. Abstract!NeedsSig(AbsInputs, AbsSigs, s)
    <3>1. AbsInputs[k].signatories = DOMAIN input[k].sigs /\ k \in DOMAIN AbsInputs
      BY DEF AbsInputs
    <3> QED BY <2>1, <2>2, <3>1 DEF Abstract!NeedsSig
  <2>4. AbsSigs' = AbsSigs \cup {s}
    <3>1. AbsSigs' = UNION {SignedBy(input'[j]) : j \in DOMAIN input}
      BY <1>1 DEF AbsSigs
    <3> QED BY <1>2, <2>1, <3>1 DEF AbsSigs
  <2>5. Abstract!TxSigned(AbsInputs, AbsSigs) <=> signedTxs = 1
    BY SameTxSigned
  <2>6. (Abstract!TxSigned(AbsInputs, AbsSigs))' <=> signedTxs' = 1
    <3>1. (Abstract!TxSigned(AbsInputs, AbsSigs) <=> signedTxs = 1)'
      BY SameTxSigned, PTL
    <3> QED BY <3>1
  <2>7. Abstract!TxSigned(AbsInputs, AbsSigs') <=> signedTxs' = 1
    BY <1>3, <2>6
  <2>8. IF Abstract!TxSigned(AbsInputs, AbsSigs') /\ ~Abstract!TxSigned(AbsInputs, AbsSigs)
        THEN status' = "Complete" /\ signedAt' = {height}
        ELSE UNCHANGED <<status, signedAt>>
    BY <1>4, <1>5, <2>5, <2>7
  <2>9. Abstract!Sign(s, height)
    BY <1>3, <2>3, <2>4, <2>8 DEF Abstract!Sign, AbsInputs, AbsSigs
  <2> QED BY <2>9
<1> QED BY <1>6, <1>7

(* The counters implement the rule over sets: a checkpoint completes, and   *)
(* the height is recorded, in the very step in which every input passes its *)
(* threshold, and neither over-signing nor an empty submission changes      *)
(* either (Checkpoint::sign, CheckpointQueue::sign).                        *)
THEOREM CountersImplementRule == Spec => ImplementsRule
<1>1. Init => Abstract!Init
  <2> SUFFICES ASSUME Init PROVE Abstract!Init
    OBVIOUS
  <2>1. IInv /\ \A k \in DOMAIN input : SignedBy(input[k]) = {}
    BY InitInv
  <2>2. \A k \in DOMAIN input : DOMAIN input[k].sigs \subseteq Signers
    BY <2>1 DEF IInv, InputsOK, ShareOK
  <2>3. \A k \in DOMAIN AbsInputs : AbsInputs[k].signatories \subseteq Signers
    BY <2>2 DEF AbsInputs
  <2>4. AbsSigs = {}
    BY <2>1 DEF AbsSigs
  <2> QED BY <2>3, <2>4 DEF Abstract!Init, AbsInputs, AbsSigs, Init
<1>2. IInv /\ IInv' /\ [Next]_vars => [Abstract!Next]_(Abstract!vars)
  <2> SUFFICES ASSUME IInv, IInv', [Next]_vars PROVE [Abstract!Next]_(Abstract!vars)
    OBVIOUS
  <2>1. ASSUME UNCHANGED <<AbsInputs, AbsSigs, status, signedAt>>
        PROVE  UNCHANGED Abstract!vars
    BY <2>1 DEF Abstract!vars, AbsInputs, AbsSigs
  <2>2. CASE UNCHANGED vars
    <3>1. UNCHANGED <<AbsInputs, AbsSigs, status, signedAt>>
      BY <2>2 DEF vars, AbsInputs, AbsSigs
    <3> QED BY <2>1, <3>1
  <2>3. CASE Next
    <3>1. PICK s \in Signers, sigs \in Submissions, height \in Heights :
            SubmitCheckpointSignature(s, sigs, height)
      BY <2>3 DEF Next
    <3>2. Abstract!Sign(s, height) \/ UNCHANGED <<AbsInputs, AbsSigs, status, signedAt>>
      BY <3>1, SubmitRefines
    <3>3. Abstract!Sign(s, height) => Abstract!Next
      BY DEF Abstract!Next
    <3> QED BY <2>1, <3>2, <3>3
  <2> QED BY <2>2, <2>3
<1> QED BY <1>1, <1>2, InitInv, NextInv, PTL DEF Spec, ImplementsRule, Abstract!Spec

-----------------------------------------------------------------------------
(* Bitcoin's stack machine.                                                 *)

(* What may lie on the stack.                                               *)
Items ==
    {Signature(s) : s \in Signers} \cup {Key(s) : s \in Signers}
        \cup {Number(n) : n \in Int} \cup {NoSignature, Data(Dest)}

(* A running script: its stack, and whether its branch is taken.            *)
Going(stack, live) == [stack |-> stack, live |-> live, ok |-> TRUE]

(* Two items on top of a stack.                                             *)
Pushed2(r, b, a) == Append(Append(r, b), a)

(* The top of a stack and the one below it.                                 *)
LEMMA Tops ==
    ASSUME NEW r \in Seq(Items), NEW b \in Items, NEW a \in Items
    PROVE  /\ Append(r, a) \in Seq(Items) /\ Len(Append(r, a)) >= 1
           /\ Top(Append(r, a), 1) = a
           /\ Pushed2(r, b, a) \in Seq(Items) /\ Len(Pushed2(r, b, a)) >= 2
           /\ Top(Pushed2(r, b, a), 1) = a
           /\ Top(Pushed2(r, b, a), 2) = b
<1> DEFINE m == Append(r, b)
           p == Append(m, a)
           n == Len(r)
<1>1. n \in Nat /\ DOMAIN r = 1 .. n
  OBVIOUS
<1>2. m \in Seq(Items) /\ Len(m) = n + 1 /\ m[n + 1] = b
  BY AppendProperties
<1>3. Append(r, a) \in Seq(Items) /\ Len(Append(r, a)) = n + 1 /\ Append(r, a)[n + 1] = a
  BY AppendProperties
<1> HIDE DEF m, n
<1>4. p \in Seq(Items) /\ Len(p) = n + 2 /\ p[n + 2] = a /\ p[n + 1] = m[n + 1]
  BY <1>1, <1>2, AppendProperties
<1>5. p = Pushed2(r, b, a)
  BY DEF Pushed2, m
<1> HIDE DEF p
<1>6. Top(p, 1) = a /\ Top(p, 2) = b
  BY <1>1, <1>2, <1>4 DEF Top
<1>7. Top(Append(r, a), 1) = a
  BY <1>1, <1>3 DEF Top
<1> QED BY <1>1, <1>3, <1>4, <1>5, <1>6, <1>7

(* Pushing one or two items is appending them.                              *)
LEMMA Pushing ==
    ASSUME NEW r \in Seq(Items), NEW b \in Items, NEW a \in Items
    PROVE  r \o <<>> = r /\ r \o <<a>> = Append(r, a) /\ r \o <<b, a>> = Pushed2(r, b, a)
<1>1. r \o <<a>> = Append(r, a) /\ r \o <<b>> = Append(r, b)
  BY AppendIsConcat
<1>2. Append(r, b) \in Seq(Items)
  OBVIOUS
<1>3. Append(r, b) \o <<a>> = Pushed2(r, b, a)
  BY <1>2, AppendIsConcat DEF Pushed2
<1>4. (r \o <<b>>) \o <<a>> = r \o (<<b>> \o <<a>>)
  <2>1. <<b>> \in Seq(Items) /\ <<a>> \in Seq(Items)
    OBVIOUS
  <2> QED BY <2>1, ConcatAssociative
<1>5. <<b>> \o <<a>> = <<b, a>>
  <2>1. <<b>> \in Seq(Items) /\ <<b, a>> \in Seq(Items)
    OBVIOUS
  <2>2. /\ Append(<<b>>, a) \in Seq(Items) /\ Len(Append(<<b>>, a)) = 2
        /\ Append(<<b>>, a)[1] = b /\ Append(<<b>>, a)[2] = a
    BY <2>1, AppendProperties
  <2>3. Len(<<b, a>>) = 2 /\ <<b, a>>[1] = b /\ <<b, a>>[2] = a
    OBVIOUS
  <2>4. \A i \in 1 .. 2 : Append(<<b>>, a)[i] = <<b, a>>[i]
    BY <2>2, <2>3
  <2>5. Append(<<b>>, a) = <<b, a>>
    BY <2>1, <2>2, <2>3, <2>4, SeqEqual
  <2> QED BY <2>1, <2>5, AppendIsConcat
<1>6. r \o <<>> = r
  OBVIOUS
<1> QED BY <1>1, <1>3, <1>4, <1>5, <1>6

(* Taking items off the top.                                                *)
LEMMA Popping ==
    ASSUME NEW r \in Seq(Items), NEW b \in Items, NEW a \in Items
    PROVE  /\ SubSeq(r, 1, Len(r) - 0) = r
           /\ SubSeq(Append(r, a), 1, Len(Append(r, a)) - 1) = r
           /\ SubSeq(Pushed2(r, b, a), 1, Len(Pushed2(r, b, a)) - 2) = r
<1> DEFINE m == Append(r, b)
           p == Append(m, a)
           q == Append(r, a)
           n == Len(r)
<1>1. n \in Nat /\ DOMAIN r = 1 .. n
  OBVIOUS
<1>2. m \in Seq(Items) /\ Len(m) = n + 1 /\ \A i \in 1 .. n : m[i] = r[i]
  BY AppendProperties
<1>3. q \in Seq(Items) /\ Len(q) = n + 1 /\ \A i \in 1 .. n : q[i] = r[i]
  BY AppendProperties
<1>4. SubSeq(r, 1, Len(r) - 0) = r
  OBVIOUS
<1> HIDE DEF m, n, q
<1>6. p \in Seq(Items) /\ Len(p) = n + 2 /\ \A i \in 1 .. (n + 1) : p[i] = m[i]
  BY <1>1, <1>2, AppendProperties
<1>7. SubSeq(q, 1, n) = r
  <2>1. SubSeq(q, 1, n) \in Seq(Items) /\ Len(SubSeq(q, 1, n)) = n
    BY <1>1, <1>3
  <2>2. \A i \in 1 .. n : SubSeq(q, 1, n)[i] = r[i]
    BY <1>1, <1>3
  <2> QED BY <1>1, <2>1, <2>2, SeqEqual DEF n
<1> HIDE DEF p
<1>8. SubSeq(p, 1, n) = r
  <2>1. SubSeq(p, 1, n) \in Seq(Items) /\ Len(SubSeq(p, 1, n)) = n
    BY <1>1, <1>6
  <2>2. \A i \in 1 .. n : SubSeq(p, 1, n)[i] = r[i]
    BY <1>1, <1>2, <1>6
  <2> QED BY <1>1, <2>1, <2>2, SeqEqual DEF n
<1>9. Len(q) - 1 = n /\ Len(p) - 2 = n
  BY <1>1, <1>3, <1>6
<1>10. p = Pushed2(r, b, a)
  BY DEF Pushed2, m, p
<1> QED BY <1>4, <1>7, <1>8, <1>9, <1>10 DEF q

-----------------------------------------------------------------------------
(* Its instructions.                                                        *)

(* Neither end of a branch.                                                 *)
Plain(ins) == ins[1] \notin {"OP_ENDIF", "OP_ELSE"}

(* A state with another stack, or another branch.                           *)
LEMMA OtherStack ==
    ASSUME NEW r, NEW q
    PROVE  /\ [Going(r, TRUE) EXCEPT !.stack = q] = Going(q, TRUE)
           /\ \A live : [Going(r, TRUE) EXCEPT !.live = live] = Going(r, live)
<1>1. PICK ok : ok = TRUE
  OBVIOUS
<1>2. [[stack |-> r, live |-> ok, ok |-> ok] EXCEPT !.stack = q]
        = [stack |-> q, live |-> ok, ok |-> ok]
  OBVIOUS
<1>3. ASSUME NEW live
      PROVE  [[stack |-> r, live |-> ok, ok |-> ok] EXCEPT !.live = live]
               = [stack |-> r, live |-> live, ok |-> ok]
  OBVIOUS
<1> QED BY <1>1, <1>2, <1>3, Zenon DEF Going

(* An instruction that is executed.                                         *)
LEMMA Executes ==
    ASSUME NEW r, NEW ins, Plain(ins), ~(Len(r) < Operands(ins))
    PROVE  Step(Going(r, TRUE), ins) = Execute(Going(r, TRUE), ins)
<1>1. Going(r, TRUE).live = TRUE /\ Going(r, TRUE).ok = TRUE /\ Going(r, TRUE).stack = r
  BY DEF Going
<1>2. ins[1] # "OP_ENDIF" /\ ins[1] # "OP_ELSE"
  BY DEF Plain
<1> QED BY <1>1, <1>2 DEF Step

(* One in a branch that is not taken.                                       *)
LEMMA Skips ==
    ASSUME NEW r, NEW ins, Plain(ins)
    PROVE  Step(Going(r, FALSE), ins) = Going(r, FALSE)
  BY DEF Step, Going, Plain

(* The ends of branches.                                                    *)
LEMMA Branches ==
    ASSUME NEW r, NEW live \in BOOLEAN
    PROVE  /\ Step(Going(r, live), Op("OP_ENDIF")) = Going(r, TRUE)
           /\ Step(Going(r, live), Op("OP_ELSE")) = Going(r, ~live)
  BY DEF Step, Going, Op

(* A push.                                                                  *)
LEMMA Pushes ==
    ASSUME NEW r \in Seq(Items)
    PROVE  /\ \A k : Key(k) \in Items =>
                Step(Going(r, TRUE), Key(k)) = Going(Append(r, Key(k)), TRUE)
           /\ \A n \in Int : Step(Going(r, TRUE), PushInt(n)) = Going(Append(r, Number(n)), TRUE)
           /\ Step(Going(r, TRUE), Data(Dest)) = Going(Append(r, Data(Dest)), TRUE)
<1>1. Len(r) \in Nat
  OBVIOUS
<1>2. ASSUME NEW ins, NEW i \in Items, ins[1] \in {"key", "number", "data"}, i = ins
      PROVE  Step(Going(r, TRUE), ins) = Going(Append(r, i), TRUE)
  <2>1. Operands(ins) = 0 /\ Plain(ins)
    BY <1>2 DEF Operands, Plain
  <2>2. Step(Going(r, TRUE), ins) = Execute(Going(r, TRUE), ins)
    <3>1. ~(Len(r) < Operands(ins))
      BY <1>1, <2>1
    <3> QED BY <2>1, <3>1, Executes
  <2>3. Replaced(r, 0, <<i>>) = Append(r, i)
    BY Popping, Pushing DEF Replaced
  <2>4. Execute(Going(r, TRUE), ins) = [Going(r, TRUE) EXCEPT !.stack = Replaced(@, 0, <<ins>>)]
    BY <1>2, <2>1 DEF Execute
  <2> QED BY <1>2, <2>2, <2>3, <2>4 DEF Going
<1>3. ASSUME NEW k, Key(k) \in Items
      PROVE  Step(Going(r, TRUE), Key(k)) = Going(Append(r, Key(k)), TRUE)
  <2>1. Key(k)[1] = "key"
    BY DEF Key
  <2> QED BY <1>2, <1>3, <2>1
<1>4. Step(Going(r, TRUE), Data(Dest)) = Going(Append(r, Data(Dest)), TRUE)
  <2>1. Data(Dest)[1] = "data" /\ Data(Dest) \in Items
    BY DEF Data, Items
  <2> QED BY <1>2, <2>1
<1>5. ASSUME NEW n \in Int
      PROVE  Step(Going(r, TRUE), PushInt(n)) = Going(Append(r, Number(n)), TRUE)
  <2>1. Number(n)[1] = "number" /\ Number(n) \in Items
    BY DEF Number, Items
  <2>2. CASE PushInt(n) = Number(n)
    BY <1>2, <2>1, <2>2
  <2>3. CASE PushInt(n) = <<"OP_PUSHNUM", n>>
    <3> DEFINE ins == <<"OP_PUSHNUM", n>>
    <3>1. ins[1] = "OP_PUSHNUM" /\ ins[2] = n
      OBVIOUS
    <3> HIDE DEF ins
    <3>2. Operands(ins) = 0 /\ Plain(ins)
      BY <3>1 DEF Operands, Plain
    <3>3. Step(Going(r, TRUE), ins) = Execute(Going(r, TRUE), ins)
      <4>1. ~(Len(r) < Operands(ins))
        BY <1>1, <3>2
      <4> QED BY <3>2, <4>1, Executes
    <3>4. Replaced(r, 0, <<Number(n)>>) = Append(r, Number(n))
      BY <2>1, Popping, Pushing DEF Replaced
    <3>5. Execute(Going(r, TRUE), ins)
            = [Going(r, TRUE) EXCEPT !.stack = Replaced(@, 0, <<Number(n)>>)]
      BY <3>1, <3>2 DEF Execute
    <3> QED BY <2>3, <3>3, <3>4, <3>5 DEF Going, ins
  <2> QED BY <2>2, <2>3 DEF PushInt
<1> QED BY <1>3, <1>4, <1>5

(* The opcodes that take two operands.                                      *)
LEMMA TakesTwo ==
    ASSUME NEW r \in Seq(Items), NEW b \in Items, NEW a \in Items, NEW ins, Operands(ins) = 2,
           Plain(ins)
    PROVE  /\ Step(Going(Pushed2(r, b, a), TRUE), ins) = Execute(Going(Pushed2(r, b, a), TRUE), ins)
           /\ \A x \in Items : Replaced(Pushed2(r, b, a), 2, <<x>>) = Append(r, x)
           /\ Replaced(Pushed2(r, b, a), 2, <<a, b>>) = Pushed2(r, a, b)
<1>1. Len(Pushed2(r, b, a)) >= 2 /\ Len(Pushed2(r, b, a)) \in Nat
  BY Tops
<1>2. Step(Going(Pushed2(r, b, a), TRUE), ins) = Execute(Going(Pushed2(r, b, a), TRUE), ins)
  <2>1. ~(Len(Pushed2(r, b, a)) < Operands(ins))
    BY <1>1
  <2> QED BY <2>1, Executes
<1>3. SubSeq(Pushed2(r, b, a), 1, Len(Pushed2(r, b, a)) - 2) = r
  BY Popping
<1>4. \A x \in Items : Replaced(Pushed2(r, b, a), 2, <<x>>) = Append(r, x)
  BY <1>3, Pushing DEF Replaced
<1>5. Replaced(Pushed2(r, b, a), 2, <<a, b>>) = Pushed2(r, a, b)
  <2>1. r \o <<a, b>> = Pushed2(r, a, b)
    BY Pushing
  <2> QED BY <1>3, <2>1, Zenon DEF Replaced
<1> QED BY <1>2, <1>4, <1>5

(* Numbers are items.                                                       *)
LEMMA NumberItem ==
    /\ \A n \in Int : Number(n) \in Items /\ Number(n)[2] = n
    /\ \A c \in BOOLEAN : Truth(c) \in Items
  BY DEF Number, Truth, Items

(* Whether a signature verifies with a key.                                 *)
Checked(b, k) == Truth(b = Signature(k))

(* OP_CHECKSIG, OP_SWAP, OP_ADD and OP_GREATERTHAN.                         *)
LEMMA OnTwo ==
    ASSUME NEW r \in Seq(Items), NEW b \in Items, NEW a \in Items
    PROVE  /\ Step(Going(Pushed2(r, b, a), TRUE), Op("OP_CHECKSIG"))
                = Going(Append(r, Checked(b, a[2])), TRUE)
           /\ Step(Going(Pushed2(r, b, a), TRUE), Op("OP_SWAP")) = Going(Pushed2(r, a, b), TRUE)
           /\ a[2] \in Int /\ b[2] \in Int =>
                /\ Step(Going(Pushed2(r, b, a), TRUE), Op("OP_ADD"))
                     = Going(Append(r, Number(b[2] + a[2])), TRUE)
                /\ Step(Going(Pushed2(r, b, a), TRUE), Op("OP_GREATERTHAN"))
                     = Going(Append(r, Truth(b[2] > a[2])), TRUE)
<1> DEFINE p == Pushed2(r, b, a)
<1>1. Top(p, 1) = a /\ Top(p, 2) = b
  BY Tops
<1>2. ASSUME NEW ins, Operands(ins) = 2, Plain(ins)
      PROVE  /\ Step(Going(p, TRUE), ins) = Execute(Going(p, TRUE), ins)
             /\ \A x \in Items : Replaced(p, 2, <<x>>) = Append(r, x)
             /\ Replaced(p, 2, <<a, b>>) = Pushed2(r, a, b)
  BY <1>2, TakesTwo
<1> HIDE DEF p
<1>3. Going(p, TRUE).stack = p
  BY DEF Going
<1>4. Step(Going(p, TRUE), Op("OP_CHECKSIG")) = Going(Append(r, Checked(b, a[2])), TRUE)
  <2>1. PICK ins : ins = Op("OP_CHECKSIG")
    OBVIOUS
  <2>2. ins[1] = "OP_CHECKSIG"
    BY <2>1 DEF Op
  <2>3. Operands(ins) = 2 /\ Plain(ins)
    BY <2>2 DEF Operands, Plain
  <2>4. PICK x : x = Checked(b, a[2])
    OBVIOUS
  <2>5. x \in Items
    BY <2>4, NumberItem DEF Checked, Truth
  <2>6. Execute(Going(p, TRUE), ins) = [Going(p, TRUE) EXCEPT !.stack = Replaced(p, 2, <<x>>)]
    BY <1>1, <1>3, <2>2, <2>3, <2>4 DEF Execute, Checked
  <2>7. Step(Going(p, TRUE), ins) = [Going(p, TRUE) EXCEPT !.stack = Append(r, x)]
    BY <1>2, <2>3, <2>5, <2>6
  <2> QED BY <2>1, <2>4, <2>7, OtherStack, Zenon
<1>5. Step(Going(p, TRUE), Op("OP_SWAP")) = Going(Pushed2(r, a, b), TRUE)
  <2>1. PICK ins : ins = Op("OP_SWAP")
    OBVIOUS
  <2>2. ins[1] = "OP_SWAP"
    BY <2>1 DEF Op
  <2>3. Operands(ins) = 2 /\ Plain(ins)
    BY <2>2 DEF Operands, Plain
  <2>4. Execute(Going(p, TRUE), ins) = [Going(p, TRUE) EXCEPT !.stack = Replaced(p, 2, <<a, b>>)]
    BY <1>1, <1>3, <2>2, <2>3 DEF Execute
  <2>5. Step(Going(p, TRUE), ins) = [Going(p, TRUE) EXCEPT !.stack = Pushed2(r, a, b)]
    BY <1>2, <2>3, <2>4
  <2> QED BY <2>1, <2>5, OtherStack
<1>6. ASSUME a[2] \in Int, b[2] \in Int
      PROVE  Step(Going(p, TRUE), Op("OP_ADD")) = Going(Append(r, Number(b[2] + a[2])), TRUE)
  <2>1. PICK ins : ins = Op("OP_ADD")
    OBVIOUS
  <2>2. ins[1] = "OP_ADD"
    BY <2>1 DEF Op
  <2>3. Operands(ins) = 2 /\ Plain(ins)
    BY <2>2 DEF Operands, Plain
  <2>4. PICK x : x = Number(b[2] + a[2])
    OBVIOUS
  <2>5. x \in Items
    BY <1>6, <2>4, NumberItem
  <2>6. Execute(Going(p, TRUE), ins) = [Going(p, TRUE) EXCEPT !.stack = Replaced(p, 2, <<x>>)]
    BY <1>1, <1>3, <2>2, <2>3, <2>4 DEF Execute
  <2>7. Step(Going(p, TRUE), ins) = [Going(p, TRUE) EXCEPT !.stack = Append(r, x)]
    BY <1>2, <2>3, <2>5, <2>6
  <2> QED BY <2>1, <2>4, <2>7, OtherStack
<1>7. Step(Going(p, TRUE), Op("OP_GREATERTHAN")) = Going(Append(r, Truth(b[2] > a[2])), TRUE)
  <2>1. PICK ins : ins = Op("OP_GREATERTHAN")
    OBVIOUS
  <2>2. ins[1] = "OP_GREATERTHAN"
    BY <2>1 DEF Op
  <2>3. Operands(ins) = 2 /\ Plain(ins)
    BY <2>2 DEF Operands, Plain
  <2>4. PICK x : x = Truth(b[2] > a[2])
    OBVIOUS
  <2>5. x \in Items
    BY <2>4, NumberItem DEF Truth
  <2>6. Execute(Going(p, TRUE), ins) = [Going(p, TRUE) EXCEPT !.stack = Replaced(p, 2, <<x>>)]
    BY <1>1, <1>3, <2>2, <2>3, <2>4 DEF Execute
  <2>7. Step(Going(p, TRUE), ins) = [Going(p, TRUE) EXCEPT !.stack = Append(r, x)]
    BY <1>2, <2>3, <2>5, <2>6
  <2> QED BY <2>1, <2>4, <2>7, OtherStack
<1> QED BY <1>4, <1>5, <1>6, <1>7 DEF p

(* OP_IF and OP_DROP.                                                       *)
LEMMA OnOne ==
    ASSUME NEW r \in Seq(Items), NEW a \in Items
    PROVE  /\ Step(Going(Append(r, a), TRUE), Op("OP_IF")) = Going(r, a # Number(0))
           /\ Step(Going(Append(r, a), TRUE), Op("OP_DROP")) = Going(r, TRUE)
<1> DEFINE p == Append(r, a)
<1>1. Top(p, 1) = a /\ Len(p) >= 1 /\ Len(p) \in Nat
  BY Tops
<1>2. Replaced(p, 1, <<>>) = r
  BY Popping, Pushing DEF Replaced
<1> HIDE DEF p
<1>3. Going(p, TRUE).stack = p
  BY DEF Going
<1>4. ASSUME NEW ins, Operands(ins) = 1, Plain(ins)
      PROVE  Step(Going(p, TRUE), ins) = Execute(Going(p, TRUE), ins)
  <2>1. ~(Len(p) < Operands(ins))
    BY <1>1, <1>4
  <2> QED BY <1>4, <2>1, Executes
<1>5. Step(Going(p, TRUE), Op("OP_DROP")) = Going(r, TRUE)
  <2>1. PICK ins : ins = Op("OP_DROP")
    OBVIOUS
  <2>2. ins[1] = "OP_DROP"
    BY <2>1 DEF Op
  <2>3. Operands(ins) = 1 /\ Plain(ins)
    BY <2>2 DEF Operands, Plain
  <2>4. Execute(Going(p, TRUE), ins) = [Going(p, TRUE) EXCEPT !.stack = Replaced(p, 1, <<>>)]
    BY <1>1, <1>3, <2>2, <2>3 DEF Execute
  <2>5. Step(Going(p, TRUE), ins) = [Going(p, TRUE) EXCEPT !.stack = r]
    BY <1>2, <1>4, <2>3, <2>4
  <2> QED BY <2>1, <2>5, OtherStack
<1>6. Step(Going(p, TRUE), Op("OP_IF")) = Going(r, a # Number(0))
  <2>1. PICK ins : ins = Op("OP_IF")
    OBVIOUS
  <2>2. ins[1] = "OP_IF"
    BY <2>1 DEF Op
  <2>3. Operands(ins) = 1 /\ Plain(ins)
    BY <2>2 DEF Operands, Plain
  <2>4. PICK c : c = (a # Number(0))
    OBVIOUS
  <2>5. Execute(Going(p, TRUE), ins)
          = [[Going(p, TRUE) EXCEPT !.stack = Replaced(p, 1, <<>>)] EXCEPT !.live = a # Number(0)]
    BY <1>1, <1>3, <2>2, <2>3 DEF Execute
  <2>6. Step(Going(p, TRUE), ins) = [[Going(p, TRUE) EXCEPT !.stack = r] EXCEPT !.live = a # Number(0)]
    BY <1>2, <1>4, <2>3, <2>5
  <2>7. [Going(p, TRUE) EXCEPT !.stack = r] = Going(r, TRUE)
    BY OtherStack
  <2>8. [Going(r, TRUE) EXCEPT !.live = a # Number(0)] = Going(r, a # Number(0))
    BY OtherStack, Zenon
  <2> QED BY <2>1, <2>6, <2>7, <2>8, Zenon
<1> QED BY <1>5, <1>6 DEF p

-----------------------------------------------------------------------------
(* The clauses of the script.                                               *)

(* Seven instructions, from a state on.                                     *)
Seven(s, c) ==
    Step(Step(Step(Step(Step(Step(Step(s, c[1]), c[2]), c[3]), c[4]), c[5]), c[6]), c[7])

(* The clauses for a key and its truncated power, and the end for a         *)
(* threshold.                                                               *)
FirstOf(k, v) ==
    <<Key(k), Op("OP_CHECKSIG"), Op("OP_IF"), PushInt(v), Op("OP_ELSE"), OpFalse, Op("OP_ENDIF")>>

OtherOf(k, v) ==
    <<Op("OP_SWAP"), Key(k), Op("OP_CHECKSIG"), Op("OP_IF"), PushInt(v), Op("OP_ADD"), Op("OP_ENDIF")>>

EndOf(h) == <<PushInt(h), Op("OP_GREATERTHAN"), Data(Dest), Op("OP_DROP")>>

(* The power a clause adds for a witness element.                           *)
Worth(x, k, v) == IF x = Signature(k) THEN v ELSE 0

(* The opcodes, the pushes of keys and of numbers are plain.                *)
LEMMA PlainOnes ==
    /\ \A n : Plain(PushInt(n))
    /\ Plain(Op("OP_ADD"))
  BY DEF Plain, PushInt, Number, Op

(* What a clause does with the stack.                                       *)
FirstRuns(r, x, k, v) ==
    Seven(Going(Append(r, x), TRUE), FirstOf(k, v)) = Going(Append(r, Number(Worth(x, k, v))), TRUE)

OtherRuns(r, x, n, k, v) ==
    Seven(Going(Pushed2(r, x, Number(n)), TRUE), OtherOf(k, v))
      = Going(Append(r, Number(n + Worth(x, k, v))), TRUE)

(* The first clause makes a number of the topmost witness element.          *)
LEMMA FirstClause ==
    ASSUME NEW r \in Seq(Items), NEW x \in Items, NEW k \in Signers, NEW v \in Int
    PROVE  FirstRuns(r, x, k, v)
<1>0. PICK c, w : c = FirstOf(k, v) /\ w = Worth(x, k, v)
  OBVIOUS
<1> SUFFICES Seven(Going(Append(r, x), TRUE), c) = Going(Append(r, Number(w)), TRUE)
  BY <1>0 DEF FirstRuns
<1>1. /\ c[1] = Key(k) /\ c[2] = Op("OP_CHECKSIG") /\ c[3] = Op("OP_IF") /\ c[4] = PushInt(v)
      /\ c[5] = Op("OP_ELSE") /\ c[6] = OpFalse /\ c[7] = Op("OP_ENDIF")
  BY <1>0 DEF FirstOf
<1>2. Key(k) \in Items /\ Key(k)[2] = k
  BY DEF Key, Items
<1>3. Append(r, x) \in Seq(Items)
  OBVIOUS
<1>4. PICK t : t = Checked(x, k)
  OBVIOUS
<1>5. t \in Items
  BY <1>4, NumberItem DEF Checked, Truth
<1>6. Step(Going(Append(r, x), TRUE), c[1]) = Going(Pushed2(r, x, Key(k)), TRUE)
  BY <1>1, <1>2, <1>3, Pushes DEF Pushed2
<1>7. Step(Going(Pushed2(r, x, Key(k)), TRUE), c[2]) = Going(Append(r, t), TRUE)
  BY <1>1, <1>2, <1>4, OnTwo, Zenon
<1>8. Step(Going(Append(r, t), TRUE), c[3]) = Going(r, t # Number(0))
  BY <1>1, <1>5, OnOne
<1>9. CASE x = Signature(k)
  <2>1. (t # Number(0)) = TRUE
    BY <1>4, <1>9 DEF Checked, Truth, Number
  <2>2. Step(Going(r, TRUE), c[4]) = Going(Append(r, Number(v)), TRUE)
    BY <1>1, Pushes
  <2>3. Step(Going(Append(r, Number(v)), TRUE), c[5]) = Going(Append(r, Number(v)), FALSE)
    BY <1>1, Branches, Zenon
  <2>4. Step(Going(Append(r, Number(v)), FALSE), c[6]) = Going(Append(r, Number(v)), FALSE)
    BY <1>1, PlainOnes, Skips DEF OpFalse
  <2>5. Step(Going(Append(r, Number(v)), FALSE), c[7]) = Going(Append(r, Number(v)), TRUE)
    BY <1>1, Branches
  <2>6. w = v
    BY <1>0, <1>9 DEF Worth
  <2> QED BY <1>6, <1>7, <1>8, <2>1, <2>2, <2>3, <2>4, <2>5, <2>6, Zenon DEF Seven
<1>10. CASE x # Signature(k)
  <2>1. (t # Number(0)) = FALSE
    BY <1>4, <1>10 DEF Checked, Truth, Number
  <2>2. Step(Going(r, FALSE), c[4]) = Going(r, FALSE)
    BY <1>1, PlainOnes, Skips
  <2>3. Step(Going(r, FALSE), c[5]) = Going(r, TRUE)
    BY <1>1, Branches
  <2>4. Step(Going(r, TRUE), c[6]) = Going(Append(r, Number(0)), TRUE)
    <3>1. c[6] = PushInt(0)
      BY <1>1 DEF OpFalse
    <3>2. PICK z \in Int : z = 0
      OBVIOUS
    <3>3. Step(Going(r, TRUE), PushInt(z)) = Going(Append(r, Number(z)), TRUE)
      BY Pushes
    <3> QED BY <3>1, <3>2, <3>3
  <2>5. Step(Going(Append(r, Number(0)), TRUE), c[7]) = Going(Append(r, Number(0)), TRUE)
    BY <1>1, Branches
  <2>6. w = 0
    BY <1>0, <1>10 DEF Worth
  <2> QED BY <1>6, <1>7, <1>8, <2>1, <2>2, <2>3, <2>4, <2>5, <2>6, Zenon DEF Seven
<1> QED BY <1>9, <1>10

(* Each other one adds to it.                                               *)
LEMMA NextClause ==
    ASSUME NEW r \in Seq(Items), NEW x \in Items, NEW k \in Signers, NEW v \in Int, NEW n \in Int
    PROVE  OtherRuns(r, x, n, k, v)
<1>0. PICK c, a : c = OtherOf(k, v) /\ a = n + Worth(x, k, v)
  OBVIOUS
<1> SUFFICES Seven(Going(Pushed2(r, x, Number(n)), TRUE), c) = Going(Append(r, Number(a)), TRUE)
  BY <1>0 DEF OtherRuns
<1>1. /\ c[1] = Op("OP_SWAP") /\ c[2] = Key(k) /\ c[3] = Op("OP_CHECKSIG") /\ c[4] = Op("OP_IF")
      /\ c[5] = PushInt(v) /\ c[6] = Op("OP_ADD") /\ c[7] = Op("OP_ENDIF")
  BY <1>0 DEF OtherOf
<1>2. Key(k) \in Items /\ Key(k)[2] = k
  BY DEF Key, Items
<1>3. PICK m : m = Number(n)
  OBVIOUS
<1>4. m \in Items /\ m[2] = n
  BY <1>3, NumberItem
<1>5. PICK q : q = Append(r, m)
  OBVIOUS
<1>6. q \in Seq(Items) /\ Append(q, x) \in Seq(Items)
  BY <1>4, <1>5
<1>7. PICK t : t = Checked(x, k)
  OBVIOUS
<1>8. t \in Items
  BY <1>7, NumberItem DEF Checked, Truth
<1>9. Step(Going(Pushed2(r, x, m), TRUE), c[1]) = Going(Append(q, x), TRUE)
  <2>1. Step(Going(Pushed2(r, x, m), TRUE), Op("OP_SWAP")) = Going(Pushed2(r, m, x), TRUE)
    BY <1>4, OnTwo
  <2>2. Pushed2(r, m, x) = Append(q, x)
    BY <1>5 DEF Pushed2
  <2> QED BY <1>1, <2>1, <2>2
<1>10. Step(Going(Append(q, x), TRUE), c[2]) = Going(Pushed2(q, x, Key(k)), TRUE)
  BY <1>1, <1>2, <1>6, Pushes DEF Pushed2
<1>11. Step(Going(Pushed2(q, x, Key(k)), TRUE), c[3]) = Going(Append(q, t), TRUE)
  <2>1. Step(Going(Pushed2(q, x, Key(k)), TRUE), Op("OP_CHECKSIG"))
          = Going(Append(q, Checked(x, Key(k)[2])), TRUE)
    BY <1>2, <1>6, OnTwo
  <2> QED BY <1>1, <1>2, <1>7, <2>1
<1>12. Step(Going(Append(q, t), TRUE), c[4]) = Going(q, t # Number(0))
  BY <1>1, <1>6, <1>8, OnOne
<1>13. CASE x = Signature(k)
  <2>1. (t # Number(0)) = TRUE
    BY <1>7, <1>13 DEF Checked, Truth, Number
  <2>2. PICK w : w = Number(v)
    OBVIOUS
  <2>3. w \in Items /\ w[2] = v
    BY <2>2, NumberItem
  <2>4. Step(Going(q, TRUE), c[5]) = Going(Pushed2(r, m, w), TRUE)
    BY <1>1, <1>5, <1>6, <2>2, Pushes DEF Pushed2
  <2>5. Step(Going(Pushed2(r, m, w), TRUE), c[6]) = Going(Append(r, Number(n + v)), TRUE)
    BY <1>1, <1>4, <2>3, OnTwo
  <2>6. Step(Going(Append(r, Number(n + v)), TRUE), c[7]) = Going(Append(r, Number(n + v)), TRUE)
    BY <1>1, Branches
  <2>7. a = n + v
    BY <1>0, <1>13 DEF Worth
  <2> QED BY <1>3, <1>9, <1>10, <1>11, <1>12, <2>1, <2>4, <2>5, <2>6, <2>7, Zenon DEF Seven
<1>14. CASE x # Signature(k)
  <2>1. (t # Number(0)) = FALSE
    BY <1>7, <1>14 DEF Checked, Truth, Number
  <2>2. Step(Going(q, FALSE), c[5]) = Going(q, FALSE)
    BY <1>1, PlainOnes, Skips
  <2>3. Step(Going(q, FALSE), c[6]) = Going(q, FALSE)
    BY <1>1, PlainOnes, Skips
  <2>4. Step(Going(q, FALSE), c[7]) = Going(q, TRUE)
    BY <1>1, Branches
  <2>5. a = n
    BY <1>0, <1>14 DEF Worth
  <2> QED BY <1>3, <1>5, <1>9, <1>10, <1>11, <1>12, <2>1, <2>2, <2>3, <2>4, <2>5, Zenon DEF Seven
<1> QED BY <1>13, <1>14

(* The end compares with the threshold, and leaves the answer.              *)
Four(s, c) == Step(Step(Step(Step(s, c[1]), c[2]), c[3]), c[4])

(* It leaves whether the power is over the threshold.                       *)
LEMMA LastClause ==
    ASSUME NEW r \in Seq(Items), NEW n \in Int, NEW h \in Int,
           NEW c, c = EndOf(h)
    PROVE  Four(Going(Append(r, Number(n)), TRUE), c) = Going(Append(r, Truth(n > h)), TRUE)
<1>1. /\ c[1] = PushInt(h) /\ c[2] = Op("OP_GREATERTHAN") /\ c[3] = Data(Dest) /\ c[4] = Op("OP_DROP")
  BY DEF EndOf
<1>2. PICK m, w : m = Number(n) /\ w = Number(h)
  OBVIOUS
<1>3. m \in Items /\ m[2] = n /\ w \in Items /\ w[2] = h
  BY <1>2, NumberItem
<1>4. PICK t : t = Truth(n > h)
  OBVIOUS
<1>5. t \in Items
  BY <1>4, NumberItem DEF Truth
<1>6. Append(r, m) \in Seq(Items) /\ Append(r, t) \in Seq(Items) /\ Data(Dest) \in Items
  BY <1>3, <1>5 DEF Items
<1>7. Step(Going(Append(r, m), TRUE), c[1]) = Going(Pushed2(r, m, w), TRUE)
  BY <1>1, <1>2, <1>6, Pushes DEF Pushed2
<1>8. Step(Going(Pushed2(r, m, w), TRUE), c[2]) = Going(Append(r, t), TRUE)
  BY <1>1, <1>3, <1>4, OnTwo, Zenon
<1>9. Step(Going(Append(r, t), TRUE), c[3]) = Going(Append(Append(r, t), Data(Dest)), TRUE)
  BY <1>1, <1>6, Pushes
<1>10. Step(Going(Append(Append(r, t), Data(Dest)), TRUE), c[4]) = Going(Append(r, t), TRUE)
  BY <1>1, <1>6, OnOne
<1> QED BY <1>2, <1>4, <1>7, <1>8, <1>9, <1>10, Zenon DEF Four

-----------------------------------------------------------------------------
(* The whole script.                                                        *)

IsRun(g, script, witness, n) ==
    g = [k \in 0 .. n |-> IF k = 0 THEN Going(witness, TRUE) ELSE Step(g[k - 1], script[k])]

(* The recursion of Run has a solution, which it is.                        *)
LEMMA RunExists ==
    ASSUME NEW script, NEW witness, Len(script) \in Nat
    PROVE  IsRun(Run(script, witness), script, witness, Len(script))
<1> DEFINE Bad == {m \in Nat : ~\E g : IsRun(g, script, witness, m)}
<1>1. ASSUME Bad # {} PROVE FALSE
  <2>1. Bad \in SUBSET Nat
    OBVIOUS
  <2>2. PICK m \in Bad : \A k \in Bad : m <= k
    <3> HIDE DEF Bad
    <3> QED BY <1>1, <2>1, LeastNat
  <2>3. m \in Nat /\ ~\E g : IsRun(g, script, witness, m)
    OBVIOUS
  <2>4. CASE m = 0
    <3> DEFINE g == [k \in 0 .. 0 |-> Going(witness, TRUE)]
    <3>1. IsRun(g, script, witness, 0)
      BY DEF IsRun
    <3> QED BY <2>3, <2>4, <3>1
  <2>5. CASE m > 0
    <3>1. m - 1 \in Nat /\ m - 1 \notin Bad
      BY <2>2, <2>3, <2>5
    <3>2. PICK h : IsRun(h, script, witness, m - 1)
      BY <3>1
    <3>3. \A k \in 0 .. (m - 1) :
            h[k] = IF k = 0 THEN Going(witness, TRUE) ELSE Step(h[k - 1], script[k])
      BY <3>2 DEF IsRun
    <3> DEFINE g == [k \in 0 .. m |-> IF k = m THEN Step(h[m - 1], script[m]) ELSE h[k]]
    <3>4. ASSUME NEW k \in 0 .. m
          PROVE  g[k] = IF k = 0 THEN Going(witness, TRUE) ELSE Step(g[k - 1], script[k])
      <4>1. CASE k = m
        <5>1. g[k] = Step(h[m - 1], script[m]) /\ g[m - 1] = h[m - 1] /\ k # 0
          BY <2>3, <2>5, <4>1
        <5> QED BY <4>1, <5>1
      <4>2. CASE k # m
        <5>1. k \in 0 .. (m - 1) /\ g[k] = h[k]
          BY <2>3, <4>2
        <5>2. k # 0 => g[k - 1] = h[k - 1]
          BY <2>3, <5>1
        <5> QED BY <3>3, <5>1, <5>2
      <4> QED BY <4>1, <4>2
    <3>5. g = [k \in 0 .. m |-> g[k]]
      OBVIOUS
    <3> HIDE DEF g
    <3>6. IsRun(g, script, witness, m)
      BY <3>4, <3>5 DEF IsRun
    <3> QED BY <2>3, <3>6
  <2> QED BY <2>3, <2>4, <2>5
<1>2. \E g : IsRun(g, script, witness, Len(script))
  BY <1>1
<1>3. Run(script, witness) = CHOOSE g : IsRun(g, script, witness, Len(script))
  BY DEF Run, IsRun, Going
<1> QED BY <1>2, <1>3

(* Its states.                                                              *)
LEMMA RunSteps ==
    ASSUME NEW script, NEW witness, Len(script) \in Nat, NEW g, g = Run(script, witness)
    PROVE  /\ g[0] = Going(witness, TRUE)
           /\ \A k \in 1 .. Len(script) : g[k] = Step(g[k - 1], script[k])
<1>1. IsRun(g, script, witness, Len(script))
  BY RunExists
<1>2. \A k \in 0 .. Len(script) :
        g[k] = IF k = 0 THEN Going(witness, TRUE) ELSE Step(g[k - 1], script[k])
  BY <1>1 DEF IsRun
<1>3. g[0] = Going(witness, TRUE)
  <2>1. 0 \in 0 .. Len(script)
    OBVIOUS
  <2> QED BY <1>2, <2>1, Zenon
<1>4. ASSUME NEW k \in 1 .. Len(script) PROVE g[k] = Step(g[k - 1], script[k])
  <2>1. k \in 0 .. Len(script) /\ k # 0
    OBVIOUS
  <2> QED BY <1>2, <2>1
<1> QED BY <1>3, <1>4

(* A script with the clauses of keys K and powers V, and the threshold h.   *)
IsScript(script, n, K, V, h) ==
    /\ Len(script) = 7 * n + 4
    /\ \A m \in 1 .. 7 : script[m] = FirstOf(K[1], V[1])[m]
    /\ \A i \in 2 .. n : \A m \in 1 .. 7 : script[7 * (i - 1) + m] = OtherOf(K[i], V[i])[m]
    /\ \A m \in 1 .. 4 : script[7 * n + m] = EndOf(h)[m]

(* The states between clauses.                                              *)
ByClauses(g, witness, n, K, V, h) ==
    /\ g[0] = Going(witness, TRUE)
    /\ g[7] = Seven(g[0], FirstOf(K[1], V[1]))
    /\ \A i \in 2 .. n : g[7 * i] = Seven(g[7 * (i - 1)], OtherOf(K[i], V[i]))
    /\ g[7 * n + 4] = Four(g[7 * n], EndOf(h))

(* The script runs clause by clause.                                        *)
LEMMA ClauseSteps ==
    ASSUME NEW script, NEW n \in Nat \ {0}, NEW K, NEW V, NEW h, IsScript(script, n, K, V, h),
           NEW witness, NEW g, g = Run(script, witness)
    PROVE  ByClauses(g, witness, n, K, V, h)
<1>1. Len(script) = 7 * n + 4 /\ Len(script) \in Nat
  BY DEF IsScript
<1>2. g[0] = Going(witness, TRUE) /\ \A k \in 1 .. (7 * n + 4) : g[k] = Step(g[k - 1], script[k])
  <2>1. /\ g[0] = Going(witness, TRUE)
        /\ \A k \in 1 .. Len(script) : g[k] = Step(g[k - 1], script[k])
    BY <1>1, RunSteps
  <2> QED BY <1>1, <2>1
<1>3. ASSUME NEW j \in 0 .. (n - 1), NEW c, \A m \in 1 .. 7 : script[7 * j + m] = c[m]
      PROVE  g[7 * j + 7] = Seven(g[7 * j], c)
  <2>1. g[7 * j + 1] = Step(g[7 * j], c[1])
    BY <1>2, <1>3
  <2>2. g[7 * j + 2] = Step(g[7 * j + 1], c[2])
    BY <1>2, <1>3
  <2>3. g[7 * j + 3] = Step(g[7 * j + 2], c[3])
    BY <1>2, <1>3
  <2>4. g[7 * j + 4] = Step(g[7 * j + 3], c[4])
    BY <1>2, <1>3
  <2>5. g[7 * j + 5] = Step(g[7 * j + 4], c[5])
    BY <1>2, <1>3
  <2>6. g[7 * j + 6] = Step(g[7 * j + 5], c[6])
    BY <1>2, <1>3
  <2>7. g[7 * j + 7] = Step(g[7 * j + 6], c[7])
    BY <1>2, <1>3
  <2> QED BY <2>1, <2>2, <2>3, <2>4, <2>5, <2>6, <2>7, Zenon DEF Seven
<1>4. g[7] = Seven(g[0], FirstOf(K[1], V[1]))
  <2>1. \A m \in 1 .. 7 : script[7 * 0 + m] = FirstOf(K[1], V[1])[m]
    BY DEF IsScript
  <2>2. g[7 * 0 + 7] = Seven(g[7 * 0], FirstOf(K[1], V[1]))
    BY <1>3, <2>1
  <2> QED BY <2>2
<1>5. ASSUME NEW i \in 2 .. n PROVE g[7 * i] = Seven(g[7 * (i - 1)], OtherOf(K[i], V[i]))
  <2>1. PICK j \in 0 .. (n - 1) : j = i - 1
    OBVIOUS
  <2>2. \A m \in 1 .. 7 : script[7 * j + m] = OtherOf(K[i], V[i])[m]
    BY <2>1 DEF IsScript
  <2>3. g[7 * j + 7] = Seven(g[7 * j], OtherOf(K[i], V[i]))
    BY <1>3, <2>2
  <2>4. 7 * j + 7 = 7 * i
    BY <2>1
  <2> QED BY <2>1, <2>3, <2>4
<1>6. g[7 * n + 4] = Four(g[7 * n], EndOf(h))
  <2>1. PICK c : c = EndOf(h)
    OBVIOUS
  <2>2. \A m \in 1 .. 4 : script[7 * n + m] = c[m]
    BY <2>1 DEF IsScript
  <2>3. g[7 * n + 1] = Step(g[7 * n], c[1])
    BY <1>2, <2>2
  <2>4. g[7 * n + 2] = Step(g[7 * n + 1], c[2])
    BY <1>2, <2>2
  <2>5. g[7 * n + 3] = Step(g[7 * n + 2], c[3])
    BY <1>2, <2>2
  <2>6. g[7 * n + 4] = Step(g[7 * n + 3], c[4])
    BY <1>2, <2>2
  <2> QED BY <2>1, <2>3, <2>4, <2>5, <2>6, Zenon DEF Four
<1> QED BY <1>2, <1>4, <1>5, <1>6 DEF ByClauses

(* A witness without its last elements.                                     *)
LEMMA WitnessParts ==
    ASSUME NEW W \in Seq(Items), NEW n, n = Len(W), NEW i \in 1 .. n
    PROVE  /\ SubSeq(W, 1, n - i) \in Seq(Items)
           /\ W[n + 1 - i] \in Items
           /\ SubSeq(W, 1, n - (i - 1)) = Append(SubSeq(W, 1, n - i), W[n + 1 - i])
<1>1. n \in Nat /\ DOMAIN W = 1 .. n
  OBVIOUS
<1> DEFINE a == SubSeq(W, 1, n - (i - 1))
           b == SubSeq(W, 1, n - i)
           x == W[n + 1 - i]
<1>2. x \in Items
  BY <1>1
<1>3. b \in Seq(Items) /\ Len(b) = n - i /\ \A k \in 1 .. (n - i) : b[k] = W[k]
  BY <1>1
<1>4. a \in Seq(Items) /\ Len(a) = n + 1 - i /\ \A k \in 1 .. (n + 1 - i) : a[k] = W[k]
  BY <1>1
<1> HIDE DEF a, b
<1>5. /\ Append(b, x) \in Seq(Items) /\ Len(Append(b, x)) = n + 1 - i
      /\ \A k \in 1 .. (n - i) : Append(b, x)[k] = b[k]
      /\ Append(b, x)[n + 1 - i] = x
  BY <1>1, <1>2, <1>3, AppendProperties
<1>6. \A k \in 1 .. (n + 1 - i) : a[k] = Append(b, x)[k]
  BY <1>1, <1>3, <1>4, <1>5
<1>7. a = Append(b, x)
  BY <1>4, <1>5, <1>6, SeqEqual
<1> QED BY <1>2, <1>3, <1>7 DEF a, b

(* The stack and the sum so far after i clauses.                            *)
Between(s, W, n, i, f) ==
    s = Going(Append(SubSeq(W, 1, n - i), Number(SumFunctionOnSet(f, 1 .. i))), TRUE)

(* What each clause is worth.                                               *)
IsWorth(f, W, n, K, V) ==
    /\ K \in [1 .. n -> Signers] /\ V \in [1 .. n -> Int]
    /\ \A i \in 1 .. n : f[i] = Worth(W[n + 1 - i], K[i], V[i])

(* Each clause takes one witness element.                                   *)
LEMMA ClausesRun ==
    ASSUME NEW W \in Seq(Items), NEW n \in Nat \ {0}, n = Len(W), NEW K, NEW V, NEW h,
           NEW script, IsScript(script, n, K, V, h), NEW g, g = Run(script, W),
           NEW f, IsWorth(f, W, n, K, V), NEW i \in 1 .. n
    PROVE  Between(g[7 * i], W, n, i, f)
<1>1. /\ K \in [1 .. n -> Signers] /\ V \in [1 .. n -> Int]
      /\ \A j \in 1 .. n : f[j] = Worth(W[n + 1 - j], K[j], V[j])
  BY DEF IsWorth
<1>2. \A j \in 1 .. n : f[j] \in Int
  <2> SUFFICES ASSUME NEW j \in 1 .. n PROVE f[j] \in Int
    OBVIOUS
  <2>1. V[j] \in Int /\ f[j] = Worth(W[n + 1 - j], K[j], V[j])
    BY <1>1
  <2> QED BY <2>1 DEF Worth
<1>3. /\ g[0] = Going(W, TRUE)
      /\ g[7] = Seven(g[0], FirstOf(K[1], V[1]))
      /\ \A j \in 2 .. n : g[7 * j] = Seven(g[7 * (j - 1)], OtherOf(K[j], V[j]))
  <2>1. ByClauses(g, W, n, K, V, h)
    BY ClauseSteps
  <2> QED BY <2>1 DEF ByClauses
<1> DEFINE Bad == {j \in Nat : j \in 1 .. n /\ ~Between(g[7 * j], W, n, j, f)}
<1>4. SUFFICES ASSUME Bad # {} PROVE FALSE
  <2>1. i \notin Bad
    BY <1>4
  <2> QED BY <2>1
<1>5. PICK j \in Bad : \A k \in Bad : j <= k
  <2>1. Bad \in SUBSET Nat
    OBVIOUS
  <2> HIDE DEF Bad
  <2> QED BY <1>4, <2>1, LeastNat
<1>6. j \in 1 .. n /\ ~Between(g[7 * j], W, n, j, f)
  OBVIOUS
<1>7a. PICK r, x, k : r = SubSeq(W, 1, n - j) /\ x = W[n + 1 - j] /\ k = K[j]
  OBVIOUS
<1>7b. PICK v \in Int : v = V[j]
  BY <1>1, <1>6
<1>7. r = SubSeq(W, 1, n - j) /\ x = W[n + 1 - j] /\ k = K[j] /\ v = V[j]
  BY <1>7a, <1>7b
<1>8. /\ r \in Seq(Items) /\ x \in Items /\ k \in Signers /\ v \in Int
      /\ SubSeq(W, 1, n - (j - 1)) = Append(r, x)
  BY <1>1, <1>6, <1>7, WitnessParts
<1>9. f[j] = Worth(x, k, v) /\ f[j] \in Int
  BY <1>1, <1>2, <1>6, <1>7
<1>10. CASE j = 1
  <2>1. SubSeq(W, 1, n - (j - 1)) = W
    BY <1>10
  <2>2. g[7] = Seven(Going(Append(r, x), TRUE), FirstOf(k, v))
    BY <1>3, <1>7, <1>8, <1>10, <2>1
  <2>3. g[7] = Going(Append(r, Number(Worth(x, k, v))), TRUE)
    <3>1. FirstRuns(r, x, k, v)
      BY <1>8, FirstClause
    <3> QED BY <2>2, <3>1 DEF FirstRuns
  <2>4. SumFunctionOnSet(f, 1 .. 1) = f[1]
    <3>1. 1 .. 1 = {1}
      OBVIOUS
    <3>2. SumFunctionOnSet(f, {1}) = f[1]
      BY <1>9, <1>10, SumOne
    <3> QED BY <3>1, <3>2
  <2>5. Between(g[7], W, n, 1, f)
    BY <1>7, <1>9, <1>10, <2>3, <2>4 DEF Between
  <2> QED BY <1>6, <1>10, <2>5
<1>11. CASE j # 1
  <2>1. PICK m : m = j - 1
    OBVIOUS
  <2>2. m \in 1 .. n /\ m \in Nat /\ j = m + 1 /\ m \notin Bad
    BY <1>5, <1>6, <1>11, <2>1
  <2>3. Between(g[7 * m], W, n, m, f)
    BY <2>2
  <2>4. PICK a \in Int : a = SumFunctionOnSet(f, 1 .. m)
    <3>1. SumFunctionOnSet(f, 1 .. m) \in Int
      BY <1>2, <1>6, <2>2, SumLast
    <3> QED BY <3>1
  <2>5. SumFunctionOnSet(f, 1 .. j) = a + f[j] /\ a \in Int
    BY <1>2, <1>6, <2>2, <2>4, SumLast
  <2>6. g[7 * m] = Going(Pushed2(r, x, Number(a)), TRUE)
    <3>1. SubSeq(W, 1, n - m) = Append(r, x)
      BY <1>8, <2>1
    <3> QED BY <2>3, <2>4, <3>1 DEF Between, Pushed2
  <2>7. g[7 * j] = Seven(g[7 * m], OtherOf(k, v))
    BY <1>3, <1>6, <1>7, <1>11, <2>1
  <2>8. g[7 * j] = Going(Append(r, Number(a + Worth(x, k, v))), TRUE)
    <3>1. OtherRuns(r, x, a, k, v)
      BY <1>8, <2>5, NextClause
    <3> QED BY <2>6, <2>7, <3>1 DEF OtherRuns
  <2>9. Between(g[7 * j], W, n, j, f)
    BY <1>7, <1>9, <2>5, <2>8 DEF Between
  <2> QED BY <1>6, <2>9
<1> QED BY <1>10, <1>11

(* Bitcoin accepts what is worth more than the threshold.                   *)
LEMMA AcceptsWorth ==
    ASSUME NEW W \in Seq(Items), NEW n \in Nat \ {0}, n = Len(W), NEW K, NEW V, NEW h \in Int,
           NEW script, IsScript(script, n, K, V, h), NEW f, IsWorth(f, W, n, K, V)
    PROVE  Accepts(script, W) <=> SumFunctionOnSet(f, 1 .. n) > h
<1>1. PICK g : g = Run(script, W)
  OBVIOUS
<1>2. PICK a : a = SumFunctionOnSet(f, 1 .. n)
  OBVIOUS
<1>3. a \in Int
  <2>1. ASSUME NEW j \in 1 .. n PROVE f[j] \in Int
    <3>1. V[j] \in Int /\ f[j] = Worth(W[n + 1 - j], K[j], V[j])
      BY DEF IsWorth
    <3> QED BY <3>1 DEF Worth
  <2>2. IsFiniteSet(1 .. n)
    BY FS_Interval
  <2> QED BY <1>2, <2>1, <2>2, SumInt
<1>4. Between(g[7 * n], W, n, n, f)
  <2>1. n \in 1 .. n
    OBVIOUS
  <2> QED BY <1>1, <2>1, ClausesRun
<1>5. SubSeq(W, 1, n - n) = <<>> /\ <<>> \in Seq(Items)
  OBVIOUS
<1>6. g[7 * n] = Going(Append(<<>>, Number(a)), TRUE)
  BY <1>2, <1>4, <1>5 DEF Between
<1>7. g[7 * n + 4] = Four(g[7 * n], EndOf(h))
  <2>1. ByClauses(g, W, n, K, V, h)
    BY <1>1, ClauseSteps
  <2> QED BY <2>1 DEF ByClauses
<1>8. PICK t : t = Truth(a > h)
  OBVIOUS
<1>9. g[7 * n + 4] = Going(Append(<<>>, t), TRUE)
  <2>1. PICK c, r : c = EndOf(h) /\ r = <<>>
    OBVIOUS
  <2>2. r \in Seq(Items)
    BY <1>5, <2>1
  <2>3. Four(Going(Append(r, Number(a)), TRUE), c) = Going(Append(r, Truth(a > h)), TRUE)
    BY <1>3, <2>1, <2>2, LastClause
  <2> QED BY <1>6, <1>7, <1>8, <2>1, <2>3
<1>10. Len(script) = 7 * n + 4
  BY DEF IsScript
<1>11. Accepts(script, W) <=> Append(<<>>, t) = <<Number(1)>>
  <2>1. PICK end : end = Run(script, W)[Len(script)]
    OBVIOUS
  <2>2. end = Going(Append(<<>>, t), TRUE)
    BY <1>1, <1>9, <1>10, <2>1
  <2>3. end.ok = TRUE /\ end.stack = Append(<<>>, t)
    BY <2>2 DEF Going
  <2>4. Accepts(script, W) <=> end.ok /\ end.stack = <<Number(1)>>
    BY <2>1 DEF Accepts
  <2> QED BY <2>3, <2>4
<1>12. Append(<<>>, t) = <<t>>
  OBVIOUS
<1>13. <<t>> = <<Number(1)>> <=> t = Number(1)
  OBVIOUS
<1>14. t = Number(1) <=> a > h
  BY <1>8 DEF Truth, Number
<1> QED BY <1>2, <1>11, <1>12, <1>13, <1>14

-----------------------------------------------------------------------------
(* The script of a set is made of its clauses.                              *)

IsFlat(g, seqs, n) ==
    g = [i \in 1 .. n |-> IF i = 1 THEN seqs[i] ELSE g[i - 1] \o seqs[i]]

(* The recursion of FlattenSeq has a solution, the last entry of which it   *)
(* is.                                                                      *)
LEMMA FlatExists ==
    ASSUME NEW seqs, Len(seqs) \in Nat \ {0}
    PROVE  \E g : IsFlat(g, seqs, Len(seqs)) /\ FlattenSeq(seqs) = g[Len(seqs)]
<1> DEFINE Bad == {m \in Nat : m > 0 /\ ~\E g : IsFlat(g, seqs, m)}
<1>1. ASSUME Bad # {} PROVE FALSE
  <2>1. Bad \in SUBSET Nat
    OBVIOUS
  <2>2. PICK m \in Bad : \A k \in Bad : m <= k
    <3> HIDE DEF Bad
    <3> QED BY <1>1, <2>1, LeastNat
  <2>3. m \in Nat /\ m > 0 /\ ~\E g : IsFlat(g, seqs, m)
    OBVIOUS
  <2>4. CASE m = 1
    <3> DEFINE g == [k \in 1 .. 1 |-> seqs[k]]
    <3>1. IsFlat(g, seqs, 1)
      BY DEF IsFlat
    <3> QED BY <2>3, <2>4, <3>1
  <2>5. CASE m > 1
    <3>1. m - 1 \in Nat /\ m - 1 > 0 /\ m - 1 \notin Bad
      BY <2>2, <2>3, <2>5
    <3>2. PICK h : IsFlat(h, seqs, m - 1)
      BY <3>1
    <3>3. \A k \in 1 .. (m - 1) : h[k] = IF k = 1 THEN seqs[k] ELSE h[k - 1] \o seqs[k]
      BY <3>2 DEF IsFlat
    <3>a. PICK y : y = h[m - 1] \o seqs[m]
      OBVIOUS
    <3> DEFINE g == [k \in 1 .. m |-> IF k = m THEN y ELSE h[k]]
    <3>4. ASSUME NEW k \in 1 .. m
          PROVE  g[k] = IF k = 1 THEN seqs[k] ELSE g[k - 1] \o seqs[k]
      <4>1. CASE k = m
        <5>1. g[k] = y /\ g[m - 1] = h[m - 1] /\ k # 1
          BY <2>3, <2>5, <4>1
        <5> QED BY <3>a, <4>1, <5>1
      <4>2. CASE k # m
        <5>1. k \in 1 .. (m - 1) /\ g[k] = h[k]
          BY <2>3, <4>2
        <5>2. k # 1 => g[k - 1] = h[k - 1]
          BY <2>3, <5>1
        <5> QED BY <3>3, <5>1, <5>2
      <4> QED BY <4>1, <4>2
    <3>5. g = [k \in 1 .. m |-> g[k]]
      OBVIOUS
    <3> HIDE DEF g
    <3>6. IsFlat(g, seqs, m)
      BY <3>4, <3>5 DEF IsFlat
    <3> QED BY <2>3, <3>6
  <2> QED BY <2>3, <2>4, <2>5
<1>2. \E g : IsFlat(g, seqs, Len(seqs))
  BY <1>1
<1>3. PICK c : c = CHOOSE g : IsFlat(g, seqs, Len(seqs))
  OBVIOUS
<1>4. IsFlat(c, seqs, Len(seqs))
  BY <1>2, <1>3
<1>5. FlattenSeq(seqs) = c[Len(seqs)]
  BY <1>3 DEF FlattenSeq, IsFlat
<1> QED BY <1>4, <1>5

(* Sequences of seven, and where they are in a sequence of them all.        *)
Sevens(seqs, n, I) ==
    \A i \in 1 .. n : seqs[i] \in Seq(I) /\ Len(seqs[i]) = 7

Laid(q, seqs, n, I) ==
    /\ q \in Seq(I) /\ Len(q) = 7 * n
    /\ \A i \in 1 .. n : \A m \in 1 .. 7 : q[7 * (i - 1) + m] = seqs[i][m]

(* One more of them.                                                        *)
LEMMA LaidNext ==
    ASSUME NEW I, NEW seqs, NEW n \in Nat, NEW q, Laid(q, seqs, n, I),
           seqs[n + 1] \in Seq(I), Len(seqs[n + 1]) = 7
    PROVE  Laid(q \o seqs[n + 1], seqs, n + 1, I)
<1>1. PICK c : c = seqs[n + 1]
  OBVIOUS
<1>2. c \in Seq(I) /\ Len(c) = 7 /\ q \in Seq(I) /\ Len(q) = 7 * n
  BY <1>1 DEF Laid
<1>3. PICK p : p = q \o c
  OBVIOUS
<1>4. /\ p \in Seq(I) /\ Len(p) = 7 * n + 7
      /\ \A k \in 1 .. (7 * n) : p[k] = q[k]
      /\ \A k \in (7 * n + 1) .. (7 * n + 7) : p[k] = c[k - 7 * n]
  <2>1. p \in Seq(I) /\ Len(p) = Len(q) + Len(c)
    BY <1>2, <1>3, ConcatProperties
  <2>2. \A k \in 1 .. (Len(q) + Len(c)) : p[k] = IF k <= Len(q) THEN q[k] ELSE c[k - Len(q)]
    BY <1>2, <1>3, ConcatProperties
  <2> QED BY <1>2, <2>1, <2>2
<1>5. ASSUME NEW i \in 1 .. (n + 1), NEW m \in 1 .. 7
      PROVE  p[7 * (i - 1) + m] = seqs[i][m]
  <2>1. CASE i = n + 1
    <3>1. 7 * (i - 1) + m \in (7 * n + 1) .. (7 * n + 7) /\ (7 * (i - 1) + m) - 7 * n = m
      BY <2>1
    <3> QED BY <1>1, <1>4, <2>1, <3>1
  <2>2. CASE i # n + 1
    <3>1. i \in 1 .. n /\ 7 * (i - 1) + m \in 1 .. (7 * n)
      BY <2>2
    <3>2. q[7 * (i - 1) + m] = seqs[i][m]
      BY <3>1 DEF Laid
    <3> QED BY <1>4, <3>1, <3>2
  <2> QED BY <2>1, <2>2
<1>6. Len(p) = 7 * (n + 1)
  BY <1>4
<1> QED BY <1>1, <1>3, <1>4, <1>5, <1>6 DEF Laid

(* FlattenSeq lays them out one after the other.                            *)
LEMMA Flattened ==
    ASSUME NEW I, NEW seqs, NEW n \in Nat \ {0}, Len(seqs) = n, Sevens(seqs, n, I)
    PROVE  Laid(FlattenSeq(seqs), seqs, n, I)
<1>1. PICK g : IsFlat(g, seqs, n) /\ FlattenSeq(seqs) = g[n]
  BY FlatExists
<1>2. \A i \in 1 .. n : g[i] = IF i = 1 THEN seqs[i] ELSE g[i - 1] \o seqs[i]
  BY <1>1 DEF IsFlat
<1> DEFINE Bad == {i \in Nat : i \in 1 .. n /\ ~Laid(g[i], seqs, i, I)}
<1>3. ASSUME Bad # {} PROVE FALSE
  <2>1. Bad \in SUBSET Nat
    OBVIOUS
  <2>2. PICK i \in Bad : \A k \in Bad : i <= k
    <3> HIDE DEF Bad
    <3> QED BY <1>3, <2>1, LeastNat
  <2>3. i \in 1 .. n /\ ~Laid(g[i], seqs, i, I) /\ seqs[i] \in Seq(I) /\ Len(seqs[i]) = 7
    BY DEF Sevens
  <2>4. CASE i = 1
    <3>1. g[1] = seqs[1]
      BY <1>2
    <3>2. ASSUME NEW j \in 1 .. 1, NEW m \in 1 .. 7 PROVE g[1][7 * (j - 1) + m] = seqs[j][m]
      <4>1. j = 1 /\ 7 * (j - 1) + m = m
        OBVIOUS
      <4> QED BY <3>1, <4>1
    <3>3. Len(g[1]) = 7 * 1 /\ g[1] \in Seq(I)
      BY <2>3, <2>4, <3>1
    <3> QED BY <2>3, <2>4, <3>2, <3>3 DEF Laid
  <2>5. CASE i # 1
    <3>1. PICK j \in Nat : j = i - 1
      BY <2>3
    <3>2. j \in 1 .. n /\ j \notin Bad /\ i = j + 1
      BY <2>2, <2>3, <2>5, <3>1
    <3>3. Laid(g[j], seqs, j, I)
      BY <3>2
    <3>4. g[i] = g[j] \o seqs[j + 1]
      BY <1>2, <2>3, <2>5, <3>1, <3>2
    <3>5. Laid(g[j] \o seqs[j + 1], seqs, j + 1, I)
      BY <2>3, <3>2, <3>3, LaidNext
    <3> QED BY <2>3, <3>2, <3>4, <3>5
  <2> QED BY <2>4, <2>5
<1>4. n \in 1 .. n /\ n \in Nat /\ n \notin Bad
  BY <1>3
<1> QED BY <1>1, <1>4

(* Instructions.                                                            *)
Codes == {Op("OP_CHECKSIG"), Op("OP_IF"), Op("OP_ELSE"), OpFalse, Op("OP_ENDIF"), Op("OP_SWAP"),
          Op("OP_ADD"), Op("OP_GREATERTHAN"), Op("OP_DROP")}
         \cup Items \cup {PushInt(v) : v \in Int}

(* The clauses have seven, the end four.                                    *)
LEMMA ClauseLengths ==
    ASSUME NEW k \in Signers, NEW v \in Int
    PROVE  /\ FirstOf(k, v) \in Seq(Codes) /\ Len(FirstOf(k, v)) = 7
           /\ OtherOf(k, v) \in Seq(Codes) /\ Len(OtherOf(k, v)) = 7
           /\ EndOf(v) \in Seq(Codes) /\ Len(EndOf(v)) = 4
<1>1. Key(k) \in Items /\ Data(Dest) \in Items
  BY DEF Items
<1>2. /\ Key(k) \in Codes /\ PushInt(v) \in Codes /\ Data(Dest) \in Codes
      /\ Op("OP_CHECKSIG") \in Codes /\ Op("OP_IF") \in Codes /\ Op("OP_ELSE") \in Codes
      /\ OpFalse \in Codes /\ Op("OP_ENDIF") \in Codes /\ Op("OP_SWAP") \in Codes
      /\ Op("OP_ADD") \in Codes /\ Op("OP_GREATERTHAN") \in Codes /\ Op("OP_DROP") \in Codes
  BY <1>1 DEF Codes
<1> QED BY <1>2 DEF FirstOf, OtherOf, EndOf

(* A signatory set with keys K and powers Q.                                *)
SetOf(K, Q, n, present) ==
    [signatories |-> [i \in 1 .. n |-> [pubkey |-> K[i], power |-> Q[i]]],
     present     |-> present]

(* The powers and the threshold redeem_script writes for it.                *)
IsTruncated(K, Q, V, n, present, h) ==
    /\ K \in [1 .. n -> Signers] /\ V \in [1 .. n -> Int] /\ h \in Int
    /\ \A i \in 1 .. n : V[i] = Truncated(Q[i], present)
    /\ h = Truncated(RatioThreshold(present, Ratio), present)

(* The clauses of its script.                                               *)
ClausesOf(K, V, n) ==
    [i \in 1 .. n |-> IF i = 1 THEN FirstOf(K[i], V[i]) ELSE OtherOf(K[i], V[i])]

(* The script has the clauses one after the other, then the comparison.     *)
LEMMA ScriptForm ==
    ASSUME NEW n \in Nat \ {0}, NEW K, NEW Q, NEW V, NEW present, NEW h,
           IsTruncated(K, Q, V, n, present, h)
    PROVE  Script(SetOf(K, Q, n, present), Ratio, Dest) = FlattenSeq(ClausesOf(K, V, n)) \o EndOf(h)
<1>1. /\ \A i \in 1 .. n : V[i] = Truncated(Q[i], present)
      /\ h = Truncated(RatioThreshold(present, Ratio), present)
  BY DEF IsTruncated
<1>2. PICK set : set = SetOf(K, Q, n, present)
  OBVIOUS
<1>3. /\ set.present = present /\ DOMAIN set.signatories = 1 .. n
      /\ \A i \in 1 .. n : /\ set.signatories[i].pubkey = K[i]
                           /\ set.signatories[i].power = Q[i]
  BY <1>2 DEF SetOf
<1> DEFINE seqs == [i \in 1 .. n |-> Clause(i, set.signatories[i], present)]
<1>4. ASSUME NEW i \in 1 .. n PROVE seqs[i] = ClausesOf(K, V, n)[i]
  <2>1. seqs[i] = Clause(i, set.signatories[i], present)
    OBVIOUS
  <2>2. /\ set.signatories[i].pubkey = K[i]
        /\ Truncated(set.signatories[i].power, present) = V[i]
    BY <1>1, <1>3
  <2>3. seqs[i] = IF i = 1 THEN FirstOf(K[i], V[i]) ELSE OtherOf(K[i], V[i])
    BY <2>1, <2>2 DEF Clause, FirstOf, OtherOf
  <2> QED BY <2>3 DEF ClausesOf
<1>5. seqs = ClausesOf(K, V, n)
  <2>1. DOMAIN ClausesOf(K, V, n) = 1 .. n
    BY DEF ClausesOf
  <2> QED BY <1>4, <2>1 DEF ClausesOf
<1>6. Script(set, Ratio, Dest) = FlattenSeq(seqs) \o EndOf(h)
  BY <1>1, <1>3 DEF Script, EndOf
<1> QED BY <1>2, <1>5, <1>6

(* Instruction by instruction.                                              *)
LEMMA ScriptIs ==
    ASSUME NEW n \in Nat \ {0}, NEW K, NEW Q, NEW V, NEW present, NEW h,
           IsTruncated(K, Q, V, n, present, h)
    PROVE  IsScript(Script(SetOf(K, Q, n, present), Ratio, Dest), n, K, V, h)
<1>1. K \in [1 .. n -> Signers] /\ V \in [1 .. n -> Int] /\ h \in Int
  BY DEF IsTruncated
<1> DEFINE seqs == ClausesOf(K, V, n)
<1>4. ASSUME NEW i \in 1 .. n
      PROVE  seqs[i] = IF i = 1 THEN FirstOf(K[i], V[i]) ELSE OtherOf(K[i], V[i])
  BY DEF ClausesOf
<1>5. Len(seqs) = n
  BY DEF ClausesOf
<1>6. Script(SetOf(K, Q, n, present), Ratio, Dest) = FlattenSeq(seqs) \o EndOf(h)
  BY ScriptForm
<1> HIDE DEF seqs
<1>7. Sevens(seqs, n, Codes)
  <2> SUFFICES ASSUME NEW i \in 1 .. n PROVE seqs[i] \in Seq(Codes) /\ Len(seqs[i]) = 7
    BY DEF Sevens
  <2>1. K[i] \in Signers /\ V[i] \in Int
    BY <1>1
  <2> QED BY <1>4, <2>1, ClauseLengths
<1>8. PICK q : q = FlattenSeq(seqs)
  OBVIOUS
<1>9. Laid(q, seqs, n, Codes)
  BY <1>5, <1>7, <1>8, Flattened
<1>10. PICK e : e = EndOf(h)
  OBVIOUS
<1>11. e \in Seq(Codes) /\ Len(e) = 4 /\ q \in Seq(Codes) /\ Len(q) = 7 * n
  <2>1. K[1] \in Signers
    BY <1>1
  <2> QED BY <1>1, <1>9, <1>10, <2>1, ClauseLengths DEF Laid
<1>12. PICK p : p = q \o e
  OBVIOUS
<1>13. Len(p) = 7 * n + 4
  <2>1. Len(p) = Len(q) + Len(e)
    BY <1>11, <1>12, ConcatProperties
  <2> QED BY <1>11, <2>1
<1>14. \A k \in 1 .. (Len(q) + Len(e)) : p[k] = IF k <= Len(q) THEN q[k] ELSE e[k - Len(q)]
  BY <1>11, <1>12, ConcatProperties
<1>15. \A m \in 1 .. 4 : p[7 * n + m] = EndOf(h)[m]
  BY <1>10, <1>11, <1>14
<1>16. ASSUME NEW i \in 1 .. n, NEW m \in 1 .. 7
       PROVE  p[7 * (i - 1) + m] = seqs[i][m]
  <2>1. q[7 * (i - 1) + m] = seqs[i][m]
    BY <1>9 DEF Laid
  <2>2. 7 * (i - 1) + m \in 1 .. (Len(q) + Len(e)) /\ 7 * (i - 1) + m <= Len(q)
    BY <1>11
  <2> QED BY <1>14, <2>1, <2>2
<1>17. ASSUME NEW m \in 1 .. 7 PROVE p[m] = FirstOf(K[1], V[1])[m]
  <2>1. 1 \in 1 .. n /\ 7 * (1 - 1) + m = m
    OBVIOUS
  <2> QED BY <1>4, <1>16, <2>1
<1>18. ASSUME NEW i \in 2 .. n, NEW m \in 1 .. 7 PROVE p[7 * (i - 1) + m] = OtherOf(K[i], V[i])[m]
  <2>1. i \in 1 .. n /\ i # 1
    OBVIOUS
  <2> QED BY <1>4, <1>16, <2>1
<1>19. IsScript(p, n, K, V, h)
  BY <1>13, <1>15, <1>17, <1>18 DEF IsScript
<1> QED BY <1>6, <1>8, <1>10, <1>12, <1>19

-----------------------------------------------------------------------------
(* The order of signatories.                                                *)

(* It is a strict total order.                                              *)
LEMMA BeforeOrder ==
    ASSUME NEW s \in Signers, NEW t \in Signers, NEW u \in Signers
    PROVE  /\ ~Before(s, s)
           /\ ~(Before(s, t) /\ Before(t, s))
           /\ Before(s, t) /\ Before(t, u) => Before(s, u)
           /\ s # t => Before(s, t) \/ Before(t, s)
<1>1. /\ Power[s] \in Nat /\ Power[t] \in Nat /\ Power[u] \in Nat
      /\ Rank[s] \in Int /\ Rank[t] \in Int /\ Rank[u] \in Int
      /\ Rank[s] = Rank[t] => s = t
  BY SigningAssumption, SpendingAssumption
<1> QED BY <1>1 DEF Before

(* The last of a set.                                                       *)
LEMMA LastExists ==
    ASSUME NEW S, S \subseteq Signers, S # {}
    PROVE  \E e \in S : \A t \in S \ {e} : Before(t, e)
<1> DEFINE HasLast(U) == \E e \in U : \A t \in U \ {e} : Before(t, e)
           Bad == {U \in SUBSET S : U # {} /\ ~HasLast(U)}
<1>1. SUFFICES ASSUME Bad # {} PROVE FALSE
  <2>1. S \notin Bad
    BY <1>1
  <2> QED BY <2>1
<1>2. IsFiniteSet(S)
  BY SigningAssumption, FS_Subset
<1>3. PICK U \in Bad : \A k \in Bad : k \subseteq U => k = U
  <2>1. Bad \in SUBSET (SUBSET S)
    OBVIOUS
  <2> HIDE DEF Bad
  <2> QED BY <1>1, <1>2, <2>1, MinimalSubset
<1>4. U \subseteq S /\ U # {} /\ ~HasLast(U)
  OBVIOUS
<1>5. PICK d \in U : TRUE
  BY <1>4
<1>6. PICK X : X = U \ {d}
  OBVIOUS
<1>7. CASE X = {}
  <2>1. \A t \in U \ {d} : Before(t, d)
    BY <1>6, <1>7
  <2> QED BY <1>4, <1>5, <2>1
<1>8. CASE X # {}
  <2>1. X \notin Bad /\ X \in SUBSET S
    <3> HIDE DEF Bad
    <3> QED BY <1>3, <1>4, <1>5, <1>6
  <2>2. PICK e \in X : \A t \in X \ {e} : Before(t, e)
    BY <1>8, <2>1
  <2>3. d \in Signers /\ e \in Signers /\ d # e /\ \A t \in U : t \in Signers
    BY <1>4, <1>5, <1>6
  <2>4. CASE Before(d, e)
    <3>1. \A t \in U \ {e} : Before(t, e)
      BY <1>6, <2>2, <2>4
    <3> QED BY <1>4, <1>6, <3>1
  <2>5. CASE Before(e, d)
    <3>1. ASSUME NEW t \in U \ {d} PROVE Before(t, d)
      <4>1. t = e \/ Before(t, e)
        BY <1>6, <2>2
      <4> QED BY <2>3, <2>5, <4>1, BeforeOrder
    <3> QED BY <1>4, <1>5, <3>1
  <2> QED BY <2>3, <2>4, <2>5, BeforeOrder
<1> QED BY <1>7, <1>8

(* A set in ascending order.                                                *)
IsListing(f, S, n) ==
    /\ n = Cardinality(S)
    /\ f \in [1 .. n -> S]
    /\ \A i, j \in 1 .. n : i < j => Before(f[i], f[j])

(* Every set of signatories has one.                                        *)
LEMMA ListingExists ==
    ASSUME NEW S, S \subseteq Signers
    PROVE  \E f : IsListing(f, S, Cardinality(S))
<1> DEFINE Bad == {U \in SUBSET S : ~\E f : IsListing(f, U, Cardinality(U))}
<1>1. SUFFICES ASSUME Bad # {} PROVE FALSE
  <2>1. S \notin Bad
    BY <1>1
  <2> QED BY <2>1
<1>2. IsFiniteSet(S)
  BY SigningAssumption, FS_Subset
<1>3. PICK U \in Bad : \A k \in Bad : k \subseteq U => k = U
  <2>1. Bad \in SUBSET (SUBSET S)
    OBVIOUS
  <2> HIDE DEF Bad
  <2> QED BY <1>1, <1>2, <2>1, MinimalSubset
<1>4. U \subseteq S /\ ~\E f : IsListing(f, U, Cardinality(U))
  OBVIOUS
<1>5. IsFiniteSet(U) /\ U \subseteq Signers
  BY <1>2, <1>4, FS_Subset
<1>6. CASE U = {}
  <2>1. Cardinality(U) = 0
    BY <1>6, FS_EmptySet
  <2> DEFINE f == [i \in 1 .. 0 |-> 0]
  <2>2. f \in [1 .. 0 -> U]
    OBVIOUS
  <2>3. IsListing(f, U, 0)
    BY <2>1, <2>2 DEF IsListing
  <2> QED BY <1>4, <2>1, <2>3
<1>7. CASE U # {}
  <2>1. PICK e \in U : \A t \in U \ {e} : Before(t, e)
    BY <1>5, <1>7, LastExists
  <2>2. PICK X : X = U \ {e}
    OBVIOUS
  <2>3. X \notin Bad /\ X \in SUBSET S
    <3> HIDE DEF Bad
    <3> QED BY <1>3, <1>4, <2>1, <2>2
  <2>4. PICK n : n = Cardinality(U)
    OBVIOUS
  <2>5. n \in Nat /\ n > 0 /\ Cardinality(X) = n - 1
    <3>1. n \in Nat /\ Cardinality(X) = n - 1
      BY <1>5, <2>2, <2>4, FS_CardinalityType, FS_RemoveElement
    <3>2. n # 0
      BY <1>5, <1>7, <2>4, FS_EmptySet
    <3> QED BY <3>1, <3>2
  <2>6. PICK g : IsListing(g, X, Cardinality(X))
    BY <2>3
  <2>7. g \in [1 .. (n - 1) -> X] /\ \A i, j \in 1 .. (n - 1) : i < j => Before(g[i], g[j])
    BY <2>5, <2>6 DEF IsListing
  <2> DEFINE f == [i \in 1 .. n |-> IF i = n THEN e ELSE g[i]]
  <2>8. ASSUME NEW i \in 1 .. n
        PROVE  f[i] \in U /\ (i # n => f[i] = g[i] /\ f[i] \in X) /\ (i = n => f[i] = e)
    BY <2>1, <2>2, <2>5, <2>7
  <2>9. f \in [1 .. n -> U]
    BY <2>8
  <2> HIDE DEF f
  <2>10. ASSUME NEW i \in 1 .. n, NEW j \in 1 .. n, i < j PROVE Before(f[i], f[j])
    <3>1. i # n /\ i \in 1 .. (n - 1)
      BY <2>5, <2>10
    <3>2. CASE j = n
      <4>1. f[i] \in U \ {e} /\ f[j] = e
        BY <2>2, <2>8, <3>1, <3>2
      <4> QED BY <2>1, <4>1
    <3>3. CASE j # n
      <4>1. j \in 1 .. (n - 1)
        BY <2>5, <3>3
      <4> QED BY <2>7, <2>8, <2>10, <3>1, <3>3, <4>1
    <3> QED BY <3>2, <3>3
  <2>11. IsListing(f, U, n)
    BY <2>4, <2>9, <2>10 DEF IsListing
  <2> QED BY <1>4, <2>4, <2>11
<1> QED BY <1>6, <1>7

(* It names each member once.                                               *)
NamesOnce(f, S, n) ==
    /\ n \in Nat
    /\ f \in [1 .. n -> S]
    /\ f \in Bijection(1 .. n, S)
    /\ \A i, j \in 1 .. n : f[i] = f[j] => i = j
    /\ \A s \in S : \E i \in 1 .. n : f[i] = s

(* By counting.                                                             *)
LEMMA ListingOnto ==
    ASSUME NEW S, S \subseteq Signers, NEW n, NEW f, IsListing(f, S, n)
    PROVE  NamesOnce(f, S, n)
<1>1. IsFiniteSet(S)
  BY SigningAssumption, FS_Subset
<1>2. /\ n = Cardinality(S) /\ n \in Nat /\ f \in [1 .. n -> S]
      /\ \A i, j \in 1 .. n : i < j => Before(f[i], f[j])
  BY <1>1, FS_CardinalityType DEF IsListing
<1>3. ASSUME NEW i \in 1 .. n, NEW j \in 1 .. n, f[i] = f[j] PROVE i = j
  <2>1. f[i] \in Signers /\ ~Before(f[i], f[i])
    BY <1>2, BeforeOrder
  <2>2. ~(i < j) /\ ~(j < i)
    BY <1>2, <1>3, <2>1
  <2> QED BY <1>2, <2>2
<1>4. f \in Injection(1 .. n, S)
  BY <1>2, <1>3 DEF Injection, IsInjective
<1>5. IsFiniteSet(1 .. n) /\ Cardinality(1 .. n) = n
  BY <1>2, FS_Interval
<1>6. f \in Surjection(1 .. n, S)
  BY <1>1, <1>2, <1>4, <1>5, FS_Injection
<1>7. f \in Bijection(1 .. n, S) /\ \A s \in S : \E i \in 1 .. n : f[i] = s
  BY <1>4, <1>6 DEF Bijection, Surjection
<1> QED BY <1>2, <1>3, <1>7 DEF NamesOnce

(* And there is only one.                                                   *)
LEMMA ListingUnique ==
    ASSUME NEW S, S \subseteq Signers, NEW n, NEW f, NEW g, IsListing(f, S, n), IsListing(g, S, n)
    PROVE  f = g
<1>1. /\ n \in Nat /\ f \in [1 .. n -> S] /\ g \in [1 .. n -> S]
      /\ \A i, j \in 1 .. n : f[i] = f[j] => i = j
      /\ \A i, j \in 1 .. n : g[i] = g[j] => i = j
  <2>1. NamesOnce(f, S, n) /\ NamesOnce(g, S, n)
    BY ListingOnto
  <2> QED BY <2>1 DEF NamesOnce
<1>2. \A s \in S : (\E i \in 1 .. n : f[i] = s) /\ (\E i \in 1 .. n : g[i] = s)
  <2>1. NamesOnce(f, S, n) /\ NamesOnce(g, S, n)
    BY ListingOnto
  <2> QED BY <2>1 DEF NamesOnce
<1>3. /\ \A i, j \in 1 .. n : i < j => Before(f[i], f[j])
      /\ \A i, j \in 1 .. n : i < j => Before(g[i], g[j])
  BY DEF IsListing
<1> DEFINE Bad == {i \in Nat : i \in 1 .. n /\ f[i] # g[i]}
<1>4. ASSUME Bad # {} PROVE FALSE
  <2>1. Bad \in SUBSET Nat
    OBVIOUS
  <2>2. PICK i \in Bad : \A k \in Bad : i <= k
    <3> HIDE DEF Bad
    <3> QED BY <1>4, <2>1, LeastNat
  <2>3. i \in 1 .. n /\ f[i] # g[i]
    OBVIOUS
  <2>4. \A k \in 1 .. n : k < i => f[k] = g[k]
    BY <1>1, <2>2, <2>3
  <2>5. f[i] \in S /\ g[i] \in S
    BY <1>1, <2>3
  <2>6. PICK j \in 1 .. n : g[j] = f[i]
    BY <1>2, <2>5
  <2>7. PICK k \in 1 .. n : f[k] = g[i]
    BY <1>2, <2>5
  <2>8. j # i /\ k # i /\ ~(j < i) /\ ~(k < i)
    BY <1>1, <2>3, <2>4, <2>6, <2>7
  <2>9. i < j /\ i < k
    BY <1>1, <2>3, <2>8
  <2>10. Before(g[i], f[i]) /\ Before(f[i], g[i])
    BY <1>3, <2>3, <2>6, <2>7, <2>9
  <2> QED BY <2>5, <2>10, BeforeOrder
<1>5. \A i \in 1 .. n : f[i] = g[i]
  BY <1>1, <1>4
<1> QED BY <1>1, <1>5

(* The script names the signatories in the reverse order of the witness.    *)
LEMMA OrdersAreReverse ==
    ASSUME NEW S, S \subseteq Signers, NEW n, n = Cardinality(S)
    PROVE  /\ IsListing(WitnessOrder(S), S, n)
           /\ ScriptOrder(S) \in [1 .. n -> S]
           /\ \A i \in 1 .. n : ScriptOrder(S)[i] = WitnessOrder(S)[n + 1 - i]
<1>1. PICK f : IsListing(f, S, n)
  BY ListingExists
<1>2. n \in Nat /\ f \in [1 .. n -> S] /\ \A i, j \in 1 .. n : i < j => Before(f[i], f[j])
  BY <1>1, ListingOnto DEF IsListing, NamesOnce
<1>3. PICK w : w = WitnessOrder(S)
  OBVIOUS
<1>4. IsListing(w, S, n)
  <2>1. DOMAIN f = 1 .. n
    BY <1>2
  <2>2. \A i, j \in DOMAIN f : i < j => Before(f[i], f[j])
    BY <1>2, <2>1
  <2>3. w \in [1 .. n -> S] /\ \A i, j \in DOMAIN w : i < j => Before(w[i], w[j])
    BY <1>2, <1>3, <2>2 DEF WitnessOrder
  <2>4. DOMAIN w = 1 .. n
    BY <2>3
  <2> QED BY <2>3, <2>4 DEF IsListing
<1>5. PICK g : g = ScriptOrder(S)
  OBVIOUS
<1>6. g \in [1 .. n -> S] /\ \A i, j \in 1 .. n : i < j => Before(g[j], g[i])
  <2> DEFINE r == [i \in 1 .. n |-> f[n + 1 - i]]
  <2>1. ASSUME NEW i \in 1 .. n PROVE n + 1 - i \in 1 .. n /\ r[i] = f[n + 1 - i] /\ r[i] \in S
    BY <1>2
  <2>2. r \in [1 .. n -> S] /\ DOMAIN r = 1 .. n
    BY <2>1
  <2> HIDE DEF r
  <2>3. ASSUME NEW i \in 1 .. n, NEW j \in 1 .. n, i < j PROVE Before(r[j], r[i])
    <3>1. n + 1 - j \in 1 .. n /\ n + 1 - i \in 1 .. n /\ n + 1 - j < n + 1 - i
      BY <1>2, <2>3
    <3> QED BY <1>2, <2>1, <3>1
  <2>4. r \in [1 .. n -> S] /\ \A i, j \in DOMAIN r : i < j => Before(r[j], r[i])
    BY <2>2, <2>3
  <2>5. g \in [1 .. n -> S] /\ \A i, j \in DOMAIN g : i < j => Before(g[j], g[i])
    BY <1>5, <2>4 DEF ScriptOrder
  <2>6. DOMAIN g = 1 .. n
    BY <2>5
  <2> QED BY <2>5, <2>6
<1> DEFINE r == [i \in 1 .. n |-> g[n + 1 - i]]
<1>7. ASSUME NEW i \in 1 .. n PROVE n + 1 - i \in 1 .. n /\ r[i] = g[n + 1 - i] /\ r[i] \in S
  BY <1>2, <1>6
<1>8. r \in [1 .. n -> S]
  BY <1>7
<1> HIDE DEF r
<1>9. ASSUME NEW i \in 1 .. n, NEW j \in 1 .. n, i < j PROVE Before(r[i], r[j])
  <2>1. n + 1 - j \in 1 .. n /\ n + 1 - i \in 1 .. n /\ n + 1 - j < n + 1 - i
    BY <1>2, <1>9
  <2> QED BY <1>6, <1>7, <2>1
<1>10. IsListing(r, S, n)
  BY <1>8, <1>9 DEF IsListing
<1>11. r = w
  BY <1>4, <1>10, ListingUnique
<1>12. ASSUME NEW i \in 1 .. n PROVE g[i] = w[n + 1 - i]
  <2>1. n + 1 - i \in 1 .. n /\ n + 1 - (n + 1 - i) = i
    BY <1>2
  <2> QED BY <1>7, <1>11, <2>1
<1> QED BY <1>3, <1>4, <1>5, <1>6, <1>12

-----------------------------------------------------------------------------
(* The precision of the script.                                             *)

LEMMA PowerOfTwo ==
    ASSUME NEW t \in Nat
    PROVE  2^t \in Nat /\ 2^t > 0
<1>1. IsFiniteSet(1 .. t) /\ Cardinality(1 .. t) = t
  BY FS_Interval
<1>2. PICK X : X = SUBSET (1 .. t)
  OBVIOUS
<1>3. IsFiniteSet(X) /\ Cardinality(X) = 2^t
  BY <1>1, <1>2, FS_SUBSET
<1>4. X # {}
  BY <1>2
<1>5. Cardinality(X) \in Nat /\ Cardinality(X) # 0
  BY <1>3, <1>4, FS_CardinalityType, FS_EmptySet
<1> QED BY <1>3, <1>5

(* A number is less than two to its power.                                  *)
LEMMA LessThanPower ==
    ASSUME NEW n \in Nat
    PROVE  n < 2^n
<1>1. IsFiniteSet(1 .. n) /\ Cardinality(1 .. n) = n
  BY FS_Interval
<1>2. PICK X : X = SUBSET (1 .. n)
  OBVIOUS
<1>3. IsFiniteSet(X) /\ Cardinality(X) = 2^n
  BY <1>1, <1>2, FS_SUBSET
<1> DEFINE f == [k \in 0 .. n |-> 1 .. k]
<1>4. ASSUME NEW k \in 0 .. n PROVE f[k] = 1 .. k /\ f[k] \in X
  BY <1>2
<1>5. ASSUME NEW j \in 0 .. n, NEW k \in 0 .. n, f[j] = f[k] PROVE j = k
  <2>1. 1 .. j = 1 .. k
    BY <1>4, <1>5
  <2>2. CASE j < k
    <3>1. k \in 1 .. k /\ k \notin 1 .. j
      BY <2>2
    <3> QED BY <2>1, <3>1
  <2>3. CASE k < j
    <3>1. j \in 1 .. j /\ j \notin 1 .. k
      BY <2>3
    <3> QED BY <2>1, <3>1
  <2> QED BY <2>2, <2>3
<1>6. f \in [0 .. n -> X]
  BY <1>4
<1> HIDE DEF f
<1>7. f \in Injection(0 .. n, X)
  BY <1>5, <1>6 DEF Injection, IsInjective
<1>8. Cardinality(0 .. n) <= Cardinality(X)
  BY <1>3, <1>7, FS_Injection
<1>9. Cardinality(0 .. n) = n + 1
  BY FS_Interval
<1>10. 2^n \in Nat
  BY PowerOfTwo
<1> QED BY <1>3, <1>8, <1>9, <1>10

(* The bits of a number: it has that many.                                  *)
LEMMA BitsOf ==
    ASSUME NEW n \in Nat
    PROVE  Bits(n) \in 0 .. n /\ (Bits(n) = 0 \/ 2^(Bits(n) - 1) <= n)
<1> DEFINE T == {b \in Nat : n < 2^b}
<1>1. n \in T
  BY LessThanPower
<1>2. PICK b \in T : \A k \in T : b <= k
  <2>1. T \in SUBSET Nat
    OBVIOUS
  <2> HIDE DEF T
  <2> QED BY <1>1, <2>1, LeastNat
<1>3. b \in 0 .. n /\ n < 2^b
  BY <1>1, <1>2
<1>4. b = 0 \/ 2^(b - 1) <= n
  <2>1. SUFFICES ASSUME b # 0 PROVE 2^(b - 1) <= n
    OBVIOUS
  <2>2. PICK a \in Nat : a = b - 1
    BY <1>3, <2>1
  <2>3. a \notin T
    BY <1>2, <1>3, <2>2
  <2>4. 2^a \in Nat /\ ~(n < 2^a)
    BY <2>3, PowerOfTwo
  <2> QED BY <2>2, <2>4
<1> QED BY <1>3, <1>4 DEF Bits

(* The shift.                                                               *)
LEMMA TruncationNat ==
    ASSUME NEW n \in Nat
    PROVE  Truncation(n) \in Nat
<1>1. Bits(n) \in 0 .. n
  BY BitsOf
<1> QED BY <1>1, ScriptAssumption DEF Truncation

-----------------------------------------------------------------------------
(* Whom the script lets spend.                                              *)

(* The power the script gives to signatories, and its unit.                 *)
Unit(S) == 2^Truncation(TotalPower(S))

Shares(S, T) == [s \in T |-> Power[s] \div Unit(S)]

Bar(S) == RatioThreshold(TotalPower(S), Ratio) \div Unit(S)

(* They are numbers.                                                        *)
LEMMA ShareTypes ==
    ASSUME NEW S, S \subseteq Signers
    PROVE  /\ Unit(S) \in Nat /\ Unit(S) > 0
           /\ RatioThreshold(TotalPower(S), Ratio) \in Nat
           /\ Bar(S) \in Nat
           /\ \A s \in Signers : Power[s] \div Unit(S) \in Nat
<1>1. TotalPower(S) \in Nat
  BY PowerSum
<1>2. Unit(S) \in Nat /\ Unit(S) > 0
  BY <1>1, TruncationNat, PowerOfTwo DEF Unit
<1>3. RatioThreshold(TotalPower(S), Ratio) \in Nat
  <2>1. PICK a \in Nat, r \in Nat, d \in Nat \ {0} : a = TotalPower(S) /\ r = Ratio[1] /\ d = Ratio[2]
    BY <1>1, SpendingAssumption
  <2>2. a * r \in Nat
    OBVIOUS
  <2>3. (a * r) \div d \in Nat
    BY <2>2
  <2> QED BY <2>1, <2>3 DEF RatioThreshold
<1>4. Bar(S) \in Nat
  BY <1>2, <1>3 DEF Bar
<1>5. \A s \in Signers : Power[s] \div Unit(S) \in Nat
  BY <1>2, SigningAssumption
<1> QED BY <1>2, <1>3, <1>4, <1>5

(* The witness of those who signed, and what it is worth.                   *)
CountsFor(f, T, n, K, V) == f = [i \in 1 .. n |-> IF K[i] \in T THEN V[i] ELSE 0]

(* Element by element, from the last.                                       *)
LEMMA WitnessIs ==
    ASSUME NEW S, S \subseteq Signers, NEW T, T \subseteq S, NEW n, n = Cardinality(S),
           NEW K, K = ScriptOrder(S), NEW V, V \in [1 .. n -> Int], NEW W, W = Witness(S, T),
           NEW f, CountsFor(f, T, n, K, V)
    PROVE  W \in Seq(Items) /\ Len(W) = n /\ IsWorth(f, W, n, K, V)
<1>1. PICK w : w = WitnessOrder(S)
  OBVIOUS
<1>2. /\ IsListing(w, S, n) /\ K \in [1 .. n -> S]
      /\ \A i \in 1 .. n : K[i] = w[n + 1 - i]
  BY <1>1, OrdersAreReverse
<1>3. n \in Nat /\ w \in [1 .. n -> S]
  BY <1>2, ListingOnto DEF NamesOnce
<1>4. W = [i \in 1 .. n |-> IF w[i] \in T THEN Signature(w[i]) ELSE NoSignature]
  BY <1>1, <1>3 DEF Witness
<1>5. ASSUME NEW i \in 1 .. n PROVE W[i] \in Items
  <2>1. w[i] \in Signers /\ (W[i] = Signature(w[i]) \/ W[i] = NoSignature)
    BY <1>3, <1>4
  <2> QED BY <2>1 DEF Items
<1>6. W \in [1 .. n -> Items]
  BY <1>4, <1>5
<1>7. W \in Seq(Items) /\ Len(W) = n
  BY <1>3, <1>6
<1>8. ASSUME NEW i \in 1 .. n PROVE f[i] = Worth(W[n + 1 - i], K[i], V[i])
  <2>1. PICK j \in 1 .. n : j = n + 1 - i
    BY <1>3
  <2>2. K[i] = w[j] /\ W[j] = IF w[j] \in T THEN Signature(w[j]) ELSE NoSignature
    BY <1>2, <1>4, <2>1
  <2>3. NoSignature # Signature(w[j])
    BY DEF NoSignature, Signature
  <2>4. f[i] = IF K[i] \in T THEN V[i] ELSE 0
    BY DEF CountsFor
  <2> QED BY <2>1, <2>2, <2>3, <2>4 DEF Worth
<1>9. K \in [1 .. n -> Signers]
  BY <1>2
<1> QED BY <1>7, <1>8, <1>9 DEF IsWorth

(* The order of the script names each signatory once, too.                  *)
LEMMA ScriptOrderOnto ==
    ASSUME NEW S, S \subseteq Signers, NEW n, n = Cardinality(S), NEW K, K = ScriptOrder(S)
    PROVE  n \in Nat /\ K \in [1 .. n -> S] /\ K \in Bijection(1 .. n, S)
<1>1. PICK w : w = WitnessOrder(S)
  OBVIOUS
<1>2. /\ IsListing(w, S, n) /\ K \in [1 .. n -> S]
      /\ \A i \in 1 .. n : K[i] = w[n + 1 - i]
  BY <1>1, OrdersAreReverse
<1>3. /\ n \in Nat /\ w \in [1 .. n -> S]
      /\ \A i, j \in 1 .. n : w[i] = w[j] => i = j
      /\ \A s \in S : \E i \in 1 .. n : w[i] = s
  <2>1. NamesOnce(w, S, n)
    BY <1>2, ListingOnto
  <2> QED BY <2>1 DEF NamesOnce
<1>4. ASSUME NEW i \in 1 .. n, NEW j \in 1 .. n, K[i] = K[j] PROVE i = j
  <2>1. n + 1 - i \in 1 .. n /\ n + 1 - j \in 1 .. n
    BY <1>3
  <2>2. n + 1 - i = n + 1 - j
    BY <1>2, <1>3, <1>4, <2>1
  <2> QED BY <1>3, <2>2
<1>5. ASSUME NEW s \in S PROVE \E i \in 1 .. n : K[i] = s
  <2>1. PICK j \in 1 .. n : w[j] = s
    BY <1>3
  <2>2. PICK i \in 1 .. n : n + 1 - i = j
    <3>1. n + 1 - j \in 1 .. n /\ n + 1 - (n + 1 - j) = j
      BY <1>3
    <3> QED BY <3>1
  <2> QED BY <1>2, <2>1, <2>2
<1> QED BY <1>2, <1>3, <1>4, <1>5 DEF Bijection, Injection, IsInjective, Surjection

(* The script accepts the witness of those whose truncated powers are over  *)
(* the truncated threshold.                                                 *)
LEMMA SpendRule ==
    ASSUME NEW S, S \subseteq Signers, S # {}, NEW T, T \subseteq S
    PROVE  Accepts(Script(Sigset(S), Ratio, Dest), Witness(S, T))
             <=> SumFunctionOnSet(Shares(S, T), T) > Bar(S)
<1>1. PICK n, K, W : n = Cardinality(S) /\ K = ScriptOrder(S) /\ W = Witness(S, T)
  OBVIOUS
<1>2. n \in Nat /\ K \in [1 .. n -> S] /\ K \in Bijection(1 .. n, S)
  BY <1>1, ScriptOrderOnto
<1>3. IsFiniteSet(S) /\ IsFiniteSet(T) /\ IsFiniteSet(S \ T)
  BY SigningAssumption, FS_Subset
<1>4. n # 0
  BY <1>1, <1>3, FS_EmptySet
<1>5. /\ Unit(S) \in Nat /\ Unit(S) > 0 /\ Bar(S) \in Nat
      /\ \A s \in Signers : Power[s] \div Unit(S) \in Nat
  BY ShareTypes
<1>6. PICK h \in Int : h = Bar(S)
  BY <1>5
<1>7. PICK p : p = TotalPower(S)
  OBVIOUS
<1> DEFINE V == [i \in 1 .. n |-> Power[K[i]] \div Unit(S)]
           F == [s \in S |-> IF s \in T THEN Power[s] \div Unit(S) ELSE 0]
           f == [i \in 1 .. n |-> IF K[i] \in T THEN V[i] ELSE 0]
<1>8. ASSUME NEW i \in 1 .. n
      PROVE  V[i] = Power[K[i]] \div Unit(S) /\ V[i] \in Int /\ K[i] \in S
  <2>1. K[i] \in S /\ K[i] \in Signers
    BY <1>2
  <2>2. Power[K[i]] \div Unit(S) \in Int
    BY <1>5, <2>1
  <2> QED BY <2>1, <2>2
<1>9. V \in [1 .. n -> Int]
  BY <1>8
<1> HIDE DEF V
<1>10. ASSUME NEW s \in S
       PROVE  /\ F[s] \in Int
              /\ s \in T => F[s] = Shares(S, T)[s]
              /\ s \notin T => F[s] = 0
  <2>1. PICK q \in Int : q = Power[s] \div Unit(S)
    BY <1>5
  <2>2. F[s] = IF s \in T THEN q ELSE 0
    BY <2>1
  <2>3. s \in T => Shares(S, T)[s] = q
    BY <2>1 DEF Shares
  <2> QED BY <2>2, <2>3
<1>11. ASSUME NEW i \in 1 .. n PROVE f[i] \in Int /\ F[K[i]] = f[i]
  <2>1. PICK q \in Int : q = Power[K[i]] \div Unit(S)
    BY <1>8
  <2>2. f[i] = IF K[i] \in T THEN q ELSE 0
    BY <1>8, <2>1
  <2>3. F[K[i]] = IF K[i] \in T THEN q ELSE 0
    BY <1>8, <2>1
  <2> QED BY <2>2, <2>3
<1>a. CountsFor(f, T, n, K, V)
  BY DEF CountsFor
<1> HIDE DEF F, f
<1>12. W \in Seq(Items) /\ Len(W) = n /\ IsWorth(f, W, n, K, V)
  BY <1>1, <1>9, <1>a, WitnessIs
<1> DEFINE Q == [i \in 1 .. n |-> Power[K[i]]]
<1>13. IsTruncated(K, Q, V, n, p, h)
  <2>1. K \in [1 .. n -> Signers]
    BY <1>2
  <2>2. \A i \in 1 .. n : V[i] = Truncated(Q[i], p)
    BY <1>7, <1>8 DEF Truncated, Unit
  <2>3. h = Truncated(RatioThreshold(p, Ratio), p)
    BY <1>6, <1>7 DEF Bar, Truncated, Unit
  <2> QED BY <1>9, <2>1, <2>2, <2>3 DEF IsTruncated
<1>14. Sigset(S) = SetOf(K, Q, n, p)
  <2>1. DOMAIN K = 1 .. n
    BY <1>2
  <2> QED BY <1>1, <1>7, <2>1 DEF Sigset, SetOf
<1> HIDE DEF Q
<1>15. PICK script : script = Script(SetOf(K, Q, n, p), Ratio, Dest)
  OBVIOUS
<1>16. IsScript(script, n, K, V, h)
  BY <1>2, <1>4, <1>13, <1>15, ScriptIs
<1>17. Accepts(script, W) <=> SumFunctionOnSet(f, 1 .. n) > h
  BY <1>2, <1>4, <1>12, <1>16, AcceptsWorth
<1>18. SumFunctionOnSet(F, S) = SumFunctionOnSet(f, 1 .. n)
  <2>1. IsFiniteSet(1 .. n)
    BY <1>2, FS_Interval
  <2> QED BY <1>2, <1>11, <2>1, SumRenamed
<1>19. SumFunctionOnSet(F, S) = SumFunctionOnSet(Shares(S, T), T)
  <2>1. S = T \cup (S \ T) /\ T \cap (S \ T) = {}
    OBVIOUS
  <2>2. SumFunctionOnSet(F, T \cup (S \ T))
          = SumFunctionOnSet(F, T) + SumFunctionOnSet(F, S \ T)
    <3>1. \A s \in T \cup (S \ T) : F[s] \in Int
      BY <1>10
    <3> QED BY <1>3, <2>1, <3>1, SumUnion
  <2>3. SumFunctionOnSet(F, S \ T) = 0
    <3>1. \A s \in S \ T : F[s] = 0
      BY <1>10
    <3> QED BY <1>3, <3>1, SumZero
  <2>4. SumFunctionOnSet(F, T) = SumFunctionOnSet(Shares(S, T), T)
    <3>1. \A s \in T : F[s] = Shares(S, T)[s]
      BY <1>10
    <3> QED BY <1>3, <3>1, SumSame
  <2>5. SumFunctionOnSet(F, T) \in Int
    <3>1. \A s \in T : F[s] \in Int
      BY <1>10
    <3> QED BY <1>3, <3>1, SumInt
  <2> QED BY <2>1, <2>2, <2>3, <2>4, <2>5
<1> QED BY <1>1, <1>6, <1>14, <1>15, <1>17, <1>18, <1>19

(* The power of those who signed, in units of the script and what is left   *)
(* over.                                                                    *)
LEMMA PowerSplits ==
    ASSUME NEW S, S \subseteq Signers, NEW T, T \subseteq S
    PROVE  /\ SumFunctionOnSet(Shares(S, T), T) \in Nat
           /\ Lost(S, T) \in Nat
           /\ TotalPower(T) = Unit(S) * SumFunctionOnSet(Shares(S, T), T) + Lost(S, T)
<1>1. PICK u \in Nat \ {0} : u = Unit(S)
  BY ShareTypes
<1>2. IsFiniteSet(T) /\ T \subseteq Signers /\ TotalPower(T) = SumFunctionOnSet(Power, T)
  BY PowerSum
<1>3. PICK d : d = Shares(S, T)
  OBVIOUS
<1> DEFINE m == [s \in T |-> Power[s] % u]
<1>4. Lost(S, T) = SumFunctionOnSet(m, T)
  BY <1>1 DEF Lost, SumFunction, Unit
<1>5. ASSUME NEW s \in T
      PROVE  d[s] \in Nat /\ m[s] \in Nat /\ Power[s] \in Nat /\ Power[s] = u * d[s] + m[s]
  <2>1. PICK p \in Nat : p = Power[s]
    BY <1>2, SigningAssumption
  <2>2. p \div u \in Nat /\ p % u \in Nat /\ p = (u * (p \div u)) + (p % u)
    OBVIOUS
  <2>3. d[s] = p \div u /\ m[s] = p % u
    BY <1>1, <1>3, <2>1 DEF Shares
  <2> QED BY <2>1, <2>2, <2>3
<1> HIDE DEF m
<1>6. SumFunctionOnSet(d, T) \in Nat /\ SumFunctionOnSet(m, T) \in Nat
  BY <1>2, <1>5, SumNat
<1>7. PICK b \in Int : b = -1
  OBVIOUS
<1>8. Combined(Power, u, d, b, m, T)
  <2>1. ASSUME NEW s \in T PROVE Power[s] = (u * d[s]) - (b * m[s])
    <3>1. b * m[s] = 0 - m[s]
      BY <1>5, <1>7
    <3>2. u * d[s] \in Int
      BY <1>5
    <3> QED BY <1>5, <3>1, <3>2
  <2> QED BY <1>5, <2>1 DEF Combined
<1>9. SumFunctionOnSet(Power, T) = u * SumFunctionOnSet(d, T) - b * SumFunctionOnSet(m, T)
  BY <1>2, <1>8, SumCombined
<1>10. b * SumFunctionOnSet(m, T) = 0 - SumFunctionOnSet(m, T)
  BY <1>6, <1>7
<1>11. u * SumFunctionOnSet(d, T) \in Int
  BY <1>6
<1> QED BY <1>1, <1>2, <1>3, <1>4, <1>6, <1>9, <1>10, <1>11

(* Quotients, rounded down.                                                 *)
LEMMA Quotient ==
    ASSUME NEW a \in Nat, NEW d \in Nat \ {0}
    PROVE  /\ a \div d \in Nat
           /\ d * (a \div d) <= a
           /\ a < d * (a \div d) + d
<1>1. a \div d \in Nat /\ a % d \in 0 .. d - 1 /\ a = (d * (a \div d)) + (a % d)
  OBVIOUS
<1> QED BY <1>1

(* Two thirds, and a ratio that is no less, or no more.                     *)
LEMMA RatioThresholds ==
    ASSUME NEW p \in Nat, NEW r \in Nat, NEW d \in Nat \ {0}
    PROVE  /\ 3 * r >= 2 * d => (p * r) \div d >= (p * 2) \div 3
           /\ 3 * r <= 2 * d => (p * r) \div d <= (p * 2) \div 3
<1>1. p * r \in Nat /\ p * 2 \in Nat
  OBVIOUS
<1>2. PICK h \in Nat : h = (p * r) \div d
  BY <1>1, Quotient
<1>3. PICK t \in Nat : t = (p * 2) \div 3
  BY <1>1, Quotient
<1>4. d * h <= p * r /\ p * r < d * h + d
  BY <1>1, <1>2, Quotient
<1>5. 3 * t <= p * 2 /\ p * 2 < 3 * t + 3
  BY <1>3
<1>6. ASSUME 3 * r >= 2 * d, h < t PROVE FALSE
  <2>1. p * (3 * r) >= p * (2 * d)
    BY <1>6
  <2>2. d * (h + 1) <= d * t
    BY <1>6
  <2>3. d * (3 * t) <= d * (p * 2)
    BY <1>5
  <2>4. PICK x \in Int, y \in Int, z \in Int, q \in Int : x = p * r /\ y = p * d /\ z = d * h /\ q = d * t
    OBVIOUS
  <2>5. p * (3 * r) = 3 * x /\ p * (2 * d) = 2 * y /\ d * (h + 1) = z + d
        /\ d * (3 * t) = 3 * q /\ d * (p * 2) = 2 * y
    BY <2>4
  <2>6. 3 * x >= 2 * y /\ z + d <= q /\ 3 * q <= 2 * y /\ x < z + d
    BY <1>4, <2>1, <2>2, <2>3, <2>4, <2>5
  <2> QED BY <2>6
<1>7. ASSUME 3 * r <= 2 * d, h > t PROVE FALSE
  <2>1. p * (3 * r) <= p * (2 * d)
    BY <1>7
  <2>2. d * (t + 1) <= d * h
    BY <1>7
  <2>3. d * (p * 2) < d * (3 * t + 3)
    BY <1>5
  <2>4. PICK x \in Int, y \in Int, z \in Int, q \in Int : x = p * r /\ y = p * d /\ z = d * h /\ q = d * t
    OBVIOUS
  <2>5. p * (3 * r) = 3 * x /\ p * (2 * d) = 2 * y /\ d * (t + 1) = q + d
        /\ d * (3 * t + 3) = 3 * q + 3 * d /\ d * (p * 2) = 2 * y
    BY <2>4
  <2>6. 3 * x <= 2 * y /\ q + d <= z /\ 2 * y < 3 * q + 3 * d /\ z <= x
    BY <1>4, <2>1, <2>2, <2>3, <2>4, <2>5
  <2> QED BY <2>6
<1> QED BY <1>2, <1>3, <1>6, <1>7

(* More units than the threshold's is more than the threshold, and back.    *)
LEMMA UnitsOver ==
    ASSUME NEW u \in Nat \ {0}, NEW c \in Nat, NEW h \in Nat
    PROVE  c > h \div u <=> u * c > h
<1>1. PICK q \in Nat : q = h \div u
  BY Quotient
<1>2. u * q <= h /\ h < u * q + u
  BY <1>1, Quotient
<1>3. CASE c > q
  <2>1. u * c >= u * (q + 1)
    BY <1>3
  <2>2. u * (q + 1) = u * q + u
    OBVIOUS
  <2>3. u * c > h
    BY <1>2, <2>1, <2>2
  <2> QED BY <1>1, <1>3, <2>3
<1>4. CASE ~(c > q)
  <2>1. u * c <= u * q
    BY <1>4
  <2>2. ~(u * c > h)
    BY <1>2, <2>1
  <2> QED BY <1>1, <1>4, <2>2
<1> QED BY <1>3, <1>4

(* Every input has signatories.                                             *)
Occupied == \A k \in DOMAIN input : DOMAIN input[k].sigs # {}

(* At first,                                                                *)
LEMMA OccupiedInv == Init => Occupied
<1> SUFFICES ASSUME Init, NEW k \in DOMAIN input PROVE DOMAIN input[k].sigs # {}
  BY DEF Occupied
<1>1. PICK n \in 1 .. MaxInputs : \E signatories \in [1 .. n -> (SUBSET Signers) \ {{}}] :
        input = [j \in 1 .. n |-> FromSigset(signatories[j])]
  BY DEF Init
<1>2. PICK signatories \in [1 .. n -> (SUBSET Signers) \ {{}}] :
        input = [j \in 1 .. n |-> FromSigset(signatories[j])]
  BY <1>1
<1>3. k \in 1 .. n /\ input[k] = FromSigset(signatories[k])
  BY <1>2
<1>4. PICK S : S = signatories[k]
  OBVIOUS
<1>5. S \subseteq Signers /\ S # {}
  <2>1. S \in (SUBSET Signers) \ {{}}
    BY <1>2, <1>3, <1>4
  <2> QED BY <2>1
<1>6. DOMAIN FromSigset(S).sigs = S
  BY <1>5, FreshShare
<1> QED BY <1>3, <1>4, <1>5, <1>6

(* and after each submission, which adds shares only.                       *)
LEMMA OccupiedKept == IInv /\ Occupied /\ [Next]_vars => Occupied'
<1> SUFFICES ASSUME IInv, Occupied, [Next]_vars PROVE Occupied'
  OBVIOUS
<1>1. CASE UNCHANGED vars
  BY <1>1 DEF vars, Occupied
<1>2. CASE Next
  <2>1. PICK s \in Signers, sigs \in Submissions, height \in Heights :
          SubmitCheckpointSignature(s, sigs, height)
    BY <1>2 DEF Next
  <2>2. DOMAIN input' = DOMAIN input
    BY <2>1, SubmitParts
  <2>3. \A k \in DOMAIN input : DOMAIN input'[k].sigs = DOMAIN input[k].sigs
    BY <2>1, SubmitSigned
  <2> QED BY <2>2, <2>3 DEF Occupied
<1> QED BY <1>1, <1>2

(* The script lets nobody spend below the contract's threshold, if its      *)
(* ratio is at least two thirds.                                            *)
THEOREM SpendingNeedsThreshold ==
    ASSUME 3 * Ratio[1] >= 2 * Ratio[2]
    PROVE  Spec => []SpendNeedsThreshold
<1>1. IInv /\ Occupied => SpendNeedsThreshold
  <2> SUFFICES ASSUME IInv, Occupied, NEW k \in DOMAIN input,
                      NEW T \in SUBSET DOMAIN input[k].sigs,
                      Accepts(ScriptOf(k), Witness(DOMAIN input[k].sigs, T))
               PROVE  TotalPower(T) > input[k].threshold
    BY DEF SpendNeedsThreshold
  <2>1. PICK S : S = DOMAIN input[k].sigs
    OBVIOUS
  <2>2. S \subseteq Signers /\ S # {} /\ T \subseteq S /\ input[k].threshold = SignatureThreshold(S)
    BY <2>1 DEF IInv, InputsOK, ShareOK, Occupied
  <2>3. Accepts(Script(Sigset(S), Ratio, Dest), Witness(S, T))
    BY <2>1 DEF ScriptOf
  <2>4. PICK c \in Nat : c = SumFunctionOnSet(Shares(S, T), T)
    BY <2>2, PowerSplits
  <2>5. PICK u \in Nat \ {0} : u = Unit(S)
    BY <2>2, ShareTypes
  <2>6. PICK h \in Nat : h = RatioThreshold(TotalPower(S), Ratio)
    BY <2>2, ShareTypes
  <2>7. c > h \div u
    BY <2>2, <2>3, <2>4, <2>5, <2>6, SpendRule DEF Bar
  <2>8. u * c > h
    BY <2>7, UnitsOver
  <2>9. PICK m \in Nat : m = Lost(S, T)
    BY <2>2, PowerSplits
  <2>10. TotalPower(T) = u * c + m
    BY <2>2, <2>4, <2>5, <2>9, PowerSplits
  <2>11. h >= SignatureThreshold(S)
    <3>1. PICK p \in Nat, r \in Nat, d \in Nat \ {0} :
            p = TotalPower(S) /\ r = Ratio[1] /\ d = Ratio[2]
      BY <2>2, PowerSum, SpendingAssumption
    <3>2. (p * r) \div d >= (p * 2) \div 3
      BY <3>1, RatioThresholds
    <3> QED BY <2>6, <3>1, <3>2 DEF RatioThreshold, SignatureThreshold
  <2>12. PICK t \in Int : t = SignatureThreshold(S)
    <3>1. TotalPower(S) \in Nat
      BY <2>2, PowerSum
    <3> QED BY <3>1 DEF SignatureThreshold
  <2>13. u * c \in Int
    OBVIOUS
  <2> QED BY <2>2, <2>8, <2>10, <2>11, <2>12, <2>13
<1>2. Init => IInv /\ Occupied
  BY InitInv, OccupiedInv
<1>3. IInv /\ Occupied /\ [Next]_vars => IInv' /\ Occupied'
  BY NextInv, OccupiedKept
<1> QED BY <1>1, <1>2, <1>3, PTL DEF Spec

(* What the contract calls signed can be spent, if the script's ratio is at *)
(* most two thirds and truncation does not take the power over the          *)
(* threshold away.                                                          *)
THEOREM SignedCanBeSpent ==
    ASSUME 3 * Ratio[1] <= 2 * Ratio[2]
    PROVE  Spec => []SignedIsSpendable
<1>1. IInv /\ Occupied => SignedIsSpendable
  <2> SUFFICES ASSUME IInv, Occupied, NEW k \in DOMAIN input,
                      NEW S, S = DOMAIN input[k].sigs, NEW T, T = SignedBy(input[k]),
                      Signed(input[k]), TotalPower(T) - Lost(S, T) > input[k].threshold
               PROVE  Accepts(ScriptOf(k), ToWitness(input[k]))
    BY DEF SignedIsSpendable
  <2>1. T \subseteq S
    BY DEF SignedBy
  <2>2. S \subseteq Signers /\ S # {} /\ T \subseteq S /\ input[k].threshold = SignatureThreshold(S)
    BY <2>1 DEF IInv, InputsOK, ShareOK, Occupied
  <2>3. ToWitness(input[k]) = Witness(S, T)
    BY DEF ToWitness
  <2>4. PICK c \in Nat : c = SumFunctionOnSet(Shares(S, T), T)
    BY <2>2, PowerSplits
  <2>5. PICK u \in Nat \ {0} : u = Unit(S)
    BY <2>2, ShareTypes
  <2>6. PICK h \in Nat : h = RatioThreshold(TotalPower(S), Ratio)
    BY <2>2, ShareTypes
  <2>9. PICK m \in Nat : m = Lost(S, T)
    BY <2>2, PowerSplits
  <2>10. TotalPower(T) = u * c + m
    BY <2>2, <2>4, <2>5, <2>9, PowerSplits
  <2>11. h <= SignatureThreshold(S)
    <3>1. PICK p \in Nat, r \in Nat, d \in Nat \ {0} :
            p = TotalPower(S) /\ r = Ratio[1] /\ d = Ratio[2]
      BY <2>2, PowerSum, SpendingAssumption
    <3>2. (p * r) \div d <= (p * 2) \div 3
      BY <3>1, RatioThresholds
    <3> QED BY <2>6, <3>1, <3>2 DEF RatioThreshold, SignatureThreshold
  <2>12. PICK t \in Int : t = SignatureThreshold(S)
    <3>1. TotalPower(S) \in Nat
      BY <2>2, PowerSum
    <3> QED BY <3>1 DEF SignatureThreshold
  <2>13. u * c > h
    <3>1. PICK x \in Int : x = u * c
      OBVIOUS
    <3> QED BY <2>2, <2>9, <2>10, <2>11, <2>12, <3>1
  <2>14. c > h \div u
    BY <2>13, UnitsOver
  <2>15. Accepts(Script(Sigset(S), Ratio, Dest), Witness(S, T))
    BY <2>2, <2>4, <2>5, <2>6, <2>14, SpendRule DEF Bar
  <2> QED BY <2>3, <2>15 DEF ScriptOf
<1>2. Init => IInv /\ Occupied
  BY InitInv, OccupiedInv
<1>3. IInv /\ Occupied /\ [Next]_vars => IInv' /\ Occupied'
  BY NextInv, OccupiedKept
<1> QED BY <1>1, <1>2, <1>3, PTL DEF Spec

-----------------------------------------------------------------------------
(* Reading the set back.                                                    *)

(* Two to a power grows.                                                    *)
LEMMA PowersGrow ==
    ASSUME NEW a \in Nat, NEW b \in Nat, a <= b
    PROVE  2^a <= 2^b
<1>1. /\ IsFiniteSet(1 .. a) /\ Cardinality(1 .. a) = a
      /\ IsFiniteSet(1 .. b) /\ Cardinality(1 .. b) = b
  BY FS_Interval
<1>2. PICK X, Y : X = SUBSET (1 .. a) /\ Y = SUBSET (1 .. b)
  OBVIOUS
<1>3. IsFiniteSet(Y) /\ Cardinality(X) = 2^a /\ Cardinality(Y) = 2^b
  BY <1>1, <1>2, FS_SUBSET
<1>4. X \subseteq Y
  BY <1>2
<1> QED BY <1>3, <1>4, FS_Subset

(* The empty set has one subset.                                            *)
LEMMA ZerothPower == 2^0 = 1
<1>1. IsFiniteSet({}) /\ Cardinality({}) = 0
  BY FS_EmptySet
<1>2. Cardinality(SUBSET {}) = 2^0
  BY <1>1, FS_SUBSET
<1>3. SUBSET {} = {{}}
  OBVIOUS
<1>4. Cardinality({{}}) = 1
  BY FS_Singleton
<1> QED BY <1>2, <1>3, <1>4

(* A number within the precision is not truncated.                          *)
LEMMA NotTruncated ==
    ASSUME NEW v \in Nat, v < 2^Precision
    PROVE  Truncation(v) = 0
<1>1. PICK b : b = Bits(v)
  OBVIOUS
<1>2. b \in Nat /\ (b = 0 \/ 2^(b - 1) <= v)
  BY <1>1, BitsOf
<1>3. Precision \in Nat
  BY ScriptAssumption
<1>4. ASSUME b > Precision PROVE FALSE
  <2>1. PICK c \in Nat : c = b - 1
    BY <1>2, <1>3, <1>4
  <2>2. Precision <= c
    BY <1>2, <1>3, <1>4, <2>1
  <2>3. 2^Precision <= 2^c /\ 2^c <= v
    BY <1>2, <1>3, <1>4, <2>1, <2>2, PowersGrow
  <2>4. 2^Precision \in Nat /\ 2^c \in Nat
    BY <1>3, <2>1, PowerOfTwo
  <2> QED BY <2>3, <2>4
<1> QED BY <1>1, <1>4 DEF Truncation

(* Thresholds grow with the power, one at a time.                           *)
LEMMA ThresholdsGrow ==
    ASSUME NEW r \in Nat, NEW d \in Nat \ {0}, NEW a \in Nat, NEW b \in Nat
    PROVE  /\ a <= b => (a * r) \div d <= (b * r) \div d
           /\ r <= d /\ b = a + 1 => (b * r) \div d <= (a * r) \div d + 1
<1>1. PICK x \in Nat, y \in Nat : x = a * r /\ y = b * r
  OBVIOUS
<1>2. PICK p \in Nat : p = x \div d
  BY Quotient
<1>3. PICK q \in Nat : q = y \div d
  BY Quotient
<1>4. d * p <= x /\ x < d * p + d /\ d * q <= y /\ y < d * q + d
  BY <1>2, <1>3, Quotient
<1>5. PICK z \in Nat, w \in Nat : z = d * p /\ w = d * q
  OBVIOUS
<1>6. ASSUME a <= b, p > q PROVE FALSE
  <2>1. x <= y
    BY <1>1, <1>6
  <2>2. d * p >= d * (q + 1)
    BY <1>6
  <2>3. d * (q + 1) = w + d
    BY <1>5
  <2> QED BY <1>4, <1>5, <2>1, <2>2, <2>3
<1>7. ASSUME r <= d, b = a + 1, q > p + 1 PROVE FALSE
  <2>1. y = x + r
    BY <1>1, <1>7
  <2>2. d * q >= d * (p + 2)
    BY <1>7
  <2>3. d * (p + 2) = z + d + d
    BY <1>5
  <2> QED BY <1>4, <1>5, <1>7, <2>1, <2>2, <2>3
<1> QED BY <1>1, <1>2, <1>3, <1>6, <1>7

(* The threshold in units is between those of the power in units, rounded   *)
(* down and up.                                                             *)
LEMMA ThresholdBetween ==
    ASSUME NEW p \in Nat, NEW u \in Nat \ {0}, NEW r \in Nat, NEW d \in Nat \ {0},
           NEW c, c = p \div u, NEW h, h = ((p * r) \div d) \div u
    PROVE  (c * r) \div d <= h /\ h <= ((c + 1) * r) \div d
<1>1. c \in Nat /\ u * c <= p /\ p < u * c + u
  BY Quotient
<1>2. PICK y \in Nat : y = p * r
  OBVIOUS
<1>3. PICK x \in Nat : x = y \div d
  BY Quotient
<1>4. d * x <= y /\ y < d * x + d
  BY <1>3, Quotient
<1>5. h \in Nat /\ u * h <= x /\ x < u * h + u
  BY <1>2, <1>3, Quotient
<1>6. PICK k \in Nat, l \in Nat : k = c * r /\ l = (c + 1) * r
  BY <1>1
<1>7. PICK a \in Nat : a = k \div d
  BY Quotient
<1>8. PICK b \in Nat : b = l \div d
  BY Quotient
<1>9. d * a <= k /\ l < d * b + d
  BY <1>7, <1>8, Quotient
<1>10. u * k <= y
  <2>1. (u * c) * r <= p * r
    BY <1>1
  <2>2. (u * c) * r = u * (c * r)
    BY <1>1
  <2> QED BY <1>2, <1>6, <2>1, <2>2
<1>11. y <= u * l
  <2>1. p * r <= (u * c + u) * r
    BY <1>1
  <2>2. (u * c + u) * r = u * ((c + 1) * r)
    BY <1>1
  <2> QED BY <1>2, <1>6, <2>1, <2>2
<1>12. ASSUME a > h PROVE FALSE
  <2>1. u * a >= u * (h + 1)
    BY <1>5, <1>12
  <2>2. u * (h + 1) = u * h + u
    BY <1>5
  <2>3. PICK g \in Nat : g = u * a
    OBVIOUS
  <2>4. g >= x + 1
    BY <1>5, <2>1, <2>2, <2>3
  <2>5. d * g >= d * (x + 1)
    BY <2>4
  <2>6. d * (x + 1) = d * x + d
    OBVIOUS
  <2>7. u * (d * a) <= u * k
    BY <1>9
  <2>8. u * (d * a) = d * g
    BY <2>3
  <2>9. PICK e \in Int, f \in Int, i \in Int : e = d * g /\ f = d * x /\ i = u * k
    OBVIOUS
  <2> QED BY <1>4, <1>10, <2>5, <2>6, <2>7, <2>8, <2>9
<1>13. ASSUME h > b PROVE FALSE
  <2>1. u * h >= u * (b + 1)
    BY <1>5, <1>13
  <2>2. PICK g \in Nat : g = u * (b + 1)
    OBVIOUS
  <2>3. x >= g
    <3>1. PICK f \in Int : f = u * h
      BY <1>5
    <3> QED BY <1>5, <2>1, <2>2, <3>1
  <2>4. d * x >= d * g
    BY <2>3
  <2>5. d * g = u * (d * b + d)
    BY <2>2
  <2>6. u * (d * b + d) >= u * (l + 1)
    BY <1>9
  <2>7. u * (l + 1) = u * l + u
    OBVIOUS
  <2>8. PICK e \in Int, f \in Int, i \in Int : e = d * g /\ f = d * x /\ i = u * l
    OBVIOUS
  <2> QED BY <1>4, <1>11, <2>4, <2>5, <2>6, <2>7, <2>8
<1> QED BY <1>5, <1>6, <1>7, <1>8, <1>12, <1>13

(* The search finds a power with the threshold: the least at or over the    *)
(* sum it starts from.                                                      *)
LEMMA SearchFinds ==
    ASSUME NEW total \in Nat, NEW top \in Nat, total <= top, top <= total + MaxSearch,
           NEW h \in Nat, Ratio[1] <= Ratio[2],
           RatioThreshold(total, Ratio) <= h, h <= RatioThreshold(top, Ratio)
    PROVE  \E v \in Found(total, h, Ratio) :
             /\ v \in total .. top
             /\ RatioThreshold(v, Ratio) = h
             /\ RatioThreshold(total, Ratio) = h => v = total
<1>1. PICK r \in Nat, d \in Nat \ {0} : r = Ratio[1] /\ d = Ratio[2]
  BY SpendingAssumption
<1> DEFINE R(v) == (v * r) \div d
           T == {v \in Nat : total <= v /\ h <= R(v)}
<1>2. \A v : RatioThreshold(v, Ratio) = R(v)
  BY <1>1 DEF RatioThreshold
<1>3. ASSUME NEW v \in Nat PROVE R(v) \in Nat
  <2>1. v * r \in Nat
    OBVIOUS
  <2> QED BY <2>1, Quotient
<1>4. R(total) <= h /\ h <= R(top) /\ r <= d
  BY <1>1, <1>2
<1>5. ASSUME NEW a \in Nat, NEW b \in Nat
      PROVE  (a <= b => R(a) <= R(b)) /\ (b = a + 1 => R(b) <= R(a) + 1)
  BY <1>4, ThresholdsGrow
<1> HIDE DEF R
<1>6. PICK v \in T : \A k \in T : v <= k
  <2>1. T \in SUBSET Nat /\ top \in T
    BY <1>4
  <2> HIDE DEF T
  <2> QED BY <2>1, LeastNat
<1>7. v \in Nat /\ total <= v /\ h <= R(v) /\ v <= top
  BY <1>4, <1>6
<1>8. R(v) = h
  <2>1. CASE v = total
    BY <1>3, <1>4, <1>7, <2>1
  <2>2. CASE v # total
    <3>1. PICK a \in Nat : a = v - 1
      BY <1>7, <2>2
    <3>2. a \notin T /\ total <= a
      BY <1>6, <1>7, <2>2, <3>1
    <3>3. R(a) < h
      BY <1>3, <3>2
    <3>4. R(v) <= R(a) + 1
      BY <1>5, <1>7, <3>1
    <3>5. R(a) \in Nat /\ R(v) \in Nat
      BY <1>3, <1>7, <3>1
    <3> QED BY <1>7, <3>3, <3>4, <3>5
  <2> QED BY <2>1, <2>2
<1>9. R(total) = h => v = total
  <2>1. SUFFICES ASSUME R(total) = h PROVE v = total
    OBVIOUS
  <2>2. total \in T
    BY <1>3, <2>1
  <2> QED BY <1>6, <1>7, <2>2
<1>10. ASSUME NEW w \in Nat, R(w) = h
       PROVE  (v - total) * (v - total) <= (w - total) * (w - total)
  <2>1. CASE w < total
    <3>1. R(w) <= R(total)
      BY <1>5, <2>1
    <3>2. R(total) = h
      BY <1>3, <1>4, <1>10, <3>1
    <3>3. v - total = 0
      BY <1>9, <3>2
    <3>4. PICK x \in Int : x = w - total
      OBVIOUS
    <3>5. x * x >= 0
      OBVIOUS
    <3> QED BY <3>3, <3>4, <3>5
  <2>2. CASE total <= w
    <3>1. w \in T
      BY <1>3, <1>10, <2>2
    <3>2. PICK x \in Nat, y \in Nat : x = v - total /\ y = w - total
      BY <1>7, <2>2
    <3>3. x <= y
      BY <1>6, <1>7, <3>1, <3>2
    <3>4. x * x <= y * y
      BY <3>3
    <3> QED BY <3>2, <3>4
  <2> QED BY <2>1, <2>2
<1>11. v \in Found(total, h, Ratio)
  <2>1. PICK m \in Nat : m = MaxSearch
    BY ScriptAssumption
  <2>2. v \in (total - m) .. (total + m) /\ v >= 0
    BY <1>7, <2>1
  <2>3. ASSUME NEW w \in (total - m) .. (total + m), w >= 0, R(w) = h
        PROVE  (v - total) * (v - total) <= (w - total) * (w - total)
    BY <1>10, <2>3
  <2> QED BY <1>2, <1>8, <2>1, <2>2, <2>3 DEF Found
<1>12. v \in total .. top
  BY <1>7
<1> QED BY <1>2, <1>8, <1>9, <1>11, <1>12

(* A sum of ones.                                                           *)
LEMMA SumOnes ==
    ASSUME NEW S, IsFiniteSet(S), NEW f, \A x \in S : f[x] = 1
    PROVE  SumFunctionOnSet(f, S) = Cardinality(S)
<1> DEFINE Bad == {t \in SUBSET S : SumFunctionOnSet(f, t) # Cardinality(t)}
<1>1. SUFFICES ASSUME Bad # {} PROVE FALSE
  <2>1. S \notin Bad
    BY <1>1
  <2> QED BY <2>1
<1>2. PICK t \in Bad : \A k \in Bad : k \subseteq t => k = t
  <2>1. Bad \in SUBSET (SUBSET S)
    OBVIOUS
  <2> HIDE DEF Bad
  <2> QED BY <1>1, <2>1, MinimalSubset
<1>3. t \subseteq S /\ SumFunctionOnSet(f, t) # Cardinality(t)
  OBVIOUS
<1>4. IsFiniteSet(t)
  BY <1>3, FS_Subset
<1>5. CASE t = {}
  BY <1>3, <1>5, SumEmpty, FS_EmptySet
<1>6. CASE t # {}
  <2>1. PICK e \in t : TRUE
    BY <1>6
  <2>2. PICK x : x = t \ {e}
    OBVIOUS
  <2>3. x \notin Bad /\ x \in SUBSET S
    <3> HIDE DEF Bad
    <3> QED BY <1>2, <1>3, <2>1, <2>2
  <2>4. SumFunctionOnSet(f, x) = Cardinality(x)
    BY <2>3
  <2>5. \A y \in t : f[y] \in Int
    BY <1>3
  <2>6. SumFunctionOnSet(f, t) = f[e] + SumFunctionOnSet(f, x)
    BY <1>4, <2>1, <2>2, <2>5, SumRemove
  <2>7. Cardinality(x) = Cardinality(t) - 1 /\ Cardinality(t) \in Nat
    BY <1>4, <2>1, <2>2, FS_RemoveElement, FS_CardinalityType
  <2>8. f[e] = 1
    BY <1>3
  <2> QED BY <1>3, <2>4, <2>6, <2>7, <2>8
<1> QED BY <1>5, <1>6

(* The sum of the truncated powers is short of the truncated sum by less    *)
(* than the number of signatories.                                          *)
LEMMA TruncatedSum ==
    ASSUME NEW S, S \subseteq Signers, S # {},
           NEW total, total = SumFunctionOnSet(Shares(S, S), S), NEW n, n = Cardinality(S)
    PROVE  /\ total \in Nat
           /\ total <= TotalPower(S) \div Unit(S)
           /\ TotalPower(S) \div Unit(S) < total + n
<1>1. PICK u \in Nat \ {0} : u = Unit(S)
  BY ShareTypes
<1>2. IsFiniteSet(S) /\ TotalPower(S) \in Nat
  BY PowerSum
<1>3. PICK p \in Nat : p = TotalPower(S)
  BY <1>2
<1>4. PICK m \in Nat : m = Lost(S, S)
  BY PowerSplits
<1>5. total \in Nat /\ p = u * total + m
  BY <1>1, <1>3, <1>4, PowerSplits
<1>6. n \in Nat /\ n > 0
  <2>1. n \in Nat /\ n # 0
    BY <1>2, FS_CardinalityType, FS_EmptySet
  <2> QED BY <2>1
<1> DEFINE one  == [s \in S |-> 1]
           over == [s \in S |-> u - 1]
           rest == [s \in S |-> Power[s] % u]
<1>7. m = SumFunctionOnSet(rest, S)
  BY <1>1, <1>4 DEF Lost, SumFunction, Unit
<1>8. ASSUME NEW s \in S
      PROVE  rest[s] \in Int /\ over[s] \in Int /\ rest[s] <= over[s] /\ one[s] = 1 /\ over[s] = u - 1
  <2>1. PICK q \in Nat : q = Power[s]
    BY SigningAssumption
  <2>2. q % u \in Int /\ q % u <= u - 1
    OBVIOUS
  <2> QED BY <2>1, <2>2
<1> HIDE DEF rest, over, one
<1>9. SumFunctionOnSet(rest, S) <= SumFunctionOnSet(over, S)
  BY <1>2, <1>8, SumAtMost
<1>10. PICK a \in Int, b \in Int : a = u - 1 /\ b = 0
  OBVIOUS
<1>11. Combined(over, a, one, b, one, S)
  <2>1. ASSUME NEW s \in S
        PROVE  over[s] \in Int /\ one[s] \in Int /\ over[s] = a * one[s] - b * one[s]
    BY <1>8, <1>10
  <2> QED BY <2>1 DEF Combined
<1>12. SumFunctionOnSet(over, S) = a * SumFunctionOnSet(one, S) - b * SumFunctionOnSet(one, S)
  BY <1>2, <1>11, SumCombined
<1>13. SumFunctionOnSet(one, S) = n
  BY <1>2, <1>8, SumOnes
<1>14. m <= (u - 1) * n
  <2>1. (a * n) - (b * n) = (u - 1) * n
    BY <1>6, <1>10
  <2> QED BY <1>7, <1>9, <1>12, <1>13, <2>1
<1>15. p < u * (total + n)
  <2>1. (u - 1) * n = u * n - n /\ u * (total + n) = u * total + u * n
    BY <1>5, <1>6
  <2>2. PICK x \in Int, y \in Int : x = u * total /\ y = u * n
    BY <1>5, <1>6
  <2> QED BY <1>5, <1>6, <1>14, <2>1, <2>2
<1>16. PICK c \in Nat : c = p \div u
  BY Quotient
<1>17. u * c <= p /\ p < u * c + u
  BY <1>16, Quotient
<1>18. total <= c
  <2>1. SUFFICES ASSUME total > c PROVE FALSE
    BY <1>5
  <2>2. u * total >= u * (c + 1)
    BY <1>5, <2>1
  <2>3. u * (c + 1) = u * c + u
    OBVIOUS
  <2>4. PICK x \in Int, y \in Int : x = u * total /\ y = u * c
    BY <1>5
  <2> QED BY <1>5, <1>17, <2>2, <2>3, <2>4
<1>19. c < total + n
  <2>1. SUFFICES ASSUME c >= total + n PROVE FALSE
    BY <1>5, <1>6
  <2>2. u * c >= u * (total + n)
    BY <1>5, <1>6, <2>1
  <2>3. PICK x \in Int, y \in Int : x = u * (total + n) /\ y = u * c
    BY <1>5, <1>6
  <2> QED BY <1>15, <1>17, <2>2, <2>3
<1> QED BY <1>1, <1>3, <1>5, <1>16, <1>18, <1>19

(* A part of a sequence.                                                    *)
LEMMA PartOf ==
    ASSUME NEW s, NEW a \in Int, NEW b \in Int
    PROVE  /\ Len(SubSeq(s, a, b)) = IF a <= b THEN b - a + 1 ELSE 0
           /\ \A i \in 1 .. (b - a + 1) : SubSeq(s, a, b)[i] = s[a + i - 1]
<1> DEFINE X == {s[i] : i \in a .. b}
<1>1. \A i \in a .. b : s[i] \in X
  OBVIOUS
<1> HIDE DEF X
<1> QED BY <1>1, SubSeqProperties

(* Numbers that are not pushed by an opcode.                                *)
PushesNumbers(V, n, h) == PushInt(h) = Number(h) /\ \A i \in 1 .. n : PushInt(V[i]) = Number(V[i])

(* from_script counts the clauses.                                          *)
LEMMA ClausesCounted ==
    ASSUME NEW n \in Nat \ {0}, NEW script, NEW K, NEW V, NEW h, IsScript(script, n, K, V, h)
    PROVE  Clauses(script) = n
<1>1. Len(script) = 7 * n + 4
  BY DEF IsScript
<1>2. Len(script) \div 7 = n
  BY <1>1
<1>3. ASSUME NEW i \in 1 .. (n - 1)
      PROVE  i * 7 < Len(script) /\ script[i * 7 + 1] = Op("OP_SWAP")
  <2>1. i + 1 \in 2 .. n /\ 1 \in 1 .. 7
    OBVIOUS
  <2>2. script[7 * ((i + 1) - 1) + 1] = OtherOf(K[i + 1], V[i + 1])[1]
    BY <2>1 DEF IsScript
  <2>3. 7 * ((i + 1) - 1) + 1 = i * 7 + 1 /\ i * 7 < Len(script)
    BY <1>1
  <2>4. OtherOf(K[i + 1], V[i + 1])[1] = Op("OP_SWAP")
    BY DEF OtherOf
  <2> QED BY <2>2, <2>3, <2>4
<1>4. script[n * 7 + 1] # Op("OP_SWAP")
  <2>1. script[7 * n + 1] = EndOf(h)[1]
    BY DEF IsScript
  <2>2. EndOf(h)[1] = PushInt(h)
    BY DEF EndOf
  <2>3. PushInt(h)[1] \in {"OP_PUSHNUM", "number"} /\ Op("OP_SWAP")[1] = "OP_SWAP"
    BY DEF PushInt, Number, Op
  <2>4. n * 7 + 1 = 7 * n + 1
    OBVIOUS
  <2> QED BY <2>1, <2>2, <2>3, <2>4
<1> DEFINE C == {m \in 1 .. (Len(script) \div Width) :
                   \A i \in 1 .. m : i * Width < Len(script) /\ script[i * Width + 1] = Op("OP_SWAP")}
<1>5. C = 1 .. (n - 1)
  <2>1. ASSUME NEW m \in C PROVE m \in 1 .. (n - 1)
    <3>1. m \in 1 .. n /\ \A i \in 1 .. m : script[i * 7 + 1] = Op("OP_SWAP")
      BY <1>2 DEF Width
    <3>2. m # n
      BY <1>4, <3>1
    <3> QED BY <3>1, <3>2
  <2>2. ASSUME NEW m \in 1 .. (n - 1) PROVE m \in C
    <3>1. m \in 1 .. n /\ \A i \in 1 .. m : i \in 1 .. (n - 1)
      OBVIOUS
    <3> QED BY <1>2, <1>3, <3>1 DEF Width
  <2> HIDE DEF C
  <2> QED BY <2>1, <2>2
<1>6. Cardinality(1 .. (n - 1)) = n - 1
  <2>1. n - 1 \in Nat /\ 1 \in Int
    OBVIOUS
  <2>2. Cardinality(1 .. (n - 1)) = IF 1 > n - 1 THEN 0 ELSE (n - 1) - 1 + 1
    BY <2>1, FS_Interval
  <2> QED BY <2>1, <2>2
<1>7. Clauses(script) = 1 + Cardinality(C)
  BY DEF Clauses
<1> HIDE DEF C
<1> QED BY <1>5, <1>6, <1>7

(* It reads a clause.                                                       *)
LEMMA ClauseRead ==
    ASSUME NEW n \in Nat \ {0}, NEW script, NEW K, NEW V, NEW h, IsScript(script, n, K, V, h),
           PushesNumbers(V, n, h), NEW i \in 1 .. n
    PROVE  /\ i = 1 => ReadsFirst(ClauseOf(script, i))
           /\ i # 1 => ReadsNth(ClauseOf(script, i))
           /\ SignatoryOf(script, i) = [pubkey |-> K[i], power |-> V[i]]
<1>1. PICK a \in Int, b \in Int : a = (i - 1) * 7 + 1 /\ b = i * 7
  OBVIOUS
<1>2. PICK c : c = ClauseOf(script, i)
  OBVIOUS
<1>3. c = SubSeq(script, a, b)
  BY <1>1, <1>2 DEF ClauseOf, Width
<1>4. ASSUME NEW m \in 1 .. 7 PROVE c[m] = script[7 * (i - 1) + m]
  <2>1. m \in 1 .. (b - a + 1) /\ a + m - 1 = 7 * (i - 1) + m
    BY <1>1
  <2>2. SubSeq(script, a, b)[m] = script[a + m - 1]
    BY <2>1, PartOf
  <2> QED BY <1>3, <2>1, <2>2
<1>5. PushInt(V[i]) = Number(V[i])
  BY DEF PushesNumbers
<1>6. CASE i = 1
  <2>1. ASSUME NEW m \in 1 .. 7 PROVE c[m] = FirstOf(K[i], V[i])[m]
    <3>1. 7 * (i - 1) + m = m
      BY <1>6
    <3>2. script[m] = FirstOf(K[1], V[1])[m]
      BY DEF IsScript
    <3> QED BY <1>4, <1>6, <3>1, <3>2
  <2>2. /\ c[1] = Key(K[i]) /\ c[2] = Op("OP_CHECKSIG") /\ c[3] = Op("OP_IF")
        /\ c[4] = Number(V[i]) /\ c[5] = Op("OP_ELSE") /\ c[6] = OpFalse /\ c[7] = Op("OP_ENDIF")
    BY <1>5, <2>1 DEF FirstOf
  <2>3. IsKey(c[1]) /\ IsNumber(c[4]) /\ c[1][2] = K[i] /\ c[4][2] = V[i]
    BY <2>2 DEF Key, Number, IsKey, IsNumber
  <2>4. ReadsFirst(c)
    BY <2>2, <2>3 DEF ReadsFirst
  <2>5. SignatoryOf(script, i) = [pubkey |-> c[1][2], power |-> c[4][2]]
    BY <1>2, <1>6 DEF SignatoryOf
  <2> QED BY <1>2, <1>6, <2>3, <2>4, <2>5
<1>7. CASE i # 1
  <2>1. ASSUME NEW m \in 1 .. 7 PROVE c[m] = OtherOf(K[i], V[i])[m]
    <3>1. i \in 2 .. n
      BY <1>7
    <3>2. script[7 * (i - 1) + m] = OtherOf(K[i], V[i])[m]
      BY <3>1 DEF IsScript
    <3> QED BY <1>4, <3>2
  <2>2. /\ c[1] = Op("OP_SWAP") /\ c[2] = Key(K[i]) /\ c[3] = Op("OP_CHECKSIG") /\ c[4] = Op("OP_IF")
        /\ c[5] = Number(V[i]) /\ c[6] = Op("OP_ADD") /\ c[7] = Op("OP_ENDIF")
    BY <1>5, <2>1 DEF OtherOf
  <2>3. IsKey(c[2]) /\ IsNumber(c[5]) /\ c[2][2] = K[i] /\ c[5][2] = V[i]
    BY <2>2 DEF Key, Number, IsKey, IsNumber
  <2>4. ReadsNth(c)
    BY <2>2, <2>3 DEF ReadsNth
  <2>5. SignatoryOf(script, i) = [pubkey |-> c[2][2], power |-> c[5][2]]
    BY <1>2, <1>7 DEF SignatoryOf
  <2> QED BY <1>2, <1>7, <2>3, <2>4, <2>5
<1> QED BY <1>6, <1>7

(* And the rest.                                                            *)
LEMMA ScriptRead ==
    ASSUME NEW n \in Nat \ {0}, NEW script, NEW K, NEW V, NEW h, IsScript(script, n, K, V, h),
           PushesNumbers(V, n, h)
    PROVE  /\ Reads(script)
           /\ [i \in 1 .. Clauses(script) |-> SignatoryOf(script, i)]
                = [i \in 1 .. n |-> [pubkey |-> K[i], power |-> V[i]]]
           /\ Tail4(script)[1][2] = h
           /\ Tail4(script)[3][2] = Dest
<1>1. Clauses(script) = n
  BY ClausesCounted
<1>2. Len(script) = 7 * n + 4
  BY DEF IsScript
<1>3. PICK a \in Int, b \in Int : a = n * 7 + 1 /\ b = 7 * n + 4
  OBVIOUS
<1>4. PICK t : t = Tail4(script)
  OBVIOUS
<1>5. t = SubSeq(script, a, b)
  BY <1>1, <1>2, <1>3, <1>4 DEF Tail4, Width
<1>6. Len(t) = 4
  <2>1. Len(t) = IF a <= b THEN b - a + 1 ELSE 0
    BY <1>5, PartOf
  <2> QED BY <1>3, <2>1
<1>7. ASSUME NEW m \in 1 .. 4 PROVE t[m] = EndOf(h)[m]
  <2>1. m \in 1 .. (b - a + 1) /\ a + m - 1 = 7 * n + m
    BY <1>3
  <2>2. SubSeq(script, a, b)[m] = script[a + m - 1]
    BY <2>1, PartOf
  <2>3. script[7 * n + m] = EndOf(h)[m]
    BY DEF IsScript
  <2> QED BY <1>5, <2>1, <2>2, <2>3
<1>8. /\ t[1] = Number(h) /\ t[2] = Op("OP_GREATERTHAN") /\ t[3] = Data(Dest) /\ t[4] = Op("OP_DROP")
  BY <1>7 DEF EndOf, PushesNumbers
<1>9. IsNumber(t[1]) /\ IsData(t[3]) /\ t[1][2] = h /\ t[3][2] = Dest
  BY <1>8 DEF Number, Data, IsNumber, IsData
<1>10. ReadsTail(t)
  BY <1>6, <1>8, <1>9 DEF ReadsTail
<1>11. ReadsFirst(ClauseOf(script, 1))
  <2>1. 1 \in 1 .. n
    OBVIOUS
  <2> QED BY <2>1, ClauseRead
<1>12. ASSUME NEW i \in 2 .. n PROVE ReadsNth(ClauseOf(script, i))
  <2>1. i \in 1 .. n /\ i # 1
    OBVIOUS
  <2> QED BY <2>1, ClauseRead
<1>13. Len(script) >= Clauses(script) * Width
  BY <1>1, <1>2 DEF Width
<1>14. Reads(script)
  BY <1>1, <1>4, <1>10, <1>11, <1>12, <1>13 DEF Reads
<1>15. [i \in 1 .. Clauses(script) |-> SignatoryOf(script, i)]
         = [i \in 1 .. n |-> [pubkey |-> K[i], power |-> V[i]]]
  <2>1. \A i \in 1 .. n : SignatoryOf(script, i) = [pubkey |-> K[i], power |-> V[i]]
    BY ClauseRead
  <2> QED BY <1>1, <2>1
<1> QED BY <1>4, <1>9, <1>14, <1>15

(* What it makes of a script with these powers and threshold: the           *)
(* signatories, if a power found for the threshold gives the script back.   *)
LEMMA SignatoriesRead ==
    ASSUME NEW n \in Nat \ {0}, NEW script, NEW K, NEW V, NEW h, IsScript(script, n, K, V, h),
           PushesNumbers(V, n, h),
           NEW total, total = SumFunctionOnSet(V, 1 .. n), V \in [1 .. n -> Int],
           NEW v \in Found(total, h, Ratio), Script(SetOf(K, V, n, v), Ratio, Dest) = script
    PROVE  {read.signatories : read \in FromScript(script, Ratio)}
             = {[i \in 1 .. n |-> [pubkey |-> K[i], power |-> V[i]]]}
<1>1. /\ Reads(script)
      /\ [i \in 1 .. Clauses(script) |-> SignatoryOf(script, i)]
                = [i \in 1 .. n |-> [pubkey |-> K[i], power |-> V[i]]]
      /\ Tail4(script)[1][2] = h
      /\ Tail4(script)[3][2] = Dest
  BY ScriptRead
<1>2. PICK sigs : sigs = [i \in 1 .. n |-> [pubkey |-> K[i], power |-> V[i]]]
  OBVIOUS
<1>3. SumOfPowers(sigs) = total
  <2>1. DOMAIN sigs = 1 .. n /\ \A i \in 1 .. n : sigs[i].power = V[i]
    BY <1>2
  <2>2. V = [i \in DOMAIN sigs |-> sigs[i].power]
    BY <2>1
  <2>3. DOMAIN V = 1 .. n
    OBVIOUS
  <2> QED BY <2>2, <2>3 DEF SumOfPowers, SumFunction
<1>4. FromScript(script, Ratio)
        = {set \in {[signatories |-> sigs, present |-> w] : w \in Found(total, h, Ratio)} :
             Script(set, Ratio, Dest) = script}
  <2> DEFINE Sets(x, y, z) ==
               {set \in {[signatories |-> x, present |-> w] : w \in Found(SumOfPowers(x), y, Ratio)} :
                  Script(set, Ratio, z) = script}
  <2>1. FromScript(script, Ratio)
          = Sets([i \in 1 .. Clauses(script) |-> SignatoryOf(script, i)],
                 Tail4(script)[1][2], Tail4(script)[3][2])
    BY <1>1 DEF FromScript
  <2>2. Sets(sigs, h, Dest)
          = {set \in {[signatories |-> sigs, present |-> w] : w \in Found(total, h, Ratio)} :
               Script(set, Ratio, Dest) = script}
    BY <1>3
  <2> HIDE DEF Sets
  <2>3. FromScript(script, Ratio) = Sets(sigs, h, Dest)
    BY <1>1, <1>2, <2>1
  <2> QED BY <2>2, <2>3
<1>5. SetOf(K, V, n, v) = [signatories |-> sigs, present |-> v]
  BY <1>2 DEF SetOf
<1>6. [signatories |-> sigs, present |-> v] \in FromScript(script, Ratio)
  BY <1>4, <1>5
<1>7. \A read \in FromScript(script, Ratio) : read.signatories = sigs
  BY <1>4
<1> QED BY <1>2, <1>6, <1>7

(* from_script reads the signatories of a set back from its script.         *)
LEMMA SetReadBack ==
    ASSUME NEW S, S \subseteq Signers, S # {}, Cardinality(S) <= MaxSearch, Ratio[1] <= Ratio[2],
           Readable(Sigset(S))
    PROVE  {read.signatories : read \in FromScript(Script(Sigset(S), Ratio, Dest), Ratio)}
             = {[i \in DOMAIN Sigset(S).signatories |->
                   [Sigset(S).signatories[i] EXCEPT !.power = Truncated(@, Sigset(S).present)]]}
<1>1. PICK n, K : n = Cardinality(S) /\ K = ScriptOrder(S)
  OBVIOUS
<1>2. IsFiniteSet(S)
  BY SigningAssumption, FS_Subset
<1>3. n \in Nat \ {0} /\ K \in [1 .. n -> S] /\ K \in Bijection(1 .. n, S)
  <2>1. n # 0
    BY <1>1, <1>2, FS_EmptySet
  <2> QED BY <1>1, <2>1, ScriptOrderOnto
<1>4. PICK p \in Nat : p = TotalPower(S)
  BY PowerSum
<1>5. PICK u \in Nat \ {0} : u = Unit(S)
  BY ShareTypes
<1>6. PICK h \in Nat : h = Bar(S)
  BY ShareTypes
<1> DEFINE V == [i \in 1 .. n |-> Power[K[i]] \div u]
           Q == [i \in 1 .. n |-> Power[K[i]]]
<1>7. ASSUME NEW i \in 1 .. n
      PROVE  /\ V[i] = Power[K[i]] \div u /\ V[i] \in Nat /\ K[i] \in S
             /\ Q[i] = Power[K[i]] /\ V[i] = Truncated(Q[i], p)
  <2>1. K[i] \in S /\ K[i] \in Signers
    BY <1>3
  <2>2. Power[K[i]] \div u \in Nat
    BY <1>5, <2>1, ShareTypes
  <2>3. Q[i] = Power[K[i]]
    OBVIOUS
  <2>4. Truncated(Q[i], p) = Power[K[i]] \div u
    BY <1>4, <1>5, <2>3 DEF Truncated, Unit
  <2> QED BY <2>1, <2>2, <2>3, <2>4
<1>8. V \in [1 .. n -> Int] /\ V \in [1 .. n -> Nat]
  BY <1>7
<1>9. Sigset(S) = SetOf(K, Q, n, p)
  <2>1. DOMAIN K = 1 .. n
    BY <1>3
  <2> QED BY <1>1, <1>4, <2>1 DEF Sigset, SetOf
<1>10. h = Truncated(RatioThreshold(p, Ratio), p)
  BY <1>4, <1>6 DEF Bar, Truncated, Unit
<1>11. IsTruncated(K, Q, V, n, p, h)
  <2>1. K \in [1 .. n -> Signers]
    BY <1>3
  <2> QED BY <1>7, <1>8, <1>10, <2>1 DEF IsTruncated
<1>a. PICK set : set = SetOf(K, Q, n, p)
  OBVIOUS
<1>b. /\ set.present = p /\ DOMAIN set.signatories = 1 .. n
      /\ \A i \in 1 .. n : set.signatories[i] = [pubkey |-> K[i], power |-> Q[i]]
  BY <1>a DEF SetOf
<1> HIDE DEF V, Q
<1>12. PICK script : script = Script(set, Ratio, Dest)
  OBVIOUS
<1>13. IsScript(script, n, K, V, h)
  BY <1>3, <1>11, <1>12, <1>a, ScriptIs
<1>14. Readable(set)
  BY <1>9, <1>a
<1>15. PushesNumbers(V, n, h)
  <2>1. \A i \in 1 .. n : V[i] \notin 1 .. Opcodes
    <3> SUFFICES ASSUME NEW i \in 1 .. n PROVE V[i] \notin 1 .. Opcodes
      OBVIOUS
    <3>1. Truncated(set.signatories[i].power, set.present) \notin 1 .. Opcodes
      BY <1>14, <1>b DEF Readable
    <3>2. PICK q : q = Q[i]
      OBVIOUS
    <3>3. set.signatories[i] = [pubkey |-> K[i], power |-> q]
      BY <1>b, <3>2
    <3>4. set.signatories[i].power = q
      BY <3>3
    <3> QED BY <1>7, <1>b, <3>1, <3>2, <3>4
  <2>2. h \notin 1 .. Opcodes
    BY <1>10, <1>14, <1>b DEF Readable
  <2> QED BY <2>1, <2>2 DEF PushesNumbers, PushInt
<1>16. PICK total : total = SumFunctionOnSet(Shares(S, S), S)
  OBVIOUS
<1>17. total = SumFunctionOnSet(V, 1 .. n)
  <2>1. IsFiniteSet(1 .. n)
    BY <1>3, FS_Interval
  <2>2. PICK g : g = Shares(S, S)
    OBVIOUS
  <2>3. \A i \in 1 .. n : V[i] \in Int /\ g[K[i]] = V[i]
    BY <1>5, <1>7, <2>2 DEF Shares
  <2> QED BY <1>3, <1>16, <2>1, <2>2, <2>3, SumRenamed
<1>18. PICK c \in Nat : c = p \div u
  BY Quotient
<1>19. total \in Nat /\ total <= c /\ c < total + n
  BY <1>1, <1>4, <1>5, <1>16, <1>18, TruncatedSum
<1>20. PICK r \in Nat, d \in Nat \ {0} : r = Ratio[1] /\ d = Ratio[2]
  BY SpendingAssumption
<1>21. h = ((p * r) \div d) \div u
  BY <1>4, <1>5, <1>6, <1>20 DEF Bar, RatioThreshold
<1>22. PICK top \in Nat : top = IF Truncation(p) = 0 THEN total ELSE c + 1
  BY <1>19
<1>23. Truncation(p) = 0 => total = p /\ h = RatioThreshold(p, Ratio)
  <2> SUFFICES ASSUME Truncation(p) = 0 PROVE total = p /\ h = RatioThreshold(p, Ratio)
    OBVIOUS
  <2>1. u = 1
    BY <1>4, <1>5, ZerothPower DEF Unit
  <2>2. c = p
    BY <1>18, <2>1
  <2>3. PICK m \in Nat : m = Lost(S, S)
    BY PowerSplits
  <2>4. p = u * total + m
    BY <1>4, <1>5, <1>16, <2>3, PowerSplits
  <2>5. m = 0
    <3>1. IsFiniteSet(S) /\ \A s \in S : Power[s] \in Nat
      BY <1>2, SigningAssumption
    <3> DEFINE rest == [s \in S |-> Power[s] % u]
    <3>2. m = SumFunctionOnSet(rest, S)
      BY <1>5, <2>3 DEF Lost, SumFunction, Unit
    <3>3. \A s \in S : rest[s] = 0
      BY <2>1, <3>1
    <3> HIDE DEF rest
    <3> QED BY <3>1, <3>2, <3>3, SumZero
  <2>6. total = p
    BY <1>19, <2>1, <2>4, <2>5
  <2>7. PICK x \in Nat : x = (p * r) \div d
    <3>1. p * r \in Nat
      OBVIOUS
    <3> QED BY <3>1, Quotient
  <2>8. h = x
    BY <1>21, <2>1, <2>7
  <2> QED BY <1>20, <2>6, <2>7, <2>8 DEF RatioThreshold
<1>24. RatioThreshold(total, Ratio) <= h /\ h <= RatioThreshold(top, Ratio)
  <2>1. CASE Truncation(p) = 0
    BY <1>22, <1>23, <2>1
  <2>2. CASE Truncation(p) # 0
    <3>1. (c * r) \div d <= h /\ h <= ((c + 1) * r) \div d
      BY <1>18, <1>21, ThresholdBetween
    <3>2. (total * r) \div d <= (c * r) \div d
      BY <1>19, ThresholdsGrow
    <3>3. PICK x \in Nat : x = (c * r) \div d
      <4>1. c * r \in Nat
        OBVIOUS
      <4> QED BY <4>1, Quotient
    <3>4. PICK y \in Nat : y = (total * r) \div d
      <4>1. total * r \in Nat
        BY <1>19
      <4> QED BY <4>1, Quotient
    <3>5. y <= h
      BY <3>1, <3>2, <3>3, <3>4
    <3>6. top = c + 1
      BY <1>22, <2>2
    <3> QED BY <1>20, <3>1, <3>4, <3>5, <3>6 DEF RatioThreshold
  <2> QED BY <2>1, <2>2
<1>25. total <= top /\ top <= total + MaxSearch
  BY <1>1, <1>3, <1>19, <1>22, ScriptAssumption
<1>26. PICK v \in Found(total, h, Ratio) :
         /\ v \in total .. top
         /\ RatioThreshold(v, Ratio) = h
         /\ RatioThreshold(total, Ratio) = h => v = total
  BY <1>19, <1>24, <1>25, SearchFinds
<1>27. v \in Nat
  BY <1>19, <1>26
<1>28. Truncation(v) = 0
  <2>1. CASE Truncation(p) = 0
    BY <1>23, <1>26, <2>1
  <2>2. CASE Truncation(p) # 0
    <3>1. Truncation(p) > 0
      BY <2>2, TruncationNat
    <3>2. Truncated(p, p) < 2^Precision - 1
      BY <1>14, <1>b, <3>1 DEF Readable
    <3>3. Truncated(p, p) = c
      BY <1>4, <1>5, <1>18 DEF Truncated, Unit
    <3>4. v <= c + 1
      BY <1>22, <1>26, <2>2
    <3>5. 2^Precision \in Nat
      BY PowerOfTwo, ScriptAssumption
    <3>6. v < 2^Precision
      BY <1>27, <3>2, <3>3, <3>4, <3>5
    <3> QED BY <1>27, <3>6, NotTruncated
  <2> QED BY <2>1, <2>2
<1>29. ASSUME NEW x \in Nat PROVE Truncated(x, v) = x
  <2>1. Truncated(x, v) = x \div 1
    BY <1>28, ZerothPower DEF Truncated
  <2> QED BY <2>1
<1>30. IsTruncated(K, V, V, n, v, h)
  <2>1. K \in [1 .. n -> Signers]
    BY <1>3
  <2>2. \A i \in 1 .. n : V[i] = Truncated(V[i], v)
    BY <1>7, <1>29
  <2>3. h = Truncated(RatioThreshold(v, Ratio), v)
    BY <1>26, <1>29
  <2> QED BY <1>8, <2>1, <2>2, <2>3 DEF IsTruncated
<1>31. Script(SetOf(K, V, n, v), Ratio, Dest) = script
  <2>1. Script(SetOf(K, Q, n, p), Ratio, Dest) = FlattenSeq(ClausesOf(K, V, n)) \o EndOf(h)
    BY <1>3, <1>11, ScriptForm
  <2>2. Script(SetOf(K, V, n, v), Ratio, Dest) = FlattenSeq(ClausesOf(K, V, n)) \o EndOf(h)
    BY <1>3, <1>30, ScriptForm
  <2> QED BY ONLY <1>12, <1>a, <2>1, <2>2
<1>32. {read.signatories : read \in FromScript(script, Ratio)}
         = {[i \in 1 .. n |-> [pubkey |-> K[i], power |-> V[i]]]}
  <2>1. n \in Nat \ {0} /\ V \in [1 .. n -> Int] /\ v \in Found(total, h, Ratio)
    BY <1>3, <1>8, <1>26
  <2> QED BY ONLY <1>13, <1>15, <1>17, <1>31, <2>1, SignatoriesRead
<1>33. [i \in DOMAIN set.signatories |-> [set.signatories[i] EXCEPT !.power = Truncated(@, set.present)]]
         = [i \in 1 .. n |-> [pubkey |-> K[i], power |-> V[i]]]
  <2>1. ASSUME NEW i \in 1 .. n
        PROVE  [set.signatories[i] EXCEPT !.power = Truncated(@, set.present)]
                 = [pubkey |-> K[i], power |-> V[i]]
    <3>1. set.signatories[i] = [pubkey |-> K[i], power |-> Q[i]] /\ V[i] = Truncated(Q[i], p)
      BY <1>7, <1>b
    <3> QED BY <1>b, <3>1
  <2> QED BY <1>b, <2>1
<1> QED BY <1>9, <1>12, <1>32, <1>33, <1>a

(* Of every input's script, if the ratio is at most one and the search has  *)
(* as many steps as there are signatories (100, for at most 20).            *)
THEOREM ScriptsAreReadBack ==
    ASSUME Ratio[1] <= Ratio[2], Cardinality(Signers) <= MaxSearch
    PROVE  Spec => []ScriptIsReadBack
<1>1. IInv /\ Occupied => ScriptIsReadBack
  <2> SUFFICES ASSUME IInv, Occupied, NEW k \in DOMAIN input,
                      NEW S, S = DOMAIN input[k].sigs, Readable(Sigset(S))
               PROVE  {read.signatories : read \in FromScript(Script(Sigset(S), Ratio, Dest), Ratio)}
                        = {[i \in DOMAIN Sigset(S).signatories |->
                              [Sigset(S).signatories[i] EXCEPT
                                 !.power = Truncated(@, Sigset(S).present)]]}
    BY DEF ScriptIsReadBack, ScriptOf
  <2>1. S \subseteq Signers /\ S # {}
    BY DEF IInv, InputsOK, ShareOK, Occupied
  <2>2. Cardinality(S) <= MaxSearch
    <3>1. IsFiniteSet(Signers) /\ MaxSearch \in Nat
      BY SigningAssumption, ScriptAssumption
    <3>2. /\ Cardinality(S) <= Cardinality(Signers) /\ Cardinality(S) \in Nat
          /\ Cardinality(Signers) \in Nat
      BY <2>1, <3>1, FS_Subset, FS_CardinalityType
    <3> QED BY <3>1, <3>2
  <2> QED BY <2>1, <2>2, SetReadBack
<1>2. Init => IInv /\ Occupied
  BY InitInv, OccupiedInv
<1>3. IInv /\ Occupied /\ [Next]_vars => IInv' /\ Occupied'
  BY NextInv, OccupiedKept
<1> QED BY <1>1, <1>2, <1>3, PTL DEF Spec
=============================================================================
