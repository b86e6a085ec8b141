----------------------------- MODULE RedeemScript -----------------------------
(***************************************************************************)
(* The Bitcoin script that guards the outputs of a signatory set: how the   *)
(* contract builds it, how the browser library reads a set back from it,    *)
(* and what Bitcoin makes of it and a witness.                              *)
(*                                                                         *)
(* An instruction is a pair: an opcode, or what a push puts on the stack.   *)
(* The kinds of pushed bytes (a key of 33 bytes, a number, the commitment   *)
(* to a destination) are kept apart; a signatory set is its signatories in  *)
(* the order of the script and its present voting power.                    *)
(***************************************************************************)
EXTENDS Integers, Sequences, FiniteSets, FiniteSetsExt, SequencesExt

CONSTANTS
    Precision,  \* bits of voting power kept in the script (23 in the code)
    Opcodes,    \* numbers 1..Opcodes are pushed by opcodes (OP_1 .. OP_16)
    MaxSearch,  \* steps of from_script's search (100 in the code)
    Dest        \* the commitment in the scripts

ASSUME ScriptAssumption ==
    /\ Precision \in Nat \ {0}
    /\ Opcodes \in Nat
    /\ MaxSearch \in Nat

Op(name)   == <<name, 0>>
Key(k)     == <<"key", k>>
Number(n)  == <<"number", n>>
Data(d)    == <<"data", d>>

(* Builder::push_int: 0 is the empty push, OP_FALSE.                        *)
PushInt(n) == IF n \in 1..Opcodes THEN <<"OP_PUSHNUM", n>> ELSE Number(n)

OpFalse == PushInt(0)

-----------------------------------------------------------------------------
(* get_truncation: the bits of a number, and the shift to the right.        *)
Bits(n) == CHOOSE b \in 0..n : n < 2^b /\ (b = 0 \/ 2^(b - 1) <= n)

Truncation(present) == IF Bits(present) > Precision THEN Bits(present) - Precision ELSE 0

Truncated(n, present) == n \div 2^Truncation(present)

(* signature_threshold, for a ratio <<numerator, denominator>>.             *)
RatioThreshold(present, ratio) == (present * ratio[1]) \div ratio[2]

-----------------------------------------------------------------------------
(* redeem_script.  The first clause starts the accumulator of voting power, *)
(* each other one adds to it.                                               *)
MutantClause(i, signatory, present) ==
    IF i = 1
    THEN <<Key(signatory.pubkey), Op("OP_CHECKSIG"), Op("OP_IF"),
           PushInt(Truncated(signatory.power, present)),
           Op("OP_ELSE"), OpFalse, Op("OP_ENDIF")>>
    ELSE <<Op("OP_SWAP"), Key(signatory.pubkey), Op("OP_CHECKSIG"), Op("OP_IF"),
           PushInt(signatory.power),
           Op("OP_ADD"), Op("OP_ENDIF")>>

Clause(i, signatory, present) ==
    IF i = 1
    THEN <<Key(signatory.pubkey), Op("OP_CHECKSIG"), Op("OP_IF"),
           PushInt(Truncated(signatory.power, present)),
           Op("OP_ELSE"), OpFalse, Op("OP_ENDIF")>>
    ELSE <<Op("OP_SWAP"), Key(signatory.pubkey), Op("OP_CHECKSIG"), Op("OP_IF"),
           PushInt(Truncated(signatory.power, present)),
           Op("OP_ADD"), Op("OP_ENDIF")>>

Script(set, ratio, dest) ==
    FlattenSeq([i \in DOMAIN set.signatories |-> Clause(i, set.signatories[i], set.present)])
    \o <<PushInt(Truncated(RatioThreshold(set.present, ratio), set.present)),
         Op("OP_GREATERTHAN"), Data(dest), Op("OP_DROP")>>

-----------------------------------------------------------------------------
(* from_script.  Clauses have seven instructions each; from the second on   *)
(* they start with OP_SWAP, which nothing else does.                        *)
Width == 7

Clauses(script) ==
    1 + Cardinality({n \in 1 .. (Len(script) \div Width) :
            \A i \in 1..n : i * Width < Len(script) /\ script[i * Width + 1] = Op("OP_SWAP")})

ClauseOf(script, i) == SubSeq(script, (i - 1) * Width + 1, i * Width)

(* take_key, take_number, take_op: the instructions that are not pushes of  *)
(* the right kind, or not the right opcode, are errors.  A number pushed by *)
(* an opcode is one of them.                                                *)
IsKey(ins)    == ins[1] = "key"
IsNumber(ins) == ins[1] = "number"
IsData(ins)   == ins[1] = "data"

(* take_first_signatory, take_nth_signatory                                 *)
ReadsFirst(c) ==
    /\ IsKey(c[1]) /\ IsNumber(c[4])
    /\ <<c[2], c[3], c[5], c[6], c[7]>>
         = <<Op("OP_CHECKSIG"), Op("OP_IF"), Op("OP_ELSE"), OpFalse, Op("OP_ENDIF")>>

ReadsNth(c) ==
    /\ IsKey(c[2]) /\ IsNumber(c[5])
    /\ <<c[1], c[3], c[4], c[6], c[7]>>
         = <<Op("OP_SWAP"), Op("OP_CHECKSIG"), Op("OP_IF"), Op("OP_ADD"), Op("OP_ENDIF")>>

SignatoryOf(script, i) ==
    LET c == ClauseOf(script, i)
    IN  IF i = 1 THEN [pubkey |-> c[1][2], power |-> c[4][2]]
                 ELSE [pubkey |-> c[2][2], power |-> c[5][2]]

(* take_threshold, take_commitment, and the end of the script.              *)
ReadsTail(tail) ==
    /\ Len(tail) = 4
    /\ IsNumber(tail[1]) /\ tail[2] = Op("OP_GREATERTHAN")
    /\ IsData(tail[3]) /\ tail[4] = Op("OP_DROP")

Tail4(script) == SubSeq(script, Clauses(script) * Width + 1, Len(script))

Reads(script) ==
    /\ Len(script) >= Clauses(script) * Width
    /\ ReadsFirst(ClauseOf(script, 1))
    /\ \A i \in 2 .. Clauses(script) : ReadsNth(ClauseOf(script, i))
    /\ ReadsTail(Tail4(script))

(* The search for the present voting power: step by step from the sum of    *)
(* the powers read towards the threshold read.  Thresholds grow with the    *)
(* power, so it stops at the nearest power that has the threshold.          *)
SumOfPowers(signatories) ==
    SumFunction([i \in DOMAIN signatories |-> signatories[i].power])

MutantFound(total, threshold, ratio) ==
    {v \in {total} : RatioThreshold(v, ratio) = threshold}

Found(total, threshold, ratio) ==
    LET with == {v \in (total - MaxSearch) .. (total + MaxSearch) :
                    v >= 0 /\ RatioThreshold(v, ratio) = threshold}
    IN  {v \in with : \A w \in with : (v - total) * (v - total) <= (w - total) * (w - total)}

(* The sets from_script returns: one, or none when it fails.  (The script   *)
(* of the set it found must be the one it was given, or it panics.)         *)
FromScript(script, ratio) ==
    IF ~Reads(script)
    THEN {}
    ELSE LET signatories == [i \in 1 .. Clauses(script) |-> SignatoryOf(script, i)]
             threshold   == Tail4(script)[1][2]
             dest        == Tail4(script)[3][2]
             sets        == {[signatories |-> signatories, present |-> v] :
                               v \in Found(SumOfPowers(signatories), threshold, ratio)}
         IN  {set \in sets : Script(set, ratio, dest) = script}

-----------------------------------------------------------------------------
(* External: Bitcoin executes a script on a witness, the last element of    *)
(* which is on top.  A signature is known by the key it verifies with; one  *)
(* that does not verify, such as the empty one, counts as none.  The        *)
(* operands of an instruction are `a`, on top, and `b`, below it.           *)
Signature(k) == <<"signature", k>>
NoSignature  == <<"signature">>

Truth(b) == Number(IF b THEN 1 ELSE 0)

Top(stack, n) == stack[Len(stack) + 1 - n]

Replaced(stack, n, pushed) == SubSeq(stack, 1, Len(stack) - n) \o pushed

Operands(ins) ==
    CASE ins[1] \in {"OP_CHECKSIG", "OP_SWAP", "OP_ADD", "OP_GREATERTHAN"} -> 2
      [] ins[1] \in {"OP_IF", "OP_DROP"} -> 1
      [] OTHER -> 0

Execute(s, ins) ==
    LET a == Top(s.stack, 1)
        b == Top(s.stack, 2)
        Result(pushed) == [s EXCEPT !.stack = Replaced(@, Operands(ins), pushed)]
    IN  CASE ins[1] = "OP_CHECKSIG"    -> Result(<<Truth(b = Signature(a[2]))>>)
          [] ins[1] = "OP_SWAP"        -> Result(<<a, b>>)
          [] ins[1] = "OP_ADD"         -> Result(<<Number(b[2] + a[2])>>)
          [] ins[1] = "OP_GREATERTHAN" -> Result(<<Truth(b[2] > a[2])>>)
          [] ins[1] = "OP_DROP"        -> Result(<<>>)
          [] ins[1] = "OP_IF"          -> [Result(<<>>) EXCEPT !.live = a # Number(0)]
          [] ins[1] = "OP_PUSHNUM"     -> Result(<<Number(ins[2])>>)
          [] OTHER                     -> Result(<<ins>>)

Step(s, ins) ==
    CASE ins[1] = "OP_ENDIF" -> [s EXCEPT !.live = TRUE]
      [] ins[1] = "OP_ELSE"  -> [s EXCEPT !.live = ~@]
      [] ins[1] \notin {"OP_ENDIF", "OP_ELSE"} /\ (~s.live \/ ~s.ok) -> s
      [] ins[1] \notin {"OP_ENDIF", "OP_ELSE"} /\ s.live /\ s.ok ->
           IF Len(s.stack) < Operands(ins) THEN [s EXCEPT !.ok = FALSE] ELSE Execute(s, ins)

(* The state after each instruction.                                        *)
Run(script, witness) ==
    LET state[k \in 0 .. Len(script)] ==
            IF k = 0
            THEN [stack |-> witness, live |-> TRUE, ok |-> TRUE]
            ELSE Step(state[k - 1], script[k])
    IN  state

Accepts(script, witness) ==
    LET end == Run(script, witness)[Len(script)]
    IN  end.ok /\ end.stack = <<Number(1)>>
=============================================================================
