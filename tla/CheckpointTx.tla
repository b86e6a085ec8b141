----------------------------- MODULE CheckpointTx -----------------------------
(***************************************************************************)
(* The Bitcoin transaction a checkpoint is built around, and the pure       *)
(* arithmetic on it: sizes, miner fees, and the step that                   *)
(* freezes a `Building` transaction for signing (BuildingCheckpoint::       *)
(* advance).  No state is kept here; module Bridge applies these operators  *)
(* to the checkpoints of its queue.                                         *)
(*                                                                         *)
(* Amounts of Bitcoin are in satoshis.  Scripts, keys and sighashes are     *)
(* abstracted to the set of signatories that must sign; sizes are counted   *)
(* in the units the constants choose.                                       *)
(***************************************************************************)
EXTENDS Integers, Sequences, FiniteSets, FiniteSetsExt, SequencesExt, ThresholdRule

CONSTANTS
    MaxInputs,      \* CheckpointConfig.max_inputs
    MaxOutputs,     \* CheckpointConfig.max_outputs
    MinFeeRate,     \* CheckpointConfig.min_fee_rate
    MaxFeeRate,     \* CheckpointConfig.max_fee_rate
    UserFeeFactor,  \* CheckpointConfig.user_fee_factor, in 1/10000
    UnitsPerSat,    \* BitcoinConfig.units_per_sat: nBTC units in a satoshi
    TxVsize,        \* virtual size of a transaction without inputs and outputs
    InVsize,        \* ... of an input without its witness (41 in Bitcoin)
    UserInVsize,    \* ... the same, as a depositor pays for it (40 in the code)
    OutVsize,       \* ... of an output
    SigVsize,       \* ... of one signatory's part of a witness (79)
    WitVsize        \* ... of the rest of a witness (39)

(* Every checkpoint tx keeps room for the reserve input, and for the        *)
(* reserve and the timestamping outputs.                                    *)
ASSUME LimitsAssumption ==
    /\ MaxInputs \in Nat \ {0}
    /\ MaxOutputs \in Nat \ {0, 1}
    /\ UnitsPerSat \in Nat \ {0}
    /\ MinFeeRate \in Nat \ {0}
    /\ MaxFeeRate \in Nat
    /\ MinFeeRate <= MaxFeeRate
    /\ UserFeeFactor \in Nat
    /\ {TxVsize, InVsize, UserInVsize, OutVsize, SigVsize, WitVsize} \subseteq Nat

-----------------------------------------------------------------------------
(* Outpoints and outputs.  An outpoint is the reserve output of checkpoint  *)
(* i, or the output of a deposit d.  An output pays the new reserve, the    *)
(* timestamping commitment, or a withdrawal.                                *)

ReserveOutpoint(i) == <<"reserve", i>>
DepositOutpoint(d) == <<"deposit", d>>

ReserveOutput(v) == [to |-> <<"reserve">>, value |-> v]
TimestampOutput  == [to |-> <<"timestamp">>, value |-> 0]
WithdrawalOutput(w, v) == [to |-> <<"withdrawal", w>>, value |-> v]

(* Input::new: an unsigned input, to be signed by the given signatories.    *)
NewInput(outpoint, signatories, amount) ==
    [prevout |-> outpoint, signatories |-> signatories, amount |-> amount]

-----------------------------------------------------------------------------
TotalIn(inputs)   == SumFunction([k \in DOMAIN inputs |-> inputs[k].amount])
TotalOut(outputs) == SumFunction([k \in DOMAIN outputs |-> outputs[k].value])

AtMost(a, b) == IF a < b THEN a ELSE b

(* The first n elements of a sequence, and the others, last one first: the  *)
(* code pops the excess from the back one at a time.                        *)
Kept(s, n)   == SubSeq(s, 1, AtMost(Len(s), n))
Excess(s, n) == Reverse(SubSeq(s, n + 1, Len(s)))

-----------------------------------------------------------------------------
(* SignatorySet::est_witness_vsize                                          *)
WitnessVsize(signatories) == Cardinality(signatories) * SigVsize + WitVsize

WitnessesVsize(inputs) ==
    SumFunction([k \in DOMAIN inputs |-> WitnessVsize(inputs[k].signatories)])

(* Input::est_vsize                                                         *)
InputVsize(signatories) == WitnessVsize(signatories) + UserInVsize

(* Checkpoint::est_vsize.  The two additional outputs are counted for every *)
(* checkpoint, also for one that already holds them, and the witnesses of a *)
(* signed transaction are counted twice: in tx.vsize() and as an estimate.  *)
MutantEstVsize(cp) ==
    LET inputs == Kept(cp.inputs, MaxInputs)
    IN  TxVsize + InVsize * Len(inputs) + OutVsize * Len(cp.outputs)
        + WitnessesVsize(inputs)

EstVsize(cp) ==
    LET inputs == Kept(cp.inputs, MaxInputs)
    IN  TxVsize + InVsize * Len(inputs)
        + OutVsize * AtMost(Len(cp.outputs) + 2, MaxOutputs)
        + (IF cp.status = "Complete" THEN 2 ELSE 1) * WitnessesVsize(inputs)

(* base_fee, and checkpoint_tx_miner_fees: what a frozen tx really pays.    *)
BaseFee(cp)   == EstVsize(cp) * cp.feeRate
MinerFees(cp) == TotalIn(cp.inputs) - TotalOut(cp.outputs)

(* calc_total_input_and_output >= fee: the reserve can pay what the frozen  *)
(* tx will spend.  The outputs are counted before the two additional ones   *)
(* are inserted, so up to two more withdrawals than the frozen tx keeps.    *)
ReserveCovers(cp, fee) ==
    TotalIn(Kept(cp.inputs, MaxInputs)) >= TotalOut(Kept(cp.outputs, MaxOutputs)) + fee

(* calc_minimum_deposit_fees and calc_minimum_withdrawal_fees, in satoshis  *)
(* (the code multiplies by units_per_sat last, after the division).         *)
UserFee(vsize, feeRate) == (vsize * feeRate * UserFeeFactor) \div 10000

(* adjust_fee_rate: up or down by a quarter, and by 1 at least, clamped.    *)
Clamp(x, lo, hi) == IF x < lo THEN lo ELSE IF x > hi THEN hi ELSE x

AdjustFeeRate(rate, up) ==
    Clamp(IF up THEN Max({(rate * 5) \div 4, rate + 1})
                ELSE Min({(rate * 3) \div 4, rate - 1}),
          MinFeeRate, MaxFeeRate)

-----------------------------------------------------------------------------
(* BuildingCheckpoint::advance.  The two additional outputs come first; the *)
(* inputs and outputs beyond the limits are removed and handed to the next  *)
(* checkpoint; what is left after the outputs and the fee is the reserve.   *)
MutantFrozenInputs(cp) == cp.inputs

FrozenInputs(cp)  == Kept(cp.inputs, MaxInputs)
FrozenOutputs(cp) == Kept(<<ReserveOutput(0), TimestampOutput>> \o cp.outputs, MaxOutputs)

MutantReserveValue(cp, fee) == TotalIn(FrozenInputs(cp)) - TotalOut(cp.outputs) - fee

ReserveValue(cp, fee) == TotalIn(FrozenInputs(cp)) - TotalOut(FrozenOutputs(cp)) - fee

ExcessInputs(cp)  == Excess(cp.inputs, MaxInputs)
ExcessOutputs(cp) == Excess(<<ReserveOutput(0), TimestampOutput>> \o cp.outputs, MaxOutputs)

Advanced(cp, fee) ==
    [cp EXCEPT !.status  = "Signing",
               !.inputs  = FrozenInputs(cp),
               !.outputs = [FrozenOutputs(cp) EXCEPT ![1] = ReserveOutput(ReserveValue(cp, fee))]]
=============================================================================
