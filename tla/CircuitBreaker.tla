---------------------------- MODULE CircuitBreaker ----------------------------
(***************************************************************************)
(* change_rates: what the signers ask before they sign, to stop when the    *)
(* reserve falls too quickly.  The checkpoint to be signed is compared with *)
(* one that was created an interval before.  (The rate at which the         *)
(* signatory set changes is in module Signatories.)                         *)
(***************************************************************************)
EXTENDS Bridge

CONSTANT Intervals      \* the intervals the signers ask for

(* change_rates divides by the minimum interval.                            *)
ASSUME IntervalsAssumption == MinInterval \in Nat \ {0} /\ Intervals \subseteq Nat

Signing(q) == q.cps[q.index - 1]

(* There must be a checkpoint to sign; the rates are zero when it is older  *)
(* than the interval.                                                       *)
Asked(q, interval) ==
    /\ HasSigning(q)
    /\ now <= interval \/ now - interval <= Signing(q).createTime

(* As many of the last completed checkpoints are read as could have been    *)
(* created in the interval, and one more.                                   *)
MutantLimit(interval) == 1

Limit(interval) == interval \div MinInterval + 1

Age(q, i) == Max({Signing(q).createTime, now}) - q.cps[i].createTime

Read(q, interval) == CompletedWindow(q, Limit(interval))

(* The last of them that is older than the interval, or else the first.     *)
Compared(q, interval) ==
    LET old == {i \in Read(q, interval) : Age(q, i) > interval}
    IN  IF old # {} THEN Max(old) ELSE Min(Read(q, interval))

(* reserve_output, and the withdrawal rate in 1/10000.                      *)
MutantReserveOf(cp) == cp.outputs[Len(cp.outputs)].value

ReserveOf(cp) == cp.outputs[1].value

WithdrawalRate(before, after) ==
    (Max({ReserveOf(before) - ReserveOf(after), 0}) * 10000) \div ReserveOf(before)

-----------------------------------------------------------------------------
(* The limit on what is read hides nothing: of all completed checkpoints in *)
(* the queue, the one compared with is the last that is older than the      *)
(* interval, or the first when none is.  Checkpoints are created at least   *)
(* min_checkpoint_interval apart, but signed at any time (change_rates with *)
(* CheckpointQueue::completed and should_push).                             *)
LooksBackFarEnough ==
    LET completed == {i \in Retained(queue) : queue.cps[i].status = "Complete"}
    IN  \A interval \in Intervals : Asked(queue, interval) /\ completed # {} =>
            LET c == Compared(queue, interval)
            IN  /\ c \in completed
                /\ \A i \in completed : i > c => Age(queue, i) <= interval
                /\ Age(queue, c) > interval \/ c = Min(completed)

(* What checkpoint i pays to withdrawals and miners, less what its deposits *)
(* bring in.                                                                *)
DepositsIn(cp) ==
    SumFunctionOnSet([k \in DOMAIN cp.inputs |-> cp.inputs[k].amount],
                     {k \in DOMAIN cp.inputs : cp.inputs[k].prevout[1] = "deposit"})
PaidOut(cp) ==
    SumFunctionOnSet([k \in DOMAIN cp.outputs |-> cp.outputs[k].value],
                     {k \in DOMAIN cp.outputs : cp.outputs[k].to[1] = "withdrawal"})
Outflow(cp) == PaidOut(cp) + MinerFees(cp) - DepositsIn(cp)

(* The rate is that of what all checkpoints since the one compared with,    *)
(* and the one to be signed, let flow out of the reserve ("halting signing  *)
(* if funds are leaving the reserve too quickly", change_rates).  It is not *)
(* defined for a reserve of nothing, by which the code divides.             *)
RateIsOutflow ==
    \A interval \in Intervals :
        Asked(queue, interval) /\ Read(queue, interval) # {} =>
            LET i      == Compared(queue, interval)
                before == queue.cps[i]
                flow   == SumFunction([j \in (i + 1) .. (queue.index - 1) |->
                                         Outflow(queue.cps[j])])
            IN  ReserveOf(before) > 0 =>
                  WithdrawalRate(before, Signing(queue))
                    = (Max({flow, 0}) * 10000) \div ReserveOf(before)
=============================================================================
