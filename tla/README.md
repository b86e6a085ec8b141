# A formal model of the cw-bitcoin bridge

cw-bitcoin is a CosmWasm contract that holds bitcoin for the holders of a token
(nBTC).  Users pay bitcoin to an address controlled by a *signatory set*; the
contract learns of it through a light client, spends the deposit in the next
*checkpoint transaction*, and mints nBTC once that transaction is signed.
Withdrawals are outputs of the same transactions.  This directory holds TLA+
models of the contract, the TLC configurations that check them, and TLAPS proofs.

Paths below are relative to `src/contracts/cw-bitcoin/src/`.

## 1. Inventory

| Component | State it keeps | Operations | What makes it correct |
|---|---|---|---|
| Checkpoint transaction (`checkpoint.rs`: `Input`, `BitcoinTx`, `Checkpoint`, `BuildingCheckpoint`) | inputs, outputs, signatures, fee rate, fees collected, pending transfers | `advance`, `sign`, `base_fee`, `est_vsize`, `insert_pending` | no satoshi is lost or spent twice when inputs and outputs spill over; the frozen transaction pays its fee and is final |
| Checkpoint queue (`checkpoint.rs`: `CheckpointQueue`; `interface.rs`: `DequeExtension`) | `CHECKPOINTS`, `BUILDING_INDEX`, `CONFIRMED_INDEX`, `FIRST_UNHANDLED_CONFIRMED_INDEX` | `maybe_step`, `should_push`, `maybe_push`, `prune`, `sign`, `get`/`set` | one `Building`, at most one `Signing`; index arithmetic never underflows or reads a pruned checkpoint |
| Bridge (`app.rs`, `entrypoints/execute.rs`, `entrypoints/sudo.rs`) | `FEE_POOL`, processed outpoints | `relay_deposit`, `relay_checkpoint`, `add_withdrawal`, `take_pending_*`, `begin_block_step`, `clock_end_block` | each deposit credited once, after its checkpoint is signed; supply backed by the reserve; the end block never fails |
| Signatories (`signatory.rs`, `state.rs`) | `VALIDATORS`, `SIGNERS`, `SIG_KEYS`, `XPUBS` | `set_signatory_key`, `add_validators`, `from_validator_ctx`, `punish_validator` | the set has a quorum; no key is used twice |
| Threshold signatures (`threshold_sig.rs`) | per input: shares, signed power | `from_sigset`, `sign`, `needs_sig`, `signed` | signed means more than two thirds of the power |
| Header queue (`header.rs`) | `HEADERS`, `CURRENT_WORK` | `add`, `configure` | one chain, Bitcoin's targets and times, most work wins |
| Recovery (`recovery.rs`) | `RECOVERY_TXS` | `create_recovery_tx`, `sign` | an expired deposit is sent back, not credited |
| Redeem scripts (`signatory.rs`, `threshold_sig.rs`; `src/wasm/src/signatory.rs`) | none | `redeem_script`, `to_witness`, `from_script` | Bitcoin lets those spend whom the contract counts as having signed; the browser library reads the set back |
| Circuit breaker (`app.rs`: `change_rates`) | none | `change_rates`, asked by signers before they sign | it looks back far enough, and measures what leaves the reserve and the set |
| Processed outpoints (`outpoint_set.rs`) | `OUTPOINTS`, `EXPIRATION_QUEUE` | `insert`, `contains`, `remove_expired` (never called) | no deposit credited twice, also if the set is pruned |
| Fees and destinations (`fee.rs`, `interface.rs`: `Dest`) | `TOKEN_FEE_RATIO`, `CONFIG` | `process_deduct_fee`, `build_cosmos_msg` | the parts of a transfer add up to it; the messages succeed |
| Configuration (`contract.rs`, `entrypoints/execute.rs`) | `*_CONFIG` | `instantiate`, `update_*`, `register_denom`, `change_btc_denom_owner` | a change does not stop the end block |
| Relayer library (`src/wasm/src/relayer.rs`, `deposit_index.rs`) | watched scripts, deposit index | `insert`, `remove_expired`, `open`, ... | an address is watched until it expires, and then no longer |

How they interact.  All messages of the contract are executed one at a time, and
one that fails is rolled back.  What is concurrent is *who sends them*: users,
relayers (who prove deposits, confirmations and headers, repeatedly and in any
order), the signers' daemons, the owner, and the chain itself, which calls
`clock_end_block` through `sudo` at the end of each block.  The end block is the
heart of the system: it pays the transfers of completed checkpoints, decides
whether to push a new checkpoint, prunes old ones, freezes the previous one for
signing, carries its excess inputs, outputs and its reserve over to the new one,
and removes offline signers.

What is hard here, and hardly reached by tests: the same index arithmetic is done
over a queue that is pruned from the front, in several functions with different
fallbacks; transfers are taken by two loops over overlapping ranges, one of which
swallows errors; the miner fee is computed twice, before and after the push;
signers choose the Bitcoin height they report; a reorganisation may lower the
height; confirmations arrive late or never; the limits on inputs and outputs cut a
checkpoint in two; a deposit is remembered, watched and credited by three clocks and
two ages; the owner changes fees and denoms while transfers wait; one transfer that
cannot be paid stops the block for all.  The list, line by line, is `hazards` in `PROJECT.json`.

## 2. Modules

| Module | Models |
|---|---|
| `ThresholdRule` | When a transaction is signed, over the set of those who signed.  No variables. |
| `CheckpointTx` | The pure part of a checkpoint: outpoints, sizes, fees, and `advance`.  No variables. |
| `Bridge` | The queue and every message and hook that changes it.  One action per message; the end block is one action with two cases (`EndBlockQuiet`, `EndBlockPush`). |
| `HeaderQueue` | The light client: batches that extend, reorganise and prune the queue of headers. |
| `ThresholdSig` | The signing state of one input as it is stored: threshold, signed power, shares. |
| `CheckpointSigning` | Signing a frozen checkpoint with those shares and the counters above them. |
| `SigningSpec` | The same over the set of signers, as `Bridge` sees it; `CheckpointSigning` implements it. |
| `RedeemScript` | The script of a signatory set: built by the contract, parsed by the browser library, executed by Bitcoin (external).  No variables. |
| `Spending` | `CheckpointSigning` with the script of each input and the witness made of its shares. |
| `DeductFee`, `Recovery` | `BitcoinTx::deduct_fee`; the queue of recovery transactions and its signing. |
| `Signatories` | Validators, their keys, and the signatory set of each checkpoint. |
| `CircuitBreaker` | `Bridge` with `change_rates`: the withdrawal rate.  (The rate of change of the set is in `Signatories`.) |
| `OutpointSet`, `Relayer`, `Payout` | The processed outpoints; the relayer's watched scripts; fees, destinations and messages. |
| `DepositPath` | The three composed: a deposit from the watched address to the account it is paid to. |
| `SumTheorems` | Lemmas about sums over finite sets and intervals, which the other proofs cite. |
| `BridgeProofs`, `BridgeStepProofs` | Theorems about `Bridge` and `CircuitBreaker`: the queue, the transactions and the money; the steps, the end block and the withdrawal rate. |
| `CheckpointSigningProofs`, `HeaderQueueProofs`, `RecoveryProofs`, `SignatoriesProofs`, `DepositPathProofs` | Theorems about these modules; `CheckpointSigningProofs` also about `Spending` and `RedeemScript`, `RecoveryProofs` about `DeductFee`. |
| `MCBridge`, `MCHeaderQueue`, `MCCheckpointSigning`, `MCRecovery`, `MCSignatories`, `MCDepositPath` | Constants for TLC; `MCRecovery` also evaluates `LargestSetPays` of `DeductFee` on every small input. |

### Bridge and CheckpointTx

| Variable | Code |
|---|---|
| `queue = [cps, index, len]` | `CHECKPOINTS` (the deque) and `BUILDING_INDEX`; `cps[i]` is what `get(i)` returns, for the retained indexes |
| `confirmed`, `firstUnhandled` | `CONFIRMED_INDEX` (`None` = -1), `FIRST_UNHANDLED_CONFIRMED_INDEX` |
| `feePool`, `processed`, `recovery` | `FEE_POOL`, `OUTPOINTS`, `RECOVERY_TXS` |
| `validators`, `keys` | `VALIDATORS`/`SIGNERS`, `SIG_KEYS` |
| `supply`, `height`, `now` | external: nBTC in circulation, best Bitcoin height, block time |
| `requested`, `credited` | history, for the properties (and to bound withdrawals to one per `w`) |

| Action | Code |
|---|---|
| `RelayDeposit`, `RelayExpiredDeposit` | `relay_deposit`, in time and expired |
| `WithdrawToBitcoin` | `withdraw_to_bitcoin` and `add_withdrawal` |
| `RelayCheckpoint` | `relay_checkpoint` |
| `SubmitCheckpointSignature` | `CheckpointQueue::sign` and `Checkpoint::sign` |
| `AddValidators`, `SetSignatoryKey` | `add_validators`, `set_signatory_key` |
| `EndBlockQuiet`, `EndBlockPush` | `clock_end_block`: `take_pending_completed`, then `begin_block_step` (`maybe_step` and `offline_signers`), then `punish_validator` |
| `Tick`, `MineBlock`, `Reorg` | external: the clock, `relay_headers` as the bridge sees it |

A handler that returns an error, or panics (the release profile keeps overflow
checks on), is rolled back: the action is disabled.  The conditions under which
the end block does so are named (`TakeSucceeds`, `ValueLockedSucceeds`,
`ShouldPushSucceeds`, `StepSucceeds`) so that `EndBlockSucceeds` can claim they
hold.

`SetCheckpoint` deserves a remark.  `CheckpointQueue::set` computes the position
of a checkpoint counted from the head of the deque and gives it to
`DequeExtension::set`, which writes at that position *of the storage*; `get` goes
through cw-storage-plus's `Deque::get`, which adds the head.  As long as nothing
was pruned the head is 0 and both agree.  After the first prune `set` writes
`Start(q)` places too low.  The model does what the code does, in every place the
code calls `set`; section 5 says what follows from it.

Abstractions.  Scripts, keys and sighashes are the set of signatories that must
sign.  A signer submits all the signatures a checkpoint wants from it (the code
allows no fewer for the single transaction of a checkpoint).  Sizes are small numbers
in the proportions of the code's.  A relayer's Merkle proof is the choice of an
index and a height; that a transaction Bitcoin has confirmed is fully signed is
external (`RelayCheckpoint` requires it, the code cannot and need not).  The
split of a transfer among receiver, relayer and token fee is left to `Payout`: here
the whole amount is credited.  Each block hash is new, so the `BLOCK_HASHES` check passes.
A reserve outpoint is named after the index of its checkpoint.

### HeaderQueue

`headers` and `currentWork` are `HEADERS` and `CURRENT_WORK`.  `RelayHeaders(hs)`
is `add` with `add_into_iter`, `pop_back_to`, `verify_and_add_headers`,
`get_next_target` and `calculate_next_target`; `UpdateHeaderConfig` is
`configure`.  A block's hash is the sequence of the times and targets of the block
and its ancestors, so equal hashes mean equal branches.  Compact targets are
rounded to a mantissa of two bits.  That a hash is below its target is external:
any header can be mined.  The cache of a batch (`cache_headers_map`) is kept with
the code's own indexing, one height off.

### CheckpointSigning

`input`, `signedInputs`, `signedTxs`, `status` and `signedAt` are the fields of
`BitcoinTx`, `Batch` and `Checkpoint`.  The one action is
`submit_checkpoint_signature`; `SignInput` is the body of its loop over inputs,
`Progress` the loop.  A submission is any sequence of input numbers (the
messages its signatures are for), so it may be short, long, reordered or
repeated; if the code returns an error the action is disabled.  A checkpoint of
this contract has one batch with one transaction, so the outer loops are not
modelled.  The refinement (`ImplementsRule`) maps the shares to the set of those
who signed any input; it is what entitles `Bridge` to keep that set only.

### RedeemScript and Spending

An instruction is a pair of a kind and an argument.  `Script` is `redeem_script`,
clause by clause, with powers and threshold shifted right by `Truncation`
(`get_truncation`); `Witness` is `to_witness`.  Script and witness are sorted by
different code: descending by power and key, and ascending; each order is the one
listing that is sorted so.  `Accepts` is Bitcoin's interpreter for the opcodes that
occur (external): `Run` executes one instruction after the other over a stack; a
signature is the key it verifies with.  `FromScript` is the browser library's parser: `take_*` as tests
on instructions, and its search for a present power that has the threshold read, as
the nearest one within `MaxSearch`.

The side conditions of the properties are what the code does, not what the model
leaves out.  `SignedIsSpendable` asks that the signers' power is over the threshold
without what truncation takes from each of them: an input that is over it by less
is called signed by the contract and refused by Bitcoin.  `ScriptIsReadBack` asks
that no number of the script is small enough to be pushed by an opcode, which the
parser does not read, and that the truncated present power does not fill the
precision, in which case the power found may need one bit more.

### CircuitBreaker

`change_rates` is read-only, so it has no action: `Compared` is the completed
checkpoint it compares with, `WithdrawalRate` the rate; the properties quantify over
the `Intervals` a signer may ask for.  `Signatories` has the other half.  There the
code divides, subtracts and adds shares in `f64`, in the order of a `HashMap`, and
truncates the sum: from powers 1, 2, 7 to 3, 7 it computes 1999 and not 2000.
`TotalGain` is the exact sum, with a common denominator, and `SigsetChanges` the
interval of rates the code may return if what it truncates is off by no more than
`1/Accuracy` of a unit.  With `n` keys the error is of the order of `n * 10000 * 2^-52`,
so an `Accuracy` of 10^9 is true of the code by a wide margin.  The runs have 1000: a larger error,
which allows more rates, with numbers that fit TLC's integers; the theorem has any `Accuracy` from 2 on.
Both sets are looked up by the keys validators have today.  `LeaversCount` is claimed
all the same, also when keys of the set to be signed for were changed or removed: the rate
misses at most the share these had.

### DepositPath: OutpointSet, Relayer, Payout

| Variable | Code |
|---|---|
| `scripts`, `dests` | `WatchedScripts.scripts`, `.sigsets` |
| `outpoints`, `expirations` | `OUTPOINTS`, `EXPIRATION_QUEUE` |
| `pending`, `completed` | the transfers of the checkpoints not yet signed, and signed |
| `recovered` | deposits given to `create_recovery_tx` |
| `config` | what the end block reads of `CONFIG` and `TOKEN_FEE_RATIO` |
| `admin` | external: who administers a denom in the token factory |
| `route`, `now` | external: the address each deposit was paid to; the time |
| `credited`, `paid` | history, for the properties |

| Action | Code |
|---|---|
| `WatchAddress`, `ForgetExpired`, `Restart` | `WatchedScripts::insert`, `remove_expired`, `WatchedScriptStore::open` |
| `RelayDeposit`, `RelayExpiredDeposit` | `relay_deposit` as far as it concerns time, outpoints and the transfer |
| `Prune` | `OutpointSet::remove_expired`, which nothing calls yet |
| `CompleteCheckpoint` | the signing of a checkpoint, as the transfers see it (`Bridge` has the details) |
| `ClockEndBlock` | `clock_end_block`: `process_deduct_fee` and `build_cosmos_msg` for every transfer; all are paid or none |
| `UpdateConfig`, `RegisterDenom`, `ChangeBtcDenomOwner` | the owner's messages |

`Prune` may run at any time, for a time `PruneLag` behind the clock.  The lag must be
at least one second: in the very second of the timeout `relay_deposit` still credits
and `remove_expired` already forgets.  `Messages` are the messages of one transfer in
order; `Succeed` is what token factory and swapper do with them (external: the
factory mints denoms it administers, and amounts from `MinMint` on; the swapper takes
coins the contract has just been minted).  The router's answer for the relayer fee is
any of `Quotes`.  A `Decimal` is a number of `Unit`-th parts, rounded down where the
code rounds.  After a restart the store is opened empty: the code replaces its file
before it reads it, so the file, which is only ever appended to, is left out.

### Recovery and DeductFee

`recoveryTxs` is `RECOVERY_TXS`.  `asked` is the answer to
`query_signing_recovery_txs` a signer's daemon works on, outside the contract.  A
recovery transaction has one input and at most one output; `fee` is kept for the
properties.  `CreateRecoveryTx` stands for the expired branch of `relay_deposit`,
whose conditions are in `Bridge` (`RelayExpiredDeposit`).  `Deducted` is the whole
loop of `deduct_fee`, for any number of outputs: an output is known by its position,
`Left` are the positions left after each round, `Kept` those after the first round
that satisfies the code's condition to stop.  `Wanting` is the order in which
`RecoveryTxs::sign` meets the transactions that want the signer.

### Signatories

`validators`, `signers`, `sigKeys` and `xpubs` are `VALIDATORS`, `SIGNERS`,
`SIG_KEYS` and `XPUBS`; `sigsets` keeps the set of every checkpoint pushed.
`AddValidators` and `SetSignatoryKey` are the messages, `EndBlockPush` is the end
block as far as it concerns keys: the new set, then the punishments.  Who is
offline depends on who signed, which is left open: any validators whose signatures
a completed checkpoint could do without, and who were asked for them under the
keys they have now.  An extended key is its public part, its path and its network;
deriving a signing key depends on the first only, and is taken to be injective.
`Present` keeps the bookkeeping of `present_vp`: `insert` adds every validator with a
key, `sort_and_truncate` subtracts those it drains.  There are two thresholds: the
script's (`SignatureThreshold`) is the configured `Ratio` of `present_vp`, the
contract's (`CountedThreshold`) two thirds of a sum over the signatories left.

## 3. Runs

| Run | Checks | Shows |
|---|---|---|
| `funds` | `NoDoubleSpend`, `ReserveChain`, `Backed`, `FeeRatePaid`, `EndBlockSucceeds`, `LooksBackFarEnough`, `RateIsOutflow`, `PushPaidByFees` | deposits and withdrawals through checkpoints with room for two inputs and one withdrawal: nothing is spent twice, or paid from nothing; whatever is confirmed when and whatever heights signers report, the end block does not fail while nothing is pruned; the circuit breaker sees what flows out |
| `prune` | `TypeOK`, `UntilPruned` | with pruning in reach, and reorganisations: the deque stays well formed, and up to the first prune every deposit is in one place, the queue has its shape, what is confirmed is complete, and no transfer is stranded |
| `signers` | `Frozen`, `PaidFromSigned`, `FrozenIsPaid` | two signers of different power joining, over-signing and being punished: a deposit in a frozen checkpoint is credited once it is signed, and it is credited eventually |
| `stuck` (violation) | `FrozenIsPaid` | with pruning in reach it may never be |
| `misplaced` (violation) | `PaidFromSigned` | after a prune a deposit is credited from an unsigned checkpoint |
| `headers` | `TypeOK`, `Linked`, `MedianTime`, `TargetsRight`, `OrderedIsAccepted`, `BestBranch` | testnet's rules (retargeting, and the search for the last normal target through a batch's cache) under reorganisations, also to shorter branches and across a retarget height, and pruning |
| `late_start` (violation) | `ValidIsAccepted` | a period whose last block has an earlier time than its first blocks the light client |
| `signing` | `AllOrNothing`, `ImplementsRule`, `SpendNeedsThreshold`, `SignedIsSpendable`, `ScriptIsReadBack` | shares and counters implement the rule over sets, whatever is submitted; script and witness let those spend whom the contract counts, up to truncation; the script can be read back |
| `recovery` | `OnlyDustIsLost`, `NothingLeftBehind`, `EventuallySigned` | recovery transactions created while signers work on older answers; which deposits are sent on, and which are left in transactions without an output; an `ASSUME` of its MC module evaluates the rounds of `deduct_fee` against a definition without rounds, for up to four outputs |
| `signatories` | `KeysReserved`, `DistinctPubkeys`, `LeaversCount` | keys stay apart through redeclarations, key changes and punishments; the rate of change counts the power that left |
| `sigsets` | `SignedCanSpend`, `SignedNeedsThird`, `LeaversCount` | sets that are truncated: who has signed can spend, and signing or spending takes a third of all power |
| `deposits` | `TypeOK`, `CreditedOnce`, `PaidInFull`, `EndBlockPays`, `StaysWatched`, `CleansUp` | a deposit is credited once although its outpoint is forgotten, and paid in full; the end block fails for the listed reasons only; addresses are watched exactly as long as they should be |

Bounds, and why they are enough.

- *Checkpoints.*  The code's ten retained checkpoints become `MinCheckpoints` = 3,
  the least for which the arithmetic of `maybe_step` (previous, last completed, first
  unconfirmed) stays inside the queue; the proofs cover every larger value.  The
  clock (`MaxTime`) with `MinInterval` = 1 bounds the number of checkpoints: `prune`
  reaches queues that lose their first checkpoint, `funds` and `signers` set `MaxAge` beyond
  the clock, so nothing is pruned.
- *Limits.*  `MaxInputs` = 2 and `MaxOutputs` = 3 leave room for the reserve and one
  deposit, and for one withdrawal: with three deposits and two withdrawals the
  excess moves through several checkpoints.
- *Power.*  Signer `s1` alone has more than two thirds of the power, `s2` less than
  one third: complete checkpoints are over-signed, and `s2` may be punished.
- *Heights.*  One or no block beyond the start: a signer's claim is at, below or above
  the height of the headers.  `MaxReorg` = 1 in `prune`; `EndBlockSucceeds` is claimed
  for `MaxReorg` = 0, because a shorter, heavier branch can lower the height below a
  signed one.
- *Amounts.*  `UnitsPerSat` = 2 is the least with a fraction to lose; a large
  deposit passes `CapacityLimit` and disables deposits.
- *Intervals.*  0 to 3 in `funds`, with checkpoints at least 1 apart and a clock up to
  4: from none to all checkpoints of the queue are older than the interval.
- *Headers.*  `headers` has periods of four blocks, a median of three, a queue of six
  and batches of two, from height 4 to 10: each header can be near the front, at a
  retarget height, replaced, or pruned.  These are about the least bounds with
  everything that matters: a header reads what an earlier one of its batch has cached
  only if both search below the tip in one period, so periods of three are too short
  (with the cached values replaced by others `TargetsRight` fails); a reorganisation across
  the retarget height 8 still needs header 4; a shorter branch of more work needs low
  targets after it.  Times run out at height 10 and may fall within a period.  The run
  has testnet's rules, which without late blocks are mainnet's; with
  `MinDifficultyBlocks` off runs `late_start` (in a queue of eight), and the theorems
  hold for either and for `Retargeting` off.
- *Signing.*  Two inputs with any of four signers of powers 42, 21, 21 and 2:
  thresholds are passed by one to four signatures, in different steps for
  different inputs, and the two orders of the keys have equals to disagree about.
  With a `Precision` of 5 bits the totals are below it, one and two bits over, and
  one fills it; `Opcodes` = 1 leaves a power that is pushed by an opcode; `MaxSearch`
  = 10 is more than the search ever needs here, as 100 is meant to be.
- *Recovery.*  Three transactions, so that one can be created before, while and
  after a signer works; values at, below and above what the fee leaves of them.
- *Signatories.*  Two validators, two addresses and three keys (so that one can change
  its key while the other keeps its own) over three checkpoints: the third push is
  the first that can punish (`MaxOffline` = 1).  `sigsets` has three validators and
  four keys for sets of two signatories, so that one is truncated away, over two
  checkpoints, in which nobody is punished yet.  The `Ratio` is the code's default.
  Lists of validators have one entry (a longer list does what the same entries do one
  after the other).
- *Deposits.*  Two deposits, to two sets or to one, to an account, by IBC in time or
  late, and through another port; one of them is less than the relayer fee.  Five
  configurations: no fees, fees, a ratio above one, another factory with a router,
  no swapper.  `MaxAge` = 2 and `MaxDepositAge` = 1 with a clock up to 3: the relayer
  still watches addresses whose deposits are late, and outpoints are forgotten
  before the clock ends.
- *Symmetry.*  `funds` permutes deposits and withdrawals, `signatories` and `sigsets` validators,
  addresses and keys; none of them has a liveness property, and nothing chooses among them.

Deadlock is checked in every run; empty submissions, empty lists of validators,
queries, `UpdateHeaderConfig` and the relayer's clean-up are always possible, so it never occurs and carries
no claim.

Fairness (`FairSpec`, runs `signers` and `stuck`): weak fairness of the end block,
which the chain's clock module calls in every block, and of each signer's
submission, which the signers' daemons make as soon as a checkpoint wants their
signature.  Nothing is assumed of relayers, users, the clock or Bitcoin: nobody has
to confirm a checkpoint, and time may stop.  In `recovery` each signer's daemon keeps
asking and submitting (weak fairness); deposits need not keep coming, and if they
came for ever, each between a query and its submission, a signer could be refused
for ever: the bound on recovery transactions excludes that.  The property starts from a *frozen*
checkpoint, because a checkpoint that is being built may wait for fees for ever.

## 4. Proofs

Every theorem holds for all values of the constants that satisfy the assumptions
named below; TLC evaluates these in the runs.  What is proved, by module:

| Module | Theorem | States |
|---|---|---|
| `BridgeProofs` | `TypeCorrect`, `UntilPrunedHolds` | `TypeOK`; `UntilPruned` |
| | `ReserveIsChained`, `NothingSpentTwice`, `FeeRateIsPaid`, `BridgeIsBacked` | `ReserveChain`, `NoDoubleSpend`, `FeeRatePaid`, `Backed`, while intact |
| `BridgeStepProofs` | `FrozenStaysFrozen`, `TransfersPaidFromSigned`, `PushIsPaidByFees` | `Frozen`, `PaidFromSigned`, `PushPaidByFees`, of behaviours that stay intact |
| | `LooksBackFarEnoughHolds`, `RateIsOutflowHolds` | `LooksBackFarEnough`, `RateIsOutflow`, while intact |
| | `EndBlockNeverFails` | `EndBlockSucceeds`, while nothing is pruned and the height does not fall |
| `CheckpointSigningProofs` | `AllOrNothingHolds`, `CountersImplementRule` | `AllOrNothing`; the refinement `ImplementsRule` |
| | `SpendingNeedsThreshold`, `SignedCanBeSpent`, `ScriptsAreReadBack` | `SpendNeedsThreshold`, `SignedIsSpendable`, `ScriptIsReadBack` |
| `HeaderQueueProofs` | `HeaderTypeCorrect`, `QueueIsLinked`, `OnlyMoreWork` | `TypeOK`, `Linked`, `BestBranch` |
| | `TimesAboveMedian`, `TargetsFollowRule` | `MedianTime`, `TargetsRight` |
| | `OrderedBlocksAccepted`, `ValidBlocksAccepted` | `OrderedIsAccepted`; `ValidIsAccepted`, where targets are not adjusted |
| `RecoveryProofs` | `RecoveryPaysItsFee`, `SubmissionIsComplete` | `OnlyDustIsLost`, `NothingLeftBehind` |
| | `LargestSetAlwaysPays` | `LargestSetPays`, for all outputs and fees |
| `SignatoriesProofs` | `KeysStayReserved`, `PubkeysStayDistinct`, `SignersCanSpend`, `SigningNeedsAThird`, `LeaversAreCounted` | `KeysReserved`, `DistinctPubkeys`, `SignedCanSpend`, `SignedNeedsThird`, `LeaversCount` |
| `DepositPathProofs` | `DepositTypeCorrect`, `DepositsCreditedOnce`, `WatchedUntilExpired`, `CleanUpIsExact`, `PayableIsPaid`, `TransfersPaidInFull` | `TypeOK`, `CreditedOnce`, `StaysWatched`, `CleansUp`, `EndBlockPays`, `PaidInFull` |

*Intact* means that nothing was pruned yet.  The condition is needed: after the
first prune the code writes to the wrong checkpoints (section 5), and the runs
`misplaced` and `stuck` show what becomes of the properties.  An invariant is
claimed of intact states (`[](Intact => Inv)`), a property of steps of behaviours
that stay intact (`Spec /\ []Intact => Prop`).

**Sums** (`SumTheorems`).  Amounts, fees, powers and work are added up with the
community modules' `SumFunctionOnSet`, a fold in the order in which `CHOOSE` picks.
The induction the library offers takes an operator as its parameter, which the
provers cannot instantiate; instead each fact is shown by minimal counterexample:
a set of bad subsets of a finite set has a minimal member (`MinimalSubset`, from the
well-founded order on finite sets), a set of bad naturals a least one
(`LeastNat`).  First the fold's table of partial sums exists and is unique
(`TableExists`, `TablesAgree`), then sums split, shift, reverse and telescope.

**The queue** (`BridgeProofs`).  `TypeOK` is not inductive: the end block reads the
checkpoints up to `confirmed`, so `TInv` adds `ConfirmedKnown`, that `confirmed` does
not pass the index being built.  One lemma per operator that makes a queue
(`SetType`, `ClearType`, `PushedType`, `PrunedType`, `SteppedType`) shows that it
keeps `QueueOK`; one lemma per action follows.  The theorem holds in pruned states
too: a misplaced write still writes a checkpoint inside the deque.  `IsPrunedStart`
picks the least index at which `prune` stops, and keeps the new checkpoint and the
two before it (`PruneKeeps`).  For `UntilPruned` the invariant is `IInv == TInv /\
(Intact => Whole)`, where `Whole` is the conjunction of the four invariants.  They
need each other: that the end block pays every completed checkpoint
(`NothingStranded`) rests on the shape of the queue; that the ranges it reads lie
inside the queue rests on `ConfirmedIsCompleted`; that no transfer is paid twice
rests on the two loops clearing what they take and on `processed`.  A pruned queue
never becomes intact again (`IntactBefore`), so each step has either an intact queue
before and after it, or nothing to show but types.

**The money** (`BridgeProofs`).  `FInv == IInv /\ (Intact => FundsInv)`.  `FundsInv`
has three parts.  `TxsOK`: types of inputs, outputs and fees.  `Ledger`: the reserve is
chained; every input spends the reserve of the checkpoint before (as its first) or
a relayed deposit, every output is the reserve, the timestamp or a requested
withdrawal; no two inputs spend the same, no two outputs pay the same; frozen
transactions pay their fee.  `FundsOK`: the `Surplus`, what the checkpoint being built
holds less what is owed (supply, fee pool, waiting transfers), is between zero and
`UnitsPerSat - 1` for each withdrawal, the fractions of a satoshi that a withdrawal
loses.  `Backed` alone is not inductive, because a push moves inputs and outputs
between two checkpoints: `PushMoved` says which input (output) of the new queue was
which of the old, the excess last one first, and `PushSources`, `PushDestinations`
and `PushNet` follow from it; that the reserve can pay is `StepSucceeds`, a guard of
the action that the code checks too.

**Steps** (`BridgeStepProofs`).  `Follows(new, old)` is what any step may do to one
checkpoint, and `NextFollows` that every action does only that; `Frozen` is one half
of it.  `SInv` adds that complete checkpoints are signed: since the end block pays
from complete checkpoints only (`TakenIsComplete`), `PaidFromSigned` follows.
`PushPaidByFees` compares two computations of the fee of one checkpoint: before the
push, with the new checkpoint not yet there, and after it.  `SameUnconfirmed`
shows that both sum the same checkpoints, although they search for the first
unconfirmed one in different queues.

**The circuit breaker** (`BridgeStepProofs`).  `HInv` adds to `SInv` that checkpoints are
`Spaced` at least `MinInterval` apart, and that frozen ones have the timestamp
output, of no value.  `LooksBackFarEnough`: if the code stops reading at a
checkpoint that is not older than the interval although there are earlier ones,
then more than `interval \div MinInterval` checkpoints were created within the
interval.  `RateIsOutflow`: what one frozen checkpoint lets flow out is what the
reserve loses (`OutflowIsLoss`, from the chain of reserves and what inputs and outputs
are), and the losses telescope.

**The end block** (`BridgeStepProofs`).  `EndBlockSucceeds` needs the queue's shape and
the ranges of `IInv`, the funds of `FInv`, and one thing more.  A checkpoint records the
Bitcoin height its last signer claims, which may be ahead of the headers, and
`maybe_step` subtracts it from theirs.  `EInv` adds to `HInv` that the headers have
reached the claims of all frozen checkpoints but the newest (`HeightsReached`):
`should_push` refuses to push before they have reached that of the last completed one.  A
reorganisation that lowers the height would break it, hence the theorem's premise
`[][height' >= height]_vars`.  `PrunesNothing` says that the push of this block, too,
prunes nothing.  `StepAlways` shows that the reserve covers the
frozen transaction: `should_push` compared it with the fee of the queue before the
push, and `SameFee` shows that `maybe_step` computes the same one after it.

**Signing** (`CheckpointSigningProofs`).  The loop of `Checkpoint::sign` is a
recursive function; that it exists is shown first (`ProgressExists`).  `Loop` is
its invariant: after `k` inputs, unless the submission has failed, exactly those
among the first `k` that wanted the signer have its share, and the counter is the
number of signed inputs.  The invariant of the specification says that stored
power and threshold are those of the shares (`ShareOK`), that who signed one input
signed all that want it (`Together`), and that the counters and the status agree
(`Counters`).  For the refinement, the abstract rule over sets holds exactly when the
counter of transactions is one (`SameTxSigned`), and a submission is a `Sign` step
or leaves the abstract state alone (`SubmitRefines`).

**Scripts** (`CheckpointSigningProofs`).  What Bitcoin does is computed, not assumed: the
interpreter is run on script and witness.  `FirstClause`, `NextClause` and `LastClause`
run the seven instructions of a clause on any stack; `ClausesRun` is the invariant
between two clauses: the accumulator is the truncated power of those among the
clauses so far whose signatures are there, and the other signatures wait below it in
the order in which the clauses ask for them.  That they do so rests on two orders
that different code computes: a listing in either exists and is unique
(`ListingExists`, `ListingUnique`), so one is the reverse of the other
(`OrdersAreReverse`).  `SpendRule` sums up: a witness is accepted exactly when the sum of
the truncated powers is over the truncated threshold.  The rest is arithmetic:
`BitsOf` finds the length of a number (powers of two count the subsets of an
interval), `PowerSplits` splits a sum into what truncation keeps and takes, and
`UnitsOver` compares a truncated sum with a threshold.  The two theorems need opposite
bounds on the ratio, at least and at most two thirds; the code's default meets both.

**Reading a script back** (`CheckpointSigningProofs`).  `ScriptForm` and `ScriptRead` show that
the parser counts as many clauses as were written and reads keys, powers and
threshold from their places.  What it searches for is a present power that it does
not know.  It starts from the sum of the truncated powers (`TruncatedSum`: at most the
number of signatories below the truncated total) and takes the least power from
there on with the threshold it has read.  Thresholds grow with the power and reach
every value in between (`ThresholdsGrow`, `ThresholdBetween`), so the search ends within as
many steps as there are signatories (`SearchFinds`), and the power found needs no
truncation (`NotTruncated`): the script of the set read is the script given.

**Headers** (`HeaderQueueProofs`).  `IInv` types the entries and their hashes (sequences
of blocks), says that the queue is a chain, and that `CURRENT_WORK` is at least its
work.  Each is needed for the next batch: its headers follow the last one kept
because heights are places in the deque; pruning subtracts the work of headers
that were counted.  `BestBranch` is about work from the trusted header on, which the
code never computes: `BranchWorkOfHash` gets it from a hash, and the two branches
share all but what was replaced.

`MedianTime`: `MInv` counts, for each header, how many of those in its median span are
earlier; more than half is the same as being later than the middle of the sorted times
(`AboveMiddle`), needs no sorted sequence, and moves with the headers through joins and
prunes (`LaterMoved`, `JoinedLater`).  `TargetsRight`: `TInv` says that each header but the
first has the target the rule gives for its own branch.  The search for the last
ordinary target reads some headers from the queue and some from the batch's cache,
whose heights are one off; `CacheOK` and `Tracks` say what each of them holds of
the branch, `SearchStops` where the search stops, and `SearchIsRule` that the rule
stops there too.  `OrderedIsAccepted` is the converse of the checks (`AcceptsValid`): what
the code demands beyond Bitcoin's rules is met because the queue is linked, its
targets are right, and, under `WellConfigured`, all headers it looks for are there
(`ReachesStart`, `SearchSucceeds`).

**Recovery** (`RecoveryProofs`).  A round of `deduct_fee` that is not the last removes an
output (`RoundRemoves`), so there is a last one (`LastRound`).  What is left then can
pay (`KeptPays`); and a set whose members can pay an equal share loses none of them in
any round, because shares only grow as outputs leave (`SharesShrink`,
`AffordableStays`): `LargestSetAlwaysPays`.  `OnlyDustIsLost` is about one output (`OneOutput`): the largest
set is that output if it is worth more than dust and the fee, and otherwise empty.  For
`NothingLeftBehind`, `WantingAll` shows that the listing of transactions that want a
signer exists and has all of them; one that was created after the signer asked
makes the submission too short, and it is refused.

**Keys** (`SignatoriesProofs`).  `IInv` adds to the two properties that every key is for the
contract's network and that no two have the same public part (`KeysApart`).  The
parts need each other: a new key differs from those in use because they are taken,
under a form that forgets the path; and they stay taken when a validator is
punished because what is removed is that validator's own key, which differs.
`PresentIsPower` shows that what `insert` and `sort_and_truncate` keep in `present_vp` is
the sum over the signatories left, the number `from_sigset` computes; the two thresholds
then differ by the ratio only (`RatioAtLeast`, `RatioAtMost`), and `SignersCanSpend` and
`SigningNeedsAThird` need opposite bounds on it.  The latter rests moreover on
`QuorumIsWorthAThird`, which is arithmetic, and on `SetOK`, that a set's powers are
naturals and that it was made with a quorum; `PowersOK` says the former of the
validators, through lists that name one of them twice.  `LeaversCount` compares sums
of shares with a common denominator: the shares of either set add up to the same, so
what the holders of keys gained is at least what those who left had, less what the
later set has under keys that are no longer in use (`ChangeBounded`); the error of the
code's sum costs at most one unit.
`RInv` keeps that sets have some power, so that there are shares, and that the keys
of a set are told apart by their public parts.

**Deposits** (`DepositPathProofs`) has several invariants.

- `DepositsCreditedOnce`: `OnceInv` says that each entry of the expiration queue
  carries the timeout `relay_deposit` compares with, and that a credited deposit is
  remembered or too late to be credited again.  The first half makes the second
  inductive: an outpoint is only forgotten when its timeout is over, because
  `Prune` stays behind the clock.
- `WatchedUntilExpired` and `CleanUpIsExact`: `WatchInv` says that the scripts are
  those of destinations in `dests`, and that all of these are watched whose set is
  young enough.  `ForgetIsExact` is the step in which creation times must grow with
  the index (`SigsetsAssumption`): behind the first young set there is no old one.
- `PayableIsPaid`: `PayInv` types the transfers and the configuration; the rest is
  arithmetic and the shape of the messages.  `RatioFits`: a ratio of at most one,
  rounded down twice, never asks for more than there is; `MessagesSucceed`: what is
  swapped was minted just before, and no fee message mints nothing.
  `FeesAddUp` is the split itself, for all amounts.
- `TransfersPaidInFull` adds up the messages of a transfer, case by case of who gets
  a fee and where the rest goes.

Assumptions on constants.  `Bridge`: `LimitsAssumption` (room for one input and two outputs,
positive rates and units, sizes are naturals), `QueueAssumption` (`MinCheckpoints` at
least 3, bounds are naturals) and `FundsAssumption` (amounts and powers are naturals,
finitely many validators); `CircuitBreaker`: `IntervalsAssumption` (`MinInterval` is not
zero: the code divides by it).  `CheckpointSigning`: `SigningAssumption`; `Spending`:
`SpendingAssumption` (keys are totally ordered, the ratio is a fraction); `RedeemScript`:
`ScriptAssumption` (types; `Precision` is not zero).  `HeaderQueue`: `HeaderAssumption` (types;
intervals, lengths and the batch limit are not zero).  `DeductFee`, `Recovery`:
`DustAssumption`, `RecoveryAssumption` (types; a transaction has a size).  `Signatories`:
`KeysAssumption` (types; the ratio is a fraction; `Accuracy` at least 2).
`DepositPath`: `SigsetsAssumption`, `DepositAssumption` (`PruneLag` at least 1), `ConfigAssumption`, `DestAssumption` (types), `PayoutAssumption`.  The amount
of a fee ratio is not bounded: that it is at most one is a premise of `EndBlockPays`.

Premises of single theorems, where the property needs more than its module does:

| Theorem | Premise | Why |
|---|---|---|
| `EndBlockNeverFails` | the height never falls; nothing is pruned; the total power is not 1 | section 5: claimed heights, writes after a prune, and an empty quorum |
| `LeaversAreCounted` | nobody is declared with no power | a set of no power has no shares |
| `SignersCanSpend` | the same; the ratio is at most two thirds | a set of no power cannot sign; the contract counts with two thirds whatever the script's ratio is |
| `SigningNeedsAThird` | the ratio is at least two thirds | a script with a lower one lets fewer spend |
| `OrderedBlocksAccepted`, `ValidBlocksAccepted` | `WellConfigured`: the trusted header starts a period, targets fit the hash and the compact form; `Reaches`: the queue starts at it or is a period long | else the first header of a period may be unknown |
| `ValidBlocksAccepted` | no retargeting | a timespan is an unsigned difference: run `late_start` |
| `SpendingNeedsThreshold`, `SignedCanBeSpent` | the ratio is at least, at most two thirds | the contract counts with two thirds whatever the script's ratio is |
| `ScriptsAreReadBack` | the ratio is at most one; `MaxSearch` is at least the number of signatories | the code has 100 steps and at most 20 signatories |
| `RecoveryPaysItsFee` | the fee rate is not zero | without a fee nothing is deducted or removed, dust included |

Only model-checked is liveness (`FrozenIsPaid`, `EventuallySigned`), which is out of the
prover's reach.  Every other property of a passing run is a theorem.

## 5. What the runs found

1. **Writes after the first prune** (`interface.rs:80`, run `misplaced`).  See
   `SetCheckpoint` above.  The newly frozen checkpoint replaces the completed one
   before it, the checkpoint that takes its place at the end is an unmodified new
   one without the reserve input, and deposits may be credited from an unsigned
   checkpoint.  Before the first prune all properties hold; this is what
   `UntilPruned` and `Intact` state.
2. **The end block stops** (`app.rs:733`, run `stuck`).  `take_pending_completed`
   reads from `confirmed_index`, or 0, on; if no younger checkpoint is confirmed before
   `prune` drops that one, this read fails in every end block.
3. **Late period start** (`header.rs:456`, run `late_start`).  The timespan of a
   period is an unsigned difference; Bitcoin allows it to be negative.

Met while modelling, and in the models as the code has them, without a run of
their own:

- `CURRENT_WORK` (`header.rs:471`) keeps the work of replaced headers.  It is never
  too small (`TypeOK`), and reorganisations compare the batch's own work, so
  `BestBranch` holds.
- `deduct_fee` (`checkpoint.rs:286`) removes outputs that cannot pay and succeeds
  without any.  Its documentation (lines 247-248) says "This function will fail if the fee
  is greater than the value of the outputs in the transaction", the test
  `deduct_fee_multi_pass_empty_result` expects success when none is left.  An expired
  deposit below its fee is marked as processed and becomes a recovery transaction
  without outputs, which signers sign; `OnlyDustIsLost` says which deposits these are.
- Redeclaring a validator under a new address (`entrypoints/execute.rs:247`) leaves
  the old one in `SIGNERS`, where it outlives the validator's punishment.
- With a total power of one, no key is a quorum (`signatory.rs:306`); the push then
  panics in `offline_signers` (`app.rs:623`).
- The key of a punished validator (`app.rs:669`) is removed from `XPUBS` under an
  encoding that is there only for keys of depth 0, so others stay taken for ever.
- The withdrawal rate (`app.rs:560`) divides by the earlier reserve: a reserve of
  nothing makes the query, and with it signers that ask before they sign, fail.
- One transfer that cannot be paid stops the end block (`entrypoints/sudo.rs:36`): a fee
  ratio above one, a denom of another factory than the configured one, or, if the
  factory refuses to mint nothing, a deposit no larger than its fees.  `Payable` lists
  these, and `EndBlockPays` shows that there is nothing else.
- A transfer by IBC through another port than `transfer` (`interface.rs:163`) pays its
  fees and loses the rest.
- `remove_expired` (`outpoint_set.rs:59`) forgets an outpoint in the last second in which
  its deposit is credited; a `max_deposit_age` raised after that would make it
  creditable again (`app.rs:266`; the age is constant here).
- The relayer's store (`src/wasm/src/relayer.rs:189`) is empty after a restart.

## 6. Not modelled, and the plan

Done: `CheckpointTx`, `Bridge`, `HeaderQueue`, `CheckpointSigning`, `Spending`, `Recovery`,
`Signatories`, `CircuitBreaker`, `DepositPath`, and the proofs of section 4.  What would
come next:

1. An abstract `BridgeLedger` (each deposit is unknown, pending, credited or
   recovered; supply is what was credited less what was burnt) that `Bridge` implements
   while intact, with `DepositInOnePlace` as the heart of the mapping.
2. Composition of `HeaderQueue` and `Bridge`, so that the height falls exactly
   when a heavier, shorter branch arrives; what the end block does meanwhile.

Not modelled:

- queries other than `change_rates`: they return what is stored;
- the index of deposits of the browser library (`deposit_index.rs`: a nested map for
  display) and the file of the watched scripts, which is written and never read;
- the messages that replace the configuration of checkpoints, of Bitcoin and of
  headers (except `configure` itself): they overwrite a record the models take as
  constant, and no property is claimed across such a change;
- the browser library's copies of the contract's types, other than `from_script`;
- message and storage encodings, Merkle proofs, signature verification and key
  derivation: what the contract needs of them is assumed where it is used.
