----------------------------- MODULE DepositPath ------------------------------
(***************************************************************************)
(* The path of a deposit from the address the relayer watches to the        *)
(* account it is paid to: the relayer's store, relay_deposit with the set   *)
(* of processed outpoints, the checkpoint that holds the transfer until it  *)
(* is signed, and the end block that pays it, while the clock runs, the     *)
(* owner changes the configuration and the relayer restarts.                *)
(*                                                                         *)
(* Module Bridge has what relay_deposit checks of Bitcoin's proof and of    *)
(* the checkpoint, and what becomes of the Bitcoin; here a checkpoint is    *)
(* the transfers it holds.  A failing call changes nothing and is no step.  *)
(***************************************************************************)
EXTENDS Relayer, OutpointSet, Payout

CONSTANTS
    Deposits,       \* outpoints of deposits
    Routes,         \* what their addresses may be: functions to <<dest, index>>
    Value,          \* what each pays, in units
    MinerFee,       \* the fee of spending one, in units
    MaxDepositAge,  \* BitcoinConfig.max_deposit_age
    PruneLag,       \* how far behind the clock outpoints are pruned
    Configs,        \* the configurations the owner may set
    Factories,      \* token factories; each has a denom of its own
    Quotes,         \* answers of the router for the relayer fee
    MaxTime         \* bound: the clock

ASSUME DepositAssumption ==
    /\ \A r \in Routes : \A d \in Deposits : r[d][2] \in Sigsets
    /\ Value \in [Deposits -> Nat]
    /\ MinerFee \in Nat
    /\ MaxDepositAge \in Nat
    /\ PruneLag \in Nat \ {0}
    /\ Quotes \subseteq Nat
    /\ MaxTime \in Nat

ASSUME ConfigAssumption ==
    \A c \in Configs :
        /\ c.router \in BOOLEAN /\ c.sameToken \in BOOLEAN /\ c.osor \in BOOLEAN
        /\ c.relayerFee \in Nat
        /\ c.factory \in Factories
        /\ c.ratio # <<>> => c.ratio[1] \in Nat /\ c.ratio[2] \in Nat

Dests == {r[d][1] : r \in Routes, d \in Deposits}

ASSUME DestAssumption ==
    \A dest \in Dests :
        \/ dest.kind = "Address"
        \/ dest.kind = "Ibc" /\ dest.timeout \in Nat

VARIABLES
    route,      \* the address each deposit is paid to
    pending,    \* transfers of checkpoints that are not signed yet
    completed,  \* transfers of signed checkpoints
    recovered,  \* deposits given to a recovery transaction
    config,     \* CONFIG and TOKEN_FEE_RATIO
    admin,      \* external: who administers the denom of each factory
    credited,   \* history: how often each deposit became a transfer
    paid        \* history: the receipts of the end blocks' payments

contractVars == <<pending, completed, recovered, config>>
historyVars  == <<credited, paid>>
vars == <<now, route, relayerVars, outpointVars, contractVars, admin, historyVars>>

Nobody == "nobody"

Routed == {route[d] : d \in Deposits}

-----------------------------------------------------------------------------
(* relay_deposit, called by the relayer for a script it watches: credited   *)
(* in time, recovered later.  A failure undoes the insertion.               *)
Timeout(i) == CreateTime[i] + MaxDepositAge

MutantExpiration(i) == CreateTime[i]

Expiration(i) == Timeout(i)

Transfer(d) == [deposit |-> d, denom |-> config.factory, dest |-> route[d][1],
                amount |-> Value[d] - MinerFee]

Relayed(d) ==
    /\ route[d] \in scripts
    /\ ~Processed(d)
    /\ Insert(d, Expiration(route[d][2]))

RelayDeposit(d) ==
    /\ Relayed(d)
    /\ now <= Timeout(route[d][2])
    /\ Value[d] >= MinerFee
    /\ pending' = pending \cup {Transfer(d)}
    /\ credited' = [credited EXCEPT ![d] = @ + 1]
    /\ UNCHANGED <<now, route, relayerVars, completed, recovered, config,
                   admin, paid>>

RelayExpiredDeposit(d) ==
    /\ Relayed(d)
    /\ now > Timeout(route[d][2])
    /\ recovered' = recovered \cup {d}
    /\ UNCHANGED <<now, route, relayerVars, pending, completed, config,
                   admin, historyVars>>

(* The call that is to keep the set small; nothing in the contract makes it *)
(* yet.                                                                     *)
Prune ==
    /\ Due(now - PruneLag) # {}
    /\ RemoveExpired(now - PruneLag)
    /\ UNCHANGED <<now, route, relayerVars, contractVars, admin, historyVars>>

-----------------------------------------------------------------------------
(* The signatories sign what is pending.                                    *)
CompleteCheckpoint ==
    /\ pending # {}
    /\ completed' = completed \cup pending
    /\ pending' = {}
    /\ UNCHANGED <<now, route, relayerVars, outpointVars, recovered, config,
                   admin, historyVars>>

(* clock_end_block pays all completed transfers or none.                    *)
MessagesFor(transfer, quote) ==
    Messages(config, quote, transfer.dest, transfer.amount, now)

Paid(transfer, quote) ==
    /\ FeeFits(config, transfer.amount)
    /\ Succeed(MessagesFor(transfer, quote), admin[transfer.denom] = config.factory)

Receipt(transfer, quote) ==
    [transfer |-> transfer,
     minted   |-> Minted(MessagesFor(transfer, quote)),
     held     |-> Held(MessagesFor(transfer, quote))]

ClockEndBlock(quote) ==
    /\ completed # {}
    /\ \A transfer \in completed : Paid(transfer, quote)
    /\ paid' = paid \cup {Receipt(transfer, quote) : transfer \in completed}
    /\ completed' = {}
    /\ UNCHANGED <<now, route, relayerVars, outpointVars, pending, recovered, config,
                   admin, credited>>

-----------------------------------------------------------------------------
(* update_config, by the owner: a field is set or kept, so that the router  *)
(* and the ratio cannot be taken back; the swapper is set for ever.         *)
UpdateConfig ==
    /\ config' \in {c \in Configs \ {config} :
          /\ config.router => c.router
          /\ config.ratio # <<>> => c.ratio # <<>>
          /\ c.osor = config.osor}
    /\ UNCHANGED <<now, route, relayerVars, outpointVars, pending, completed, recovered,
                   admin, historyVars>>

(* register_denom and change_btc_denom_owner, by the owner, act on the      *)
(* factory and the denom of the configuration of the day.                   *)
RegisterDenom ==
    /\ admin[config.factory] = Nobody
    /\ admin' = [admin EXCEPT ![config.factory] = config.factory]
    /\ UNCHANGED <<now, route, relayerVars, outpointVars, contractVars,
                   historyVars>>

ChangeBtcDenomOwner(new) ==
    /\ admin[config.factory] = config.factory
    /\ new # config.factory
    /\ admin' = [admin EXCEPT ![config.factory] = new]
    /\ UNCHANGED <<now, route, relayerVars, outpointVars, contractVars,
                   historyVars>>

-----------------------------------------------------------------------------
(* The relayer and the clock.                                               *)
WatchAddress(address) ==
    /\ Watch(address[1], address[2])
    /\ UNCHANGED <<now, route, outpointVars, contractVars, admin, historyVars>>

ForgetExpired ==
    /\ Forget
    /\ UNCHANGED <<now, route, outpointVars, contractVars, admin, historyVars>>

Restart ==
    /\ Open
    /\ UNCHANGED <<now, route, outpointVars, contractVars, admin, historyVars>>

Tick ==
    /\ now < MaxTime
    /\ now' = now + 1
    /\ UNCHANGED <<route, relayerVars, outpointVars, contractVars, admin,
                   historyVars>>

Init ==
    /\ now = 0
    /\ route \in Routes
    /\ InitRelayer
    /\ InitOutpoints
    /\ pending = {} /\ completed = {} /\ recovered = {}
    /\ config \in {c \in Configs : c.ratio = <<>>}
    /\ admin = [f \in Factories |-> Nobody]
    /\ credited = [d \in Deposits |-> 0]
    /\ paid = {}

EndBlock == \E quote \in Quotes : ClockEndBlock(quote)

Next ==
    \/ \E d \in Deposits : RelayDeposit(d) \/ RelayExpiredDeposit(d)
    \/ \E address \in Routed : WatchAddress(address)
    \/ ForgetExpired \/ Restart \/ Prune \/ Tick
    \/ CompleteCheckpoint \/ EndBlock
    \/ UpdateConfig \/ RegisterDenom
    \/ \E new \in Factories : ChangeBtcDenomOwner(new)

Spec == Init /\ [][Next]_vars

-----------------------------------------------------------------------------
Transfers == [deposit : Deposits, denom : Factories, dest : Dests, amount : Nat]

(* The variables keep their types; watched scripts and processed outpoints  *)
(* have the entries by which they are to be removed (the destinations by    *)
(* signatory set, the queue of expirations).                                *)
TypeOK ==
    /\ now \in 0..MaxTime
    /\ route \in Routes
    /\ scripts \subseteq {<<dest, i>> : dest \in Dests, i \in Sigsets}
    /\ \A w \in scripts : w[2] \in DOMAIN dests /\ w[1] \in dests[w[2]]
    /\ \A o \in outpoints : \E e \in expirations : e[2] = o
    /\ pending \subseteq Transfers /\ completed \subseteq Transfers
    /\ recovered \subseteq Deposits
    /\ config \in Configs
    /\ admin \in [Factories -> Factories \cup {Nobody}]
    /\ \A receipt \in paid : receipt.transfer \in Transfers

(* A deposit is credited at most once, although the set of processed        *)
(* outpoints forgets it: not before relay_deposit stops crediting deposits  *)
(* to its signatory set (outpoint_set.rs: "outpoints can not expire from    *)
(* the set until after they are no longer considered valid to relay").      *)
CreditedOnce == \A d \in Deposits : credited[d] <= 1

(* The end blocks mint for each transfer what they took from a checkpoint,  *)
(* no more and no less, and the contract keeps none of it unless the        *)
(* transfer is addressed to it; from a transfer by IBC through a port other *)
(* than "transfer", only fees may be minted and the rest be lost            *)
(* (process_deduct_fee, build_cosmos_msg).                                  *)
PaidInFull ==
    \A receipt \in paid :
        LET transfer == receipt.transfer
        IN  /\ Contract \notin {transfer.dest.receiver, transfer.dest.sender}
                  => receipt.held = 0
            /\ \/ receipt.minted = transfer.amount
               \/ /\ transfer.dest.kind = "Ibc" /\ transfer.dest.port # "transfer"
                  /\ receipt.minted < transfer.amount

(* What the end block needs: a fee ratio of at most one, a configured       *)
(* factory that administers the denoms the transfers got when they were     *)
(* relayed, and for every one something left after the fees.                *)
Payable ==
    /\ config.ratio # <<>> => config.ratio[1] <= config.ratio[2] \/ config.ratio[2] = 0
    /\ \A t \in completed :
         /\ admin[t.denom] = config.factory
         /\ \A quote \in Quotes : Fees(config, quote, t.amount).deducted >= MinMint

(* Nothing else makes an end block fail, and with it the payment of all     *)
(* other transfers (clock_end_block pays all of them or none).              *)
EndBlockPays ==
    Payable => \A quote \in Quotes : \A transfer \in completed : Paid(transfer, quote)

(* An address that was inserted is watched until its signatory set is as    *)
(* old as the relayer allows: cleaning up never stops the watch before      *)
(* (WatchedScripts::remove_expired).                                        *)
StaysWatched ==
    \A i \in DOMAIN dests : \A dest \in dests[i] :
        now < CreateTime[i] + MaxAge => <<dest, i>> \in scripts

(* And it stops all that are due, although it gives up at the first         *)
(* signatory set that is young enough: scripts are only lost together with  *)
(* all other expired ones, or in a restart.                                 *)
CleansUp ==
    [][~(scripts \subseteq scripts') =>
          scripts' \in {{}, {w \in scripts : ~Old(w[2])}}]_vars
=============================================================================
