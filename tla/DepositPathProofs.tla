--------------------------- MODULE DepositPathProofs --------------------------
(***************************************************************************)
(* Proofs about the path of a deposit, for any deposits, addresses, clocks  *)
(* and configurations: that pruning the processed outpoints does not let a  *)
(* deposit be credited again, that the relayer's clean-up removes exactly   *)
(* what is due, and that the end blocks mint what they took.                *)
(***************************************************************************)
EXTENDS DepositPath, SequenceTheorems, SumTheorems

(* Once credited, a deposit is remembered until it is too late to credit it *)
(* again: its entry in the queue carries the timeout relay_deposit tests.   *)
Remembered(d) == d \in outpoints \/ now > Timeout(route[d][2])

OnceInv ==
    /\ now \in Nat
    /\ route \in Routes
    /\ \A e \in expirations : e[2] \in Deposits /\ e[1] = Timeout(route[e[2]][2])
    /\ credited \in [Deposits -> Nat]
    /\ \A d \in Deposits : credited[d] <= 1
    /\ \A d \in Deposits : credited[d] = 1 => Remembered(d)

(* The sum of a creation time and an age is a number.                       *)
LEMMA TimeoutType == \A i \in Sigsets : Timeout(i) \in Nat /\ CreateTime[i] + MaxAge \in Nat
<1> TAKE i \in Sigsets
<1>1. CreateTime[i] \in Nat
  BY SigsetsAssumption
<1>2. MaxAge \in Nat /\ MaxDepositAge \in Nat
  BY SigsetsAssumption, DepositAssumption
<1> QED
  BY <1>1, <1>2 DEF Timeout

(* Nothing was credited at first.                                           *)
LEMMA OnceInit == Init => OnceInv
  BY DEF Init, InitOutpoints, OnceInv, Remembered

(* A deposit that is credited now was not remembered, and was in time: it   *)
(* had not been credited before.  (relay_deposit)                           *)
LEMMA OnceRelayDeposit ==
    ASSUME OnceInv, NEW d \in Deposits, RelayDeposit(d)
    PROVE  OnceInv'
<1> DEFINE i == route[d][2]
<1>1. i \in Sigsets /\ Timeout(i) \in Nat
  BY TimeoutType, DepositAssumption DEF OnceInv
<1>2. /\ now' = now /\ route' = route
      /\ outpoints' = outpoints \cup {d}
      /\ expirations' = expirations \cup {<<Timeout(i), d>>}
      /\ credited' = [credited EXCEPT ![d] = @ + 1]
      /\ d \notin outpoints /\ now <= Timeout(i)
  BY DEF RelayDeposit, Relayed, Processed, Insert, Expiration
<1>3. credited[d] = 0
  BY <1>1, <1>2 DEF OnceInv, Remembered
<1>4. \A e \in expirations' : e[2] \in Deposits /\ e[1] = Timeout(route[e[2]][2])'
  BY <1>2 DEF OnceInv, Timeout
<1>5. credited' \in [Deposits -> Nat] /\ credited'[d] = 1
      /\ \A c \in Deposits \ {d} : credited'[c] = credited[c]
  BY <1>2, <1>3 DEF OnceInv
<1>6. \A c \in Deposits : credited'[c] <= 1
  BY <1>5 DEF OnceInv
<1>7. \A c \in Deposits : credited'[c] = 1 => Remembered(c)'
  BY <1>2, <1>5 DEF OnceInv, Remembered, Timeout
<1> QED
  BY <1>2, <1>4, <1>5, <1>6, <1>7 DEF OnceInv

(* An outpoint is forgotten only after the timeout in its entry, because    *)
(* pruning stays behind the clock.  (OutpointSet::remove_expired)           *)
LEMMA OncePrune ==
    ASSUME OnceInv, Prune
    PROVE  OnceInv'
<1>1. /\ now' = now /\ route' = route /\ credited' = credited
      /\ outpoints' = outpoints \ {e[2] : e \in Due(now - PruneLag)}
      /\ expirations' = expirations \ Due(now - PruneLag)
  BY DEF Prune, RemoveExpired, historyVars
<1>2. ASSUME NEW d \in Deposits, Remembered(d) PROVE Remembered(d)'
  <2>1. CASE now > Timeout(route[d][2])
    BY <1>1, <2>1 DEF Remembered, Timeout
  <2>2. CASE d \in outpoints /\ d \notin outpoints'
    <3>1. PICK e \in expirations : e[2] = d /\ e[1] <= now - PruneLag
      BY <1>1, <2>2 DEF Due
    <3>2. e[1] = Timeout(route[d][2]) /\ route[d][2] \in Sigsets
      BY <3>1, DepositAssumption DEF OnceInv
    <3>3. Timeout(route[d][2]) \in Nat /\ PruneLag \in Nat \ {0} /\ now \in Nat
      BY <3>2, TimeoutType, DepositAssumption DEF OnceInv
    <3>4. now > Timeout(route[d][2])
      BY <3>1, <3>2, <3>3
    <3> QED
      BY <3>4, <1>1 DEF Remembered, Timeout
  <2>3. CASE d \in outpoints'
    BY <2>3 DEF Remembered
  <2> QED
    BY <1>2, <2>1, <2>2, <2>3 DEF Remembered
<1>3. \A e \in expirations' : e[2] \in Deposits /\ e[1] = Timeout(route[e[2]][2])'
  BY <1>1 DEF OnceInv, Timeout
<1> QED
  BY <1>1, <1>2, <1>3 DEF OnceInv

(* The other steps leave the credits alone and forget nothing.              *)
LEMMA OnceStep ==
    ASSUME OnceInv, [Next]_vars
    PROVE  OnceInv'
<1>1. ASSUME NEW d \in Deposits, RelayExpiredDeposit(d) PROVE OnceInv'
  <2>1. /\ now' = now /\ route' = route /\ credited' = credited
        /\ outpoints' = outpoints \cup {d}
        /\ expirations' = expirations \cup {<<Timeout(route[d][2]), d>>}
    BY <1>1 DEF RelayExpiredDeposit, Relayed, Insert, Expiration, historyVars
  <2>2. \A e \in expirations' : e[2] \in Deposits /\ e[1] = Timeout(route[e[2]][2])'
    BY <2>1 DEF OnceInv, Timeout
  <2> QED
    BY <2>1, <2>2 DEF OnceInv, Remembered, Timeout
<1>2. CASE Tick
  <2>1. /\ now' = now + 1 /\ route' = route /\ credited' = credited
        /\ outpoints' = outpoints /\ expirations' = expirations
    BY <1>2 DEF Tick, outpointVars, historyVars
  <2>2. \A d \in Deposits : Timeout(route[d][2]) \in Nat
    BY TimeoutType, DepositAssumption DEF OnceInv
  <2> QED
    BY <2>1, <2>2 DEF OnceInv, Remembered, Timeout
<1>3. ASSUME now' = now, route' = route, credited' = credited, UNCHANGED outpointVars
      PROVE  OnceInv'
  BY <1>3 DEF OnceInv, Remembered, Timeout, outpointVars
<1>4. CASE \E address \in Routed : WatchAddress(address)
  BY <1>4, <1>3 DEF WatchAddress, historyVars
<1>5. CASE ForgetExpired \/ Restart
  BY <1>5, <1>3 DEF ForgetExpired, Restart, historyVars
<1>6. CASE CompleteCheckpoint
  BY <1>6, <1>3 DEF CompleteCheckpoint, historyVars
<1>7. CASE EndBlock
  BY <1>7, <1>3 DEF EndBlock, ClockEndBlock
<1>8. CASE UpdateConfig \/ RegisterDenom \/ \E new \in Factories : ChangeBtcDenomOwner(new)
  BY <1>8, <1>3 DEF UpdateConfig, RegisterDenom, ChangeBtcDenomOwner, historyVars
<1>9. CASE UNCHANGED vars
  BY <1>9, <1>3 DEF vars, historyVars
<1> QED
  BY <1>1, <1>2, <1>4, <1>5, <1>6, <1>7, <1>8, <1>9, OnceRelayDeposit, OncePrune DEF Next

(* No deposit is credited twice, whatever the clock, the pruning, the       *)
(* relayer and the owner do (relay_deposit with OutpointSet).               *)
THEOREM DepositsCreditedOnce == Spec => []CreditedOnce
<1>1. OnceInv => CreditedOnce
  BY DEF OnceInv, CreditedOnce
<1> QED
  BY <1>1, OnceInit, OnceStep, PTL DEF Spec

-----------------------------------------------------------------------------
(* Every watched script can be derived again, and none was forgotten early. *)
WatchInv ==
    /\ now \in Nat
    /\ DOMAIN dests \subseteq Sigsets
    /\ \A w \in scripts : w = <<w[1], w[2]>> /\ w[2] \in DOMAIN dests /\ w[1] \in dests[w[2]]
    /\ StaysWatched

(* The store starts empty.                                                  *)
LEMMA WatchInit == Init => WatchInv
  BY DEF Init, InitRelayer, WatchInv, StaysWatched

(* WatchedScripts::insert.                                                  *)
LEMMA WatchInsert ==
    ASSUME WatchInv, NEW dest, NEW i \in Sigsets, Watch(dest, i), now' = now
    PROVE  WatchInv'
<1>1. /\ scripts' = scripts \cup {<<dest, i>>}
      /\ DOMAIN dests' = DOMAIN dests \cup {i}
      /\ \A j \in DOMAIN dests' :
           dests'[j] = (IF j \in DOMAIN dests THEN dests[j] ELSE {})
                         \cup (IF j = i THEN {dest} ELSE {})
  BY DEF Watch
<1>2. StaysWatched'
  BY <1>1 DEF WatchInv, StaysWatched
<1>3. \A w \in scripts' : w = <<w[1], w[2]>> /\ w[2] \in DOMAIN dests' /\ w[1] \in dests'[w[2]]
  BY <1>1 DEF WatchInv
<1> QED
  BY <1>1, <1>2, <1>3 DEF WatchInv

(* WatchedScripts::remove_expired: only old sets are visited, and because   *)
(* signatory sets are created in the order of their indices, all of them.   *)
LEMMA ForgetIsExact ==
    ASSUME WatchInv, Forget
    PROVE  scripts' = {w \in scripts : ~Old(w[2])}
<1>1. \A i \in Visited : i \in DOMAIN dests /\ Old(i)
  <2>1. \A i \in DOMAIN dests : i \in Nat
    BY SigsetsAssumption DEF WatchInv
  <2> QED
    BY <2>1 DEF Visited
<1>2. \A i \in DOMAIN dests : Old(i) => i \in Visited
  <2> SUFFICES ASSUME NEW i \in DOMAIN dests, Old(i), NEW j \in DOMAIN dests, j <= i
               PROVE  Old(j)
    BY DEF Visited
  <2>1. i \in Sigsets /\ j \in Sigsets /\ i \in Nat /\ j \in Nat
    BY SigsetsAssumption DEF WatchInv
  <2>2. CreateTime[i] \in Nat /\ CreateTime[j] \in Nat /\ MaxAge \in Nat /\ now \in Nat
    BY <2>1, SigsetsAssumption DEF WatchInv
  <2>3. CreateTime[j] <= CreateTime[i]
    BY <2>1, <2>2, SigsetsAssumption
  <2> QED
    BY <2>2, <2>3 DEF Old
<1>3. scripts' = scripts \ UNION {{<<dest, i>> : dest \in dests[i]} : i \in Visited}
  BY DEF Forget
<1>4. ASSUME NEW w \in scripts, Old(w[2]) PROVE w \notin scripts'
  <2>1. w[2] \in Visited /\ w[1] \in dests[w[2]] /\ w = <<w[1], w[2]>>
    BY <1>2, <1>4 DEF WatchInv
  <2>2. w \in {<<dest, w[2]>> : dest \in dests[w[2]]}
    BY <2>1
  <2> QED
    BY <2>1, <2>2, <1>3
<1>5. ASSUME NEW w \in scripts, ~Old(w[2]) PROVE w \in scripts'
  BY <1>1, <1>3, <1>5
<1> QED
  BY <1>3, <1>4, <1>5

(* Scripts are lost in no other step than these two.                        *)
LEMMA OthersKeepWatching ==
    ASSUME [Next]_vars, ~ForgetExpired, ~Restart
    PROVE  \/ UNCHANGED relayerVars
           \/ \E address \in Routed : Watch(address[1], address[2])
<1>1. CASE \E d \in Deposits : RelayDeposit(d) \/ RelayExpiredDeposit(d)
  BY <1>1 DEF RelayDeposit, RelayExpiredDeposit
<1>2. CASE Prune \/ Tick \/ CompleteCheckpoint
  BY <1>2 DEF Prune, Tick, CompleteCheckpoint
<1>3. CASE EndBlock \/ UpdateConfig \/ RegisterDenom
           \/ \E new \in Factories : ChangeBtcDenomOwner(new)
  BY <1>3 DEF EndBlock, ClockEndBlock, UpdateConfig, RegisterDenom, ChangeBtcDenomOwner
<1>4. CASE \E address \in Routed : WatchAddress(address)
  BY <1>4 DEF WatchAddress
<1>5. CASE UNCHANGED vars
  BY <1>5 DEF vars
<1> QED
  BY <1>1, <1>2, <1>3, <1>4, <1>5 DEF Next

(* Only the clock moves the time, forwards.                                 *)
LEMMA TimePasses ==
    ASSUME now \in Nat, [Next]_vars
    PROVE  now' = now \/ (now' = now + 1 /\ UNCHANGED relayerVars)
<1>1. CASE \E d \in Deposits : RelayDeposit(d) \/ RelayExpiredDeposit(d)
  BY <1>1 DEF RelayDeposit, RelayExpiredDeposit
<1>2. CASE Prune \/ Tick \/ CompleteCheckpoint
  BY <1>2 DEF Prune, Tick, CompleteCheckpoint
<1>3. CASE EndBlock \/ UpdateConfig \/ RegisterDenom
           \/ \E new \in Factories : ChangeBtcDenomOwner(new)
  BY <1>3 DEF EndBlock, ClockEndBlock, UpdateConfig, RegisterDenom, ChangeBtcDenomOwner
<1>4. CASE (\E address \in Routed : WatchAddress(address)) \/ ForgetExpired \/ Restart
  BY <1>4 DEF WatchAddress, ForgetExpired, Restart
<1>5. CASE UNCHANGED vars
  BY <1>5 DEF vars
<1> QED
  BY <1>1, <1>2, <1>3, <1>4, <1>5 DEF Next

(* The invariant of the store is kept by every step.                        *)
LEMMA WatchStep ==
    ASSUME WatchInv, route \in Routes, [Next]_vars
    PROVE  WatchInv'
<1>0. now \in Nat
  BY DEF WatchInv
<1>1. CASE ForgetExpired
  <2>1. now' = now /\ dests' = dests /\ scripts' = {w \in scripts : ~Old(w[2])}
    BY <1>1, ForgetIsExact DEF ForgetExpired, Forget
  <2>2. StaysWatched'
    <3> SUFFICES ASSUME NEW i \in DOMAIN dests, NEW dest \in dests[i], now < CreateTime[i] + MaxAge
                 PROVE  <<dest, i>> \in scripts'
      BY <2>1 DEF StaysWatched
    <3>1. <<dest, i>> \in scripts
      BY DEF WatchInv, StaysWatched
    <3>2. i \in Sigsets /\ CreateTime[i] + MaxAge \in Nat
      BY TimeoutType DEF WatchInv
    <3>3. ~Old(i)
      BY <1>0, <3>2 DEF Old
    <3> QED
      BY <2>1, <3>1, <3>3
  <2> QED
    BY <2>1, <2>2 DEF WatchInv
<1>2. CASE Restart
  BY <1>2, <1>0 DEF Restart, Open, WatchInv, StaysWatched
<1>3. CASE UNCHANGED relayerVars
  <2>1. now' \in Nat /\ now' >= now
    BY <1>0, TimePasses
  <2>2. StaysWatched'
    <3> SUFFICES ASSUME NEW i \in DOMAIN dests, NEW dest \in dests[i], now' < CreateTime[i] + MaxAge
                 PROVE  <<dest, i>> \in scripts
      BY <1>3 DEF StaysWatched, relayerVars
    <3>1. CreateTime[i] + MaxAge \in Nat
      BY TimeoutType DEF WatchInv
    <3>2. now < CreateTime[i] + MaxAge
      BY <1>0, <2>1, <3>1
    <3> QED
      BY <3>2 DEF WatchInv, StaysWatched
  <2> QED
    BY <1>3, <2>1, <2>2 DEF WatchInv, relayerVars
<1>4. ASSUME NEW address \in Routed, Watch(address[1], address[2]) PROVE WatchInv'
  <2>1. address[2] \in Sigsets
    BY DepositAssumption DEF Routed
  <2>2. scripts' # scripts
    BY <1>4 DEF Watch
  <2>3. now' = now
    BY <1>0, <2>2, TimePasses DEF relayerVars
  <2> QED
    BY <1>4, <2>1, <2>3, WatchInsert
<1> QED
  BY <1>1, <1>2, <1>3, <1>4, OthersKeepWatching

(* A script that was inserted is watched until its signatory set is as old  *)
(* as the relayer allows (WatchedScripts).                                  *)
THEOREM WatchedUntilExpired == Spec => []StaysWatched
<1>1. OnceInv => route \in Routes
  BY DEF OnceInv
<1>2. WatchInv => StaysWatched
  BY DEF WatchInv
<1> QED
  BY <1>1, <1>2, OnceInit, OnceStep, WatchInit, WatchStep, PTL DEF Spec

(* Cleaning up removes all expired scripts and no other, although it stops  *)
(* at the first signatory set that is young enough (remove_expired).        *)
THEOREM CleanUpIsExact == Spec => CleansUp
<1> DEFINE Exact == ~(scripts \subseteq scripts') =>
                       scripts' \in {{}, {w \in scripts : ~Old(w[2])}}
<1>1. ASSUME WatchInv, [Next]_vars PROVE [Exact]_vars
  <2>1. CASE ForgetExpired
    BY <1>1, <2>1, ForgetIsExact DEF ForgetExpired
  <2>2. CASE Restart
    BY <2>2 DEF Restart, Open
  <2>3. CASE UNCHANGED relayerVars
    BY <2>3 DEF relayerVars
  <2>4. CASE \E address \in Routed : Watch(address[1], address[2])
    BY <2>4 DEF Watch
  <2> QED
    BY <1>1, <2>1, <2>2, <2>3, <2>4, OthersKeepWatching
<1>2. OnceInv => route \in Routes
  BY DEF OnceInv
<1> QED
  BY <1>1, <1>2, OnceInit, OnceStep, WatchInit, WatchStep, PTL DEF Spec, CleansUp

-----------------------------------------------------------------------------
(* A ratio of at most one, rounded down twice, takes no more than there is. *)
(* (deduct_fee)                                                             *)
LEMMA RatioFits ==
    ASSUME NEW n \in Nat, NEW m \in Nat, m # 0, n <= m, NEW amount \in Nat
    PROVE  /\ (amount * ((n * Unit) \div m)) \div Unit \in Nat
           /\ (amount * ((n * Unit) \div m)) \div Unit <= amount
<1>0. Unit \in Nat /\ Unit > 0
  BY PayoutAssumption
<1> DEFINE share == (n * Unit) \div m
<1>1. share \in Nat /\ m * share <= n * Unit
  BY <1>0
<1>2. n * Unit <= m * Unit
  BY <1>0
<1>3. share <= Unit
  <2>1. m * share <= m * Unit
    BY <1>0, <1>1, <1>2
  <2> QED
    BY <1>0, <1>1, <2>1
<1>4. amount * share \in Nat /\ amount * share <= amount * Unit
  BY <1>0, <1>1, <1>3
<1> HIDE DEF share
<1>5. (amount * share) \div Unit \in Nat
  BY <1>0, <1>4
<1>6. Unit * ((amount * share) \div Unit) <= amount * share
  BY <1>0, <1>4
<1>7. Unit * ((amount * share) \div Unit) <= Unit * amount
  BY <1>0, <1>4, <1>5, <1>6
<1>8. (amount * share) \div Unit <= amount
  BY <1>0, <1>5, <1>7
<1> QED
  BY <1>5, <1>8 DEF share

(* The fee of any ratio is a number.                                        *)
LEMMA DeductFeeType ==
    ASSUME NEW c \in Configs, NEW amount \in Nat
    PROVE  DeductFee(c.ratio, amount) \in Nat
<1>0. Unit \in Nat /\ Unit > 0
  BY PayoutAssumption
<1>1. CASE c.ratio = <<>> \/ c.ratio[2] = 0
  BY <1>1 DEF DeductFee
<1>2. CASE c.ratio # <<>> /\ c.ratio[2] # 0
  <2> DEFINE share == (c.ratio[1] * Unit) \div c.ratio[2]
  <2>1. c.ratio[1] \in Nat /\ c.ratio[2] \in Nat /\ c.ratio[2] > 0
    BY <1>2, ConfigAssumption
  <2>2. share \in Nat
    BY <1>0, <2>1
  <2> HIDE DEF share
  <2>3. (amount * share) \div Unit \in Nat
    BY <1>0, <2>2
  <2> QED
    BY <1>2, <2>3 DEF DeductFee, share
<1> QED
  BY <1>1, <1>2

(* The fees and what is left add up to the amount, whatever the fees are.   *)
(* (process_deduct_fee)                                                     *)
THEOREM FeesAddUp ==
    ASSUME NEW c \in Configs, NEW quote \in Quotes, NEW amount \in Nat, FeeFits(c, amount)
    PROVE  LET fees == Fees(c, quote, amount)
           IN  /\ fees.deducted \in Nat /\ fees.token \in Nat /\ fees.relayer \in Nat
               /\ fees.deducted + fees.token + fees.relayer = amount
<1>1. DeductFee(c.ratio, amount) \in Nat /\ DeductFee(c.ratio, amount) <= amount
  BY DeductFeeType DEF FeeFits
<1>2. RelayerFee(c, quote) \in Nat
  <2>1. c.router \in BOOLEAN /\ c.sameToken \in BOOLEAN /\ c.relayerFee \in Nat
    BY ConfigAssumption
  <2>2. quote \in Nat
    BY DepositAssumption
  <2>3. CASE c.relayerFee = 0 \/ ~c.router
    BY <2>1, <2>3 DEF RelayerFee
  <2>4. CASE c.relayerFee > 0 /\ c.router /\ c.sameToken
    BY <2>1, <2>4 DEF RelayerFee
  <2>5. CASE c.relayerFee > 0 /\ c.router /\ ~c.sameToken
    BY <2>1, <2>2, <2>5 DEF RelayerFee
  <2> QED
    BY <2>1, <2>3, <2>4, <2>5
<1> DEFINE token == DeductFee(c.ratio, amount)
           relayer == RelayerFee(c, quote)
<1>3. Fees(c, quote, amount) =
        IF amount - token = 0 THEN [deducted |-> 0, token |-> amount, relayer |-> 0]
        ELSE [deducted |-> IF relayer <= amount - token THEN amount - token - relayer ELSE 0,
              token    |-> token,
              relayer  |-> IF relayer < amount - token THEN relayer ELSE amount - token]
  BY DEF Fees
<1> HIDE DEF token, relayer
<1>4. token \in Nat /\ token <= amount /\ relayer \in Nat
  BY <1>1, <1>2 DEF token, relayer
<1>5. CASE amount - token = 0
  BY <1>3, <1>4, <1>5
<1>6. CASE amount - token # 0 /\ relayer < amount - token
  BY <1>3, <1>4, <1>6
<1>7. CASE amount - token # 0 /\ ~(relayer < amount - token)
  BY <1>3, <1>4, <1>7
<1> QED
  BY <1>5, <1>6, <1>7

(* A message of the end block.                                              *)
Message(dest) == [kind : {"mint", "swap"},
                  to : {dest.receiver, dest.sender, Contract, Swapper, "relayer fees", "token fees"},
                  amount : Nat]

(* The messages for a destination mint the amount, and the one swap comes   *)
(* after the mint it spends.  (build_cosmos_msg)                            *)
LEMMA DestMessagesShape ==
    ASSUME NEW c \in Configs, NEW dest \in Dests, NEW amount \in Nat, NEW time \in Nat
    PROVE  LET M == DestMessages(c, dest, amount, time)
           IN  /\ M \in Seq(Message(dest))
               /\ \A k \in DOMAIN M : M[k].amount = amount
               /\ \A k \in DOMAIN M : M[k].kind = "swap" => k = 2 /\ M[1] = Mint(Contract, amount)
<1>1. CASE dest.kind = "Address"
  BY <1>1 DEF DestMessages, Mint, Message
<1>2. CASE dest.kind = "Ibc"
  <2>1. Returned(c, dest, time) \in BOOLEAN
    BY DEF Returned
  <2>2. CASE Returned(c, dest, time)
    BY <1>2, <2>2 DEF DestMessages, Mint, Message
  <2>3. CASE ~Returned(c, dest, time) /\ dest.port # "transfer"
    BY <1>2, <2>3 DEF DestMessages
  <2>4. CASE ~Returned(c, dest, time) /\ dest.port = "transfer"
    BY <1>2, <2>4 DEF DestMessages, Mint, Swap, Contract, Swapper, Message
  <2> QED
    BY <2>2, <2>3, <2>4
<1> QED
  BY <1>1, <1>2, DestAssumption

(* The messages for the fees mint, and never nothing.  (clock_end_block)    *)
LEMMA FeeMessagesShape ==
    ASSUME NEW dest, NEW fees, fees.relayer \in Nat, fees.token \in Nat
    PROVE  /\ FeeMessages(fees) \in Seq(Message(dest))
           /\ \A k \in DOMAIN FeeMessages(fees) :
                FeeMessages(fees)[k].kind = "mint" /\ FeeMessages(fees)[k].amount >= 1
<1> DEFINE Fine(m) == m \in Message(dest) /\ m.kind = "mint" /\ m.amount >= 1
           A == IF fees.relayer > 0 THEN <<Mint("relayer fees", fees.relayer)>> ELSE <<>>
           B == IF fees.token > 0 THEN <<Mint("token fees", fees.token)>> ELSE <<>>
<1>1. A \in Seq(Message(dest)) /\ \A k \in 1 .. Len(A) : Fine(A[k])
  <2>1. CASE fees.relayer > 0
    <3> DEFINE m == Mint("relayer fees", fees.relayer)
    <3>1. A = <<m>>
      BY <2>1, Zenon
    <3>2. Fine(m)
      BY <2>1 DEF Mint, Message
    <3> HIDE DEF m, A, Fine
    <3>3. m \in Message(dest)
      BY <3>2 DEF Fine
    <3>4. <<m>> \in Seq(Message(dest)) /\ Len(<<m>>) = 1 /\ <<m>>[1] = m
      BY <3>3
    <3> QED
      BY <3>1, <3>2, <3>4
  <2>2. CASE ~(fees.relayer > 0)
    <3>1. A = <<>>
      BY <2>2, Zenon
    <3> HIDE DEF A, Fine
    <3> QED
      BY <3>1
  <2> QED
    BY <2>1, <2>2
<1>2. B \in Seq(Message(dest)) /\ \A k \in 1 .. Len(B) : Fine(B[k])
  <2>1. CASE fees.token > 0
    <3> DEFINE m == Mint("token fees", fees.token)
    <3>1. B = <<m>>
      BY <2>1, Zenon
    <3>2. Fine(m)
      BY <2>1 DEF Mint, Message
    <3> HIDE DEF m, B, Fine
    <3>3. m \in Message(dest)
      BY <3>2 DEF Fine
    <3>4. <<m>> \in Seq(Message(dest)) /\ Len(<<m>>) = 1 /\ <<m>>[1] = m
      BY <3>3
    <3> QED
      BY <3>1, <3>2, <3>4
  <2>2. CASE ~(fees.token > 0)
    <3>1. B = <<>>
      BY <2>2, Zenon
    <3> HIDE DEF B, Fine
    <3> QED
      BY <3>1
  <2> QED
    BY <2>1, <2>2
<1>3. FeeMessages(fees) = A \o B
  BY DEF FeeMessages
<1> HIDE DEF A, B, Fine
<1>4. /\ A \o B \in Seq(Message(dest))
      /\ Len(A \o B) = Len(A) + Len(B)
      /\ \A k \in 1 .. Len(A) + Len(B) :
           (A \o B)[k] = IF k <= Len(A) THEN A[k] ELSE B[k - Len(A)]
  BY <1>1, <1>2, ConcatProperties
<1>5. Len(A) \in Nat /\ Len(B) \in Nat /\ DOMAIN (A \o B) = 1 .. Len(A) + Len(B)
  BY <1>1, <1>2, <1>4
<1>6. ASSUME NEW k \in DOMAIN (A \o B) PROVE Fine((A \o B)[k])
  <2>1. CASE k <= Len(A)
    BY <1>1, <1>4, <1>5, <1>6, <2>1
  <2>2. CASE ~(k <= Len(A))
    <3>1. k - Len(A) \in 1 .. Len(B)
      BY <1>5, <1>6, <2>2
    <3> QED
      BY <1>2, <1>4, <1>5, <1>6, <2>2, <3>1
  <2> QED
    BY <2>1, <2>2
<1> QED
  BY <1>3, <1>4, <1>6 DEF Fine

(* All messages for a transfer are taken when the factory may mint and what *)
(* is left after the fees is not too small for it.                          *)
LEMMA MessagesSucceed ==
    ASSUME NEW c \in Configs, NEW quote \in Quotes, NEW dest \in Dests, NEW amount \in Nat,
           NEW time \in Nat, FeeFits(c, amount), Fees(c, quote, amount).deducted >= MinMint
    PROVE  Succeed(Messages(c, quote, dest, amount, time), TRUE)
<1> DEFINE fees == Fees(c, quote, amount)
           D == DestMessages(c, dest, fees.deducted, time)
           F == FeeMessages(fees)
           M == Messages(c, quote, dest, amount, time)
<1>1. fees.deducted \in Nat /\ fees.token \in Nat /\ fees.relayer \in Nat
  BY FeesAddUp
<1>2. M = D \o F
  BY DEF Messages
<1>3. fees.deducted >= MinMint
  OBVIOUS
<1>4. /\ D \in Seq(Message(dest))
      /\ \A k \in DOMAIN D : D[k].amount = fees.deducted
      /\ \A k \in DOMAIN D : D[k].kind = "swap" => k = 2 /\ D[1] = Mint(Contract, fees.deducted)
  BY <1>1, DestMessagesShape
<1>5. /\ F \in Seq(Message(dest))
      /\ \A k \in DOMAIN F : F[k].kind = "mint" /\ F[k].amount >= 1
  BY <1>1, FeeMessagesShape
<1> HIDE DEF fees, D, F, M
<1>6. /\ M \in Seq(Message(dest)) /\ Len(M) = Len(D) + Len(F)
      /\ \A k \in 1 .. Len(D) + Len(F) : M[k] = IF k <= Len(D) THEN D[k] ELSE F[k - Len(D)]
  BY <1>2, <1>4, <1>5, ConcatProperties
<1>7. Len(D) \in Nat /\ Len(F) \in Nat /\ DOMAIN D = 1 .. Len(D) /\ DOMAIN F = 1 .. Len(F)
      /\ DOMAIN M = 1 .. Len(D) + Len(F)
  BY <1>4, <1>5, <1>6
<1>8. ASSUME NEW k \in DOMAIN M PROVE \/ k \in DOMAIN D /\ M[k] = D[k]
                                      \/ k - Len(D) \in DOMAIN F /\ M[k] = F[k - Len(D)]
  BY <1>6, <1>7
<1>9. MinMint = 0 \/ MinMint = 1
  BY PayoutAssumption
<1>10. \A k \in DOMAIN M : M[k].amount >= MinMint
  <2> SUFFICES ASSUME NEW k \in DOMAIN M PROVE M[k].amount >= MinMint
    OBVIOUS
  <2>1. CASE k \in DOMAIN D /\ M[k] = D[k]
    BY <1>1, <1>3, <1>4, <2>1
  <2>2. CASE k - Len(D) \in DOMAIN F /\ M[k] = F[k - Len(D)]
    <3>1. M[k] \in Message(dest) /\ M[k].amount >= 1
      BY <1>5, <1>6, <2>2
    <3>2. M[k].amount \in Nat
      BY <3>1 DEF Message
    <3> QED
      BY <1>9, <3>1, <3>2
  <2> QED
    BY <1>8, <2>1, <2>2
<1>11. ASSUME NEW k \in DOMAIN M, M[k].kind = "swap"
       PROVE  \E j \in 1 .. (k - 1) : M[j] = Mint(Contract, M[k].amount)
  <2>1. k \in DOMAIN D /\ M[k] = D[k]
    BY <1>5, <1>8, <1>11
  <2>2. k = 2 /\ D[1] = Mint(Contract, fees.deducted) /\ D[k].amount = fees.deducted
    BY <1>4, <1>11, <2>1
  <2>3. M[1] = D[1]
    BY <1>6, <1>7, <2>1, <2>2
  <2> QED
    BY <2>1, <2>2, <2>3
<1> HIDE DEF M
<1>12. Succeed(M, TRUE)
  BY <1>10, <1>11 DEF Succeed, Mints, Swaps
<1> QED
  BY <1>12 DEF M

(* What the end block works on: a configuration and transfers as they were  *)
(* made of deposits.                                                        *)
PayInv ==
    /\ config \in Configs
    /\ \A t \in pending \cup completed : t.amount \in Nat /\ t.dest \in Dests

(* There are no transfers at first.                                         *)
LEMMA PayInit == Init => PayInv
  BY DEF Init, PayInv

(* A transfer is made of a deposit worth its fee, to the destination of its *)
(* address; the steps move transfers and choose configurations.             *)
LEMMA PayStep ==
    ASSUME PayInv, route \in Routes, [Next]_vars
    PROVE  PayInv'
<1>1. ASSUME NEW d \in Deposits, RelayDeposit(d) PROVE PayInv'
  <2>1. Value[d] \in Nat /\ MinerFee \in Nat /\ Value[d] >= MinerFee
    BY <1>1, DepositAssumption DEF RelayDeposit
  <2>2. Value[d] - MinerFee \in Nat
    BY <2>1
  <2>3. route[d][1] \in Dests
    BY DEF Dests
  <2>4. Transfer(d).amount \in Nat /\ Transfer(d).dest \in Dests
    BY <2>2, <2>3 DEF Transfer
  <2> QED
    BY <1>1, <2>4 DEF RelayDeposit, PayInv
<1>2. ASSUME config' = config, pending' \cup completed' \subseteq pending \cup completed
      PROVE  PayInv'
  BY <1>2 DEF PayInv
<1>3. CASE UpdateConfig
  BY <1>3 DEF UpdateConfig, PayInv
<1>4. CASE \E d \in Deposits : RelayExpiredDeposit(d)
  BY <1>4, <1>2 DEF RelayExpiredDeposit
<1>5. CASE CompleteCheckpoint \/ EndBlock
  BY <1>5, <1>2 DEF CompleteCheckpoint, EndBlock, ClockEndBlock
<1>6. CASE Prune \/ Tick \/ ForgetExpired \/ Restart
  BY <1>6, <1>2 DEF Prune, Tick, ForgetExpired, Restart, contractVars
<1>7. CASE \E address \in Routed : WatchAddress(address)
  BY <1>7, <1>2 DEF WatchAddress, contractVars
<1>8. CASE RegisterDenom \/ \E new \in Factories : ChangeBtcDenomOwner(new)
  BY <1>8, <1>2 DEF RegisterDenom, ChangeBtcDenomOwner, contractVars
<1>9. CASE UNCHANGED vars
  BY <1>9, <1>2 DEF vars, contractVars
<1> QED
  BY <1>1, <1>3, <1>4, <1>5, <1>6, <1>7, <1>8, <1>9 DEF Next

(* An end block fails for no other reason than a ratio above one, a factory *)
(* that may not mint the denom of a transfer, and a transfer that the fees  *)
(* leave too little of (clock_end_block).                                   *)
THEOREM PayableIsPaid == Spec => []EndBlockPays
<1>1. ASSUME PayInv, now \in Nat PROVE EndBlockPays
  <2> SUFFICES ASSUME Payable, NEW quote \in Quotes, NEW t \in completed
               PROVE  Paid(t, quote)
    BY DEF EndBlockPays
  <2>1. config \in Configs /\ t.amount \in Nat /\ t.dest \in Dests
    BY <1>1 DEF PayInv
  <2>2. FeeFits(config, t.amount)
    <3>1. CASE config.ratio = <<>> \/ config.ratio[2] = 0
      BY <2>1, <3>1 DEF FeeFits, DeductFee
    <3>2. CASE config.ratio # <<>> /\ config.ratio[2] # 0
      <4>1. config.ratio[1] \in Nat /\ config.ratio[2] \in Nat /\ config.ratio[1] <= config.ratio[2]
        BY <2>1, <3>2, ConfigAssumption DEF Payable
      <4> QED
        BY <2>1, <3>2, <4>1, RatioFits DEF FeeFits, DeductFee
    <3> QED
      BY <3>1, <3>2
  <2>3. Fees(config, quote, t.amount).deducted >= MinMint /\ admin[t.denom] = config.factory
    BY DEF Payable
  <2>4. Succeed(MessagesFor(t, quote), TRUE)
    BY <1>1, <2>1, <2>2, <2>3, MessagesSucceed DEF MessagesFor
  <2>5. (admin[t.denom] = config.factory) = TRUE
    BY <2>3
  <2> QED
    BY <2>2, <2>4, <2>5 DEF Paid
<1>2. OnceInv => route \in Routes /\ now \in Nat
  BY DEF OnceInv
<1> QED
  BY <1>1, <1>2, OnceInit, OnceStep, PayInit, PayStep, PTL DEF Spec

-----------------------------------------------------------------------------
(* What the messages mint.                                                  *)

(* A weight of each message of a sequence, as a function of their places.   *)
MintedAt(M) == [k \in DOMAIN M |-> MintedBy(M[k])]
HeldAt(M)   == [k \in DOMAIN M |-> HeldBy(M[k])]

(* The totals are sums of integers over the places.                         *)
LEMMA MintedType ==
    ASSUME NEW dest, NEW M \in Seq(Message(dest))
    PROVE  /\ Minted(M) = SumFunctionOnSet(MintedAt(M), 1 .. Len(M))
           /\ Held(M) = SumFunctionOnSet(HeldAt(M), 1 .. Len(M))
           /\ \A k \in 1 .. Len(M) : /\ MintedAt(M)[k] = MintedBy(M[k])
                                     /\ MintedAt(M)[k] \in Int
                                     /\ HeldAt(M)[k] = HeldBy(M[k])
                                     /\ HeldAt(M)[k] \in Int
           /\ Minted(M) \in Int /\ Held(M) \in Int
<1>1. DOMAIN M = 1 .. Len(M) /\ IsFiniteSet(1 .. Len(M))
  BY FS_Interval
<1>2. ASSUME NEW m \in Message(dest) PROVE MintedBy(m) \in Int /\ HeldBy(m) \in Int
  <2>1. m.kind \in {"mint", "swap"} /\ m.amount \in Nat
    BY DEF Message
  <2>2. MintedBy(m) \in Int
    BY <2>1 DEF MintedBy
  <2>3. HeldBy(m) \in Int
    BY <2>1 DEF HeldBy
  <2> QED BY <2>2, <2>3
<1>3. \A k \in 1 .. Len(M) : M[k] \in Message(dest)
  BY ElementOfSeq
<1>4. \A k \in 1 .. Len(M) : MintedAt(M)[k] = MintedBy(M[k]) /\ HeldAt(M)[k] = HeldBy(M[k])
  BY <1>1 DEF MintedAt, HeldAt
<1>5. \A k \in 1 .. Len(M) : MintedAt(M)[k] \in Int /\ HeldAt(M)[k] \in Int
  BY <1>2, <1>3, <1>4
<1>6. /\ Minted(M) = SumFunctionOnSet(MintedAt(M), 1 .. Len(M))
      /\ Held(M) = SumFunctionOnSet(HeldAt(M), 1 .. Len(M))
  BY <1>1 DEF Minted, Held, MintedAt, HeldAt, SumFunction
<1>7. /\ SumFunctionOnSet(MintedAt(M), 1 .. Len(M)) \in Int
      /\ SumFunctionOnSet(HeldAt(M), 1 .. Len(M)) \in Int
  BY <1>1, <1>5, SumInt
<1> QED BY <1>4, <1>5, <1>6, <1>7

(* Messages one after the other mint together what each part mints.         *)
LEMMA MintedConcat ==
    ASSUME NEW dest, NEW A \in Seq(Message(dest)), NEW B \in Seq(Message(dest))
    PROVE  /\ A \o B \in Seq(Message(dest))
           /\ Minted(A \o B) = Minted(A) + Minted(B)
           /\ Held(A \o B) = Held(A) + Held(B)
<1> DEFINE M == A \o B
           l == Len(A)
           m == Len(B)
           n == Len(M)
<1>1. /\ M \in Seq(Message(dest)) /\ n = l + m /\ l \in Nat /\ m \in Nat /\ n \in Nat
      /\ \A k \in 1 .. l + m : M[k] = IF k <= l THEN A[k] ELSE B[k - l]
  BY ConcatProperties
<1> HIDE DEF M, n
<1>2. \A k \in 1 .. l : k \in 1 .. n /\ M[k] = A[k]
  BY <1>1
<1>3. ASSUME NEW k \in 1 .. m PROVE l + k \in 1 .. n /\ M[l + k] = B[k] /\ k + ((l + 1) - 1) = l + k
  <2>1. l + k \in 1 .. l + m /\ ~(l + k <= l) /\ (l + k) - l = k
    BY <1>1
  <2> QED BY <1>1, <2>1
<1>4. /\ \A k \in 1 .. n : MintedAt(M)[k] = MintedBy(M[k]) /\ MintedAt(M)[k] \in Int
      /\ \A k \in 1 .. n : HeldAt(M)[k] = HeldBy(M[k]) /\ HeldAt(M)[k] \in Int
  BY <1>1, MintedType DEF n
<1>5. /\ \A k \in 1 .. l : MintedAt(A)[k] = MintedBy(A[k]) /\ MintedAt(A)[k] \in Int
      /\ \A k \in 1 .. l : HeldAt(A)[k] = HeldBy(A[k]) /\ HeldAt(A)[k] \in Int
  BY MintedType
<1>6. /\ \A k \in 1 .. m : MintedAt(B)[k] = MintedBy(B[k]) /\ MintedAt(B)[k] \in Int
      /\ \A k \in 1 .. m : HeldAt(B)[k] = HeldBy(B[k]) /\ HeldAt(B)[k] \in Int
  BY MintedType
<1> HIDE DEF l, m
<1>7. SumJoin(MintedAt(M), n, MintedAt(A), l, MintedAt(B), m)
  <2>1. Shifted(MintedAt(B), 1, m, MintedAt(M), l + 1, n)
    <3>1. \A k \in 1 .. m : MintedAt(B)[k] \in Int
                            /\ MintedAt(M)[k + ((l + 1) - 1)] = MintedAt(B)[k]
      BY <1>3, <1>4, <1>6
    <3> QED BY <1>1, <3>1 DEF Shifted
  <2>2. \A k \in 1 .. l : MintedAt(A)[k] = MintedAt(M)[k]
    BY <1>2, <1>4, <1>5
  <2> QED BY <1>1, <1>4, <2>1, <2>2 DEF SumJoin
<1>8. SumJoin(HeldAt(M), n, HeldAt(A), l, HeldAt(B), m)
  <2>1. Shifted(HeldAt(B), 1, m, HeldAt(M), l + 1, n)
    <3>1. \A k \in 1 .. m : HeldAt(B)[k] \in Int
                            /\ HeldAt(M)[k + ((l + 1) - 1)] = HeldAt(B)[k]
      BY <1>3, <1>4, <1>6
    <3> QED BY <1>1, <3>1 DEF Shifted
  <2>2. \A k \in 1 .. l : HeldAt(A)[k] = HeldAt(M)[k]
    BY <1>2, <1>4, <1>5
  <2> QED BY <1>1, <1>4, <2>1, <2>2 DEF SumJoin
<1>9. /\ SumFunctionOnSet(MintedAt(M), 1 .. n)
           = SumFunctionOnSet(MintedAt(A), 1 .. l) + SumFunctionOnSet(MintedAt(B), 1 .. m)
      /\ SumFunctionOnSet(HeldAt(M), 1 .. n)
           = SumFunctionOnSet(HeldAt(A), 1 .. l) + SumFunctionOnSet(HeldAt(B), 1 .. m)
  BY <1>7, <1>8, SumParts
<1>10. /\ Minted(M) = SumFunctionOnSet(MintedAt(M), 1 .. n)
       /\ Held(M) = SumFunctionOnSet(HeldAt(M), 1 .. n)
  BY <1>1, MintedType DEF n
<1>11. /\ Minted(A) = SumFunctionOnSet(MintedAt(A), 1 .. l)
       /\ Held(A) = SumFunctionOnSet(HeldAt(A), 1 .. l)
  BY MintedType DEF l
<1>12. /\ Minted(B) = SumFunctionOnSet(MintedAt(B), 1 .. m)
       /\ Held(B) = SumFunctionOnSet(HeldAt(B), 1 .. m)
  BY MintedType DEF m
<1> QED BY <1>1, <1>9, <1>10, <1>11, <1>12 DEF M

(* One message, and none.                                                   *)
LEMMA MintedOne ==
    ASSUME NEW dest, NEW m \in Message(dest)
    PROVE  /\ <<m>> \in Seq(Message(dest))
           /\ Minted(<<m>>) = MintedBy(m) /\ Held(<<m>>) = HeldBy(m)
           /\ <<>> \in Seq(Message(dest))
           /\ Minted(<<>>) = 0 /\ Held(<<>>) = 0
<1>1. <<m>> \in Seq(Message(dest)) /\ Len(<<m>>) = 1 /\ 1 .. 1 = {1} /\ <<m>>[1] = m
  OBVIOUS
<1>2. <<>> \in Seq(Message(dest)) /\ Len(<<>>) = 0 /\ 1 .. 0 = {}
  OBVIOUS
<1>3. /\ Minted(<<m>>) = SumFunctionOnSet(MintedAt(<<m>>), {1})
      /\ Held(<<m>>) = SumFunctionOnSet(HeldAt(<<m>>), {1})
      /\ MintedAt(<<m>>)[1] = MintedBy(m) /\ MintedAt(<<m>>)[1] \in Int
      /\ HeldAt(<<m>>)[1] = HeldBy(m) /\ HeldAt(<<m>>)[1] \in Int
  <2>1. PICK M \in Seq(Message(dest)) : M = <<m>>
    BY <1>1
  <2>2. /\ Minted(M) = SumFunctionOnSet(MintedAt(M), 1 .. Len(M))
        /\ Held(M) = SumFunctionOnSet(HeldAt(M), 1 .. Len(M))
        /\ \A k \in 1 .. Len(M) : /\ MintedAt(M)[k] = MintedBy(M[k])
                                  /\ MintedAt(M)[k] \in Int
                                  /\ HeldAt(M)[k] = HeldBy(M[k])
                                  /\ HeldAt(M)[k] \in Int
    BY MintedType
  <2>3. Len(M) = 1 /\ 1 .. Len(M) = {1} /\ M[1] = m /\ 1 \in 1 .. Len(M)
    BY <1>1, <2>1
  <2>4. /\ Minted(M) = SumFunctionOnSet(MintedAt(M), {1})
        /\ Held(M) = SumFunctionOnSet(HeldAt(M), {1})
    BY <2>2, <2>3, Zenon
  <2>5. /\ MintedAt(M)[1] = MintedBy(m) /\ MintedAt(M)[1] \in Int
        /\ HeldAt(M)[1] = HeldBy(m) /\ HeldAt(M)[1] \in Int
    BY <2>2, <2>3
  <2> QED BY <2>1, <2>4, <2>5
<1>4. Minted(<<m>>) = MintedBy(m) /\ Held(<<m>>) = HeldBy(m)
  BY <1>3, SumOne
<1>5. Minted(<<>>) = 0 /\ Held(<<>>) = 0
  <2>1. PICK M \in Seq(Message(dest)) : M = <<>>
    BY <1>2
  <2>2. /\ Minted(M) = SumFunctionOnSet(MintedAt(M), 1 .. Len(M))
        /\ Held(M) = SumFunctionOnSet(HeldAt(M), 1 .. Len(M))
    BY MintedType
  <2>3. 1 .. Len(M) = {}
    BY <1>2, <2>1
  <2>4. /\ Minted(M) = SumFunctionOnSet(MintedAt(M), {})
        /\ Held(M) = SumFunctionOnSet(HeldAt(M), {})
    BY <2>2, <2>3, Zenon
  <2> QED BY <2>1, <2>4, SumEmpty
<1> QED BY <1>1, <1>2, <1>4, <1>5

(* What is minted and what the contract keeps, of messages M worth x of     *)
(* which the contract is to keep nothing unless the destination names it.   *)
Worth(M, dest, x) ==
    /\ M \in Seq(Message(dest))
    /\ Minted(M) = x
    /\ Contract \notin {dest.receiver, dest.sender} => Held(M) = 0

(* A mint is worth its amount, and stays with the contract only when it is  *)
(* made to it.                                                              *)
LEMMA MintWorth ==
    ASSUME NEW dest, NEW x \in Nat,
           NEW to \in {dest.receiver, dest.sender, "relayer fees", "token fees"}
    PROVE  Worth(<<Mint(to, x)>>, dest, x)
<1>1. PICK m : m = Mint(to, x)
  OBVIOUS
<1>2. m \in Message(dest) /\ m.kind = "mint" /\ m.to = to /\ m.amount = x
  BY <1>1 DEF Mint, Message
<1>3. /\ <<m>> \in Seq(Message(dest))
      /\ Minted(<<m>>) = MintedBy(m) /\ Held(<<m>>) = HeldBy(m)
  BY <1>2, MintedOne
<1>4. MintedBy(m) = x
  BY <1>2 DEF MintedBy
<1>5. ASSUME Contract \notin {dest.receiver, dest.sender} PROVE HeldBy(m) = 0
  <2>1. m.to # Contract
    BY <1>2, <1>5 DEF Contract
  <2> QED BY <1>2, <2>1 DEF HeldBy
<1> QED BY <1>1, <1>3, <1>4, <1>5 DEF Worth

(* No messages are worth nothing.                                           *)
LEMMA EmptyWorth == ASSUME NEW dest PROVE Worth(<<>>, dest, 0)
<1>1. PICK m : m = Mint(Contract, 0)
  OBVIOUS
<1>2. m \in Message(dest)
  BY <1>1 DEF Mint, Message
<1>3. <<>> \in Seq(Message(dest)) /\ Minted(<<>>) = 0 /\ Held(<<>>) = 0
  BY <1>2, MintedOne
<1> QED BY <1>3 DEF Worth

(* The worth of messages one after the other.                               *)
LEMMA JoinWorth ==
    ASSUME NEW dest, NEW A, NEW B, NEW x \in Nat, NEW y \in Nat,
           Worth(A, dest, x), Worth(B, dest, y)
    PROVE  Worth(A \o B, dest, x + y)
<1>1. A \in Seq(Message(dest)) /\ B \in Seq(Message(dest))
  BY DEF Worth
<1>2. /\ A \o B \in Seq(Message(dest))
      /\ Minted(A \o B) = Minted(A) + Minted(B)
      /\ Held(A \o B) = Held(A) + Held(B)
  BY <1>1, MintedConcat
<1> QED BY <1>2 DEF Worth

(* A mint to the contract that is swapped at once leaves nothing with it.   *)
LEMMA SwapWorth ==
    ASSUME NEW dest, NEW x \in Nat
    PROVE  Worth(<<Mint(Contract, x), Swap(x)>>, dest, x)
<1>1. PICK m : m = Mint(Contract, x)
  OBVIOUS
<1>2. PICK s : s = Swap(x)
  OBVIOUS
<1>3. m \in Message(dest) /\ m.kind = "mint" /\ m.to = Contract /\ m.amount = x
  BY <1>1 DEF Mint, Message
<1>4. s \in Message(dest) /\ s.kind = "swap" /\ s.amount = x
  BY <1>2 DEF Swap, Message
<1>5. /\ <<m>> \in Seq(Message(dest))
      /\ Minted(<<m>>) = MintedBy(m) /\ Held(<<m>>) = HeldBy(m)
  BY <1>3, MintedOne
<1>6. /\ <<s>> \in Seq(Message(dest))
      /\ Minted(<<s>>) = MintedBy(s) /\ Held(<<s>>) = HeldBy(s)
  BY <1>4, MintedOne
<1>7. /\ <<m>> \o <<s>> \in Seq(Message(dest))
      /\ Minted(<<m>> \o <<s>>) = Minted(<<m>>) + Minted(<<s>>)
      /\ Held(<<m>> \o <<s>>) = Held(<<m>>) + Held(<<s>>)
  BY <1>5, <1>6, MintedConcat
<1>8. MintedBy(m) = x /\ HeldBy(m) = x
  BY <1>3 DEF MintedBy, HeldBy
<1>9. MintedBy(s) = 0 /\ HeldBy(s) = 0 - x
  BY <1>4 DEF MintedBy, HeldBy
<1>10. <<m>> \o <<s>> = <<m, s>>
  <2>1. PICK M : M = <<m>> \o <<s>>
    OBVIOUS
  <2>2. Len(<<m>>) = 1 /\ Len(<<s>>) = 1 /\ <<m>>[1] = m /\ <<s>>[1] = s
    OBVIOUS
  <2>3. M \in Seq(Message(dest)) /\ Len(M) = 2 /\ M[1] = m /\ M[2] = s
    BY <1>5, <1>6, <2>1, <2>2, ConcatProperties
  <2>4. M = <<m, s>>
    <3>1. PICK N : N = <<m, s>>
      OBVIOUS
    <3>2. N \in Seq(Message(dest)) /\ Len(N) = 2 /\ N[1] = m /\ N[2] = s
      BY <1>3, <1>4, <3>1
    <3>3. \A k \in 1 .. Len(M) : M[k] = N[k]
      BY <2>3, <3>2
    <3> QED BY <2>3, <3>1, <3>2, <3>3, SeqEqual
  <2> QED BY <2>1, <2>4
<1>11. Minted(<<m>> \o <<s>>) = x /\ Held(<<m>> \o <<s>>) = 0
  BY <1>5, <1>6, <1>7, <1>8, <1>9
<1>12. /\ <<m, s>> \in Seq(Message(dest))
       /\ Minted(<<m, s>>) = x /\ Held(<<m, s>>) = 0
  BY <1>7, <1>10, <1>11, Zenon
<1> QED BY <1>1, <1>2, <1>12 DEF Worth

(* The messages for a destination are worth the amount, but for a transfer  *)
(* through another port, which may have none.  (build_cosmos_msg)           *)
LEMMA DestMessagesWorth ==
    ASSUME NEW c \in Configs, NEW dest \in Dests, NEW x \in Nat, NEW time \in Nat
    PROVE  \/ Worth(DestMessages(c, dest, x, time), dest, x)
           \/ /\ dest.kind = "Ibc" /\ dest.port # "transfer"
              /\ Worth(DestMessages(c, dest, x, time), dest, 0)
<1>1. CASE dest.kind = "Address"
  <2>1. DestMessages(c, dest, x, time) = <<Mint(dest.receiver, x)>>
    BY <1>1 DEF DestMessages
  <2> QED BY <2>1, MintWorth
<1>2. CASE dest.kind = "Ibc"
  <2>1. CASE Returned(c, dest, time)
    <3>1. DestMessages(c, dest, x, time) = <<Mint(dest.sender, x)>>
      BY <1>2, <2>1 DEF DestMessages
    <3> QED BY <3>1, MintWorth
  <2>2. CASE ~Returned(c, dest, time) /\ dest.port # "transfer"
    <3>1. DestMessages(c, dest, x, time) = <<>>
      BY <1>2, <2>2 DEF DestMessages
    <3> QED BY <1>2, <2>2, <3>1, EmptyWorth
  <2>3. CASE ~Returned(c, dest, time) /\ dest.port = "transfer"
    <3>1. DestMessages(c, dest, x, time) = <<Mint(Contract, x), Swap(x)>>
      BY <1>2, <2>3 DEF DestMessages
    <3> QED BY <3>1, SwapWorth
  <2> QED BY <2>1, <2>2, <2>3
<1> QED BY <1>1, <1>2, DestAssumption

(* The messages for the fees are worth the fees.  (clock_end_block)         *)
LEMMA FeeMessagesWorth ==
    ASSUME NEW dest, NEW fees, fees.relayer \in Nat, fees.token \in Nat
    PROVE  Worth(FeeMessages(fees), dest, fees.relayer + fees.token)
<1> DEFINE A == IF fees.relayer > 0 THEN <<Mint("relayer fees", fees.relayer)>> ELSE <<>>
           B == IF fees.token > 0 THEN <<Mint("token fees", fees.token)>> ELSE <<>>
<1>1. Worth(A, dest, fees.relayer)
  <2>1. CASE fees.relayer > 0
    <3>1. A = <<Mint("relayer fees", fees.relayer)>>
      BY <2>1, Zenon
    <3>2. Worth(<<Mint("relayer fees", fees.relayer)>>, dest, fees.relayer)
      BY MintWorth
    <3> QED BY <3>1, <3>2, Zenon
  <2>2. CASE ~(fees.relayer > 0)
    <3>1. A = <<>>
      BY <2>2, Zenon
    <3>2. fees.relayer = 0
      BY <2>2
    <3> QED BY <3>1, <3>2, EmptyWorth, Zenon
  <2> QED BY <2>1, <2>2
<1>2. Worth(B, dest, fees.token)
  <2>1. CASE fees.token > 0
    <3>1. B = <<Mint("token fees", fees.token)>>
      BY <2>1, Zenon
    <3>2. Worth(<<Mint("token fees", fees.token)>>, dest, fees.token)
      BY MintWorth
    <3> QED BY <3>1, <3>2, Zenon
  <2>2. CASE ~(fees.token > 0)
    <3>1. B = <<>>
      BY <2>2, Zenon
    <3>2. fees.token = 0
      BY <2>2
    <3> QED BY <3>1, <3>2, EmptyWorth, Zenon
  <2> QED BY <2>1, <2>2
<1>3. FeeMessages(fees) = A \o B
  BY DEF FeeMessages
<1> HIDE DEF A, B
<1>4. Worth(A \o B, dest, fees.relayer + fees.token)
  BY <1>1, <1>2, JoinWorth
<1> QED BY <1>3, <1>4, Zenon

(* What a receipt of the end blocks says of its transfer.                   *)
InFull(receipt) ==
    LET transfer == receipt.transfer
    IN  /\ Contract \notin {transfer.dest.receiver, transfer.dest.sender}
              => receipt.held = 0
        /\ \/ receipt.minted = transfer.amount
           \/ /\ transfer.dest.kind = "Ibc" /\ transfer.dest.port # "transfer"
              /\ receipt.minted < transfer.amount

(* A transfer whose fee fits is paid in full.                               *)
LEMMA ReceiptInFull ==
    ASSUME NEW t, NEW quote \in Quotes, config \in Configs, now \in Nat,
           t.amount \in Nat, t.dest \in Dests, FeeFits(config, t.amount)
    PROVE  InFull(Receipt(t, quote))
<1>1. PICK fees : fees = Fees(config, quote, t.amount)
  OBVIOUS
<1>2. PICK x : x = fees.deducted
  OBVIOUS
<1>3. PICK y : y = fees.relayer + fees.token
  OBVIOUS
<1>4. /\ x \in Nat /\ fees.token \in Nat /\ fees.relayer \in Nat /\ y \in Nat
      /\ x + y = t.amount
  <2>1. PICK a : a = t.amount
    OBVIOUS
  <2>2. a \in Nat /\ FeeFits(config, a) /\ fees = Fees(config, quote, a)
    BY <1>1, <2>1, Zenon
  <2>3. /\ fees.deducted \in Nat /\ fees.token \in Nat /\ fees.relayer \in Nat
        /\ fees.deducted + fees.token + fees.relayer = a
    BY <2>2, FeesAddUp
  <2> QED BY <1>2, <1>3, <2>1, <2>3
<1>5. PICK D : D = DestMessages(config, t.dest, x, now)
  OBVIOUS
<1>6. PICK F : F = FeeMessages(fees)
  OBVIOUS
<1>7. MessagesFor(t, quote) = D \o F
  BY <1>1, <1>2, <1>5, <1>6 DEF MessagesFor, Messages
<1>8. \/ Worth(D, t.dest, x)
      \/ t.dest.kind = "Ibc" /\ t.dest.port # "transfer" /\ Worth(D, t.dest, 0)
  BY <1>4, <1>5, DestMessagesWorth
<1>9. Worth(F, t.dest, y)
  BY <1>3, <1>4, <1>6, FeeMessagesWorth
<1>10. PICK r : r = Receipt(t, quote)
  OBVIOUS
<1>11. r.transfer = t /\ r.minted = Minted(D \o F) /\ r.held = Held(D \o F)
  BY <1>7, <1>10 DEF Receipt
<1>12. CASE Worth(D, t.dest, x)
  <2>1. Worth(D \o F, t.dest, x + y)
    BY <1>4, <1>9, <1>12, JoinWorth
  <2>2. InFull(r)
    BY <1>4, <1>11, <2>1 DEF Worth, InFull
  <2> QED BY <1>10, <2>2
<1>13. CASE t.dest.kind = "Ibc" /\ t.dest.port # "transfer" /\ Worth(D, t.dest, 0)
  <2>1. Worth(D \o F, t.dest, 0 + y)
    BY <1>4, <1>9, <1>13, JoinWorth
  <2>2. Minted(D \o F) = y
    BY <1>4, <2>1 DEF Worth
  <2>3. y = t.amount \/ y < t.amount
    BY <1>4
  <2>4. InFull(r)
    BY <1>11, <1>13, <2>1, <2>2, <2>3 DEF Worth, InFull
  <2> QED BY <1>10, <2>4
<1> QED BY <1>8, <1>12, <1>13

(* The end blocks mint for each transfer what they took from a checkpoint,  *)
(* and the contract keeps none of it, unless the transfer is addressed to   *)
(* it or leaves through another port (clock_end_block, process_deduct_fee). *)
THEOREM TransfersPaidInFull == Spec => []PaidInFull
<1>1. PaidInFull <=> \A receipt \in paid : InFull(receipt)
  BY DEF PaidInFull, InFull
<1>2. Init => PaidInFull
  BY DEF Init, PaidInFull
<1>3. ASSUME PaidInFull, PayInv, now \in Nat, [Next]_vars PROVE PaidInFull'
  <2>0. PaidInFull' <=> \A receipt \in paid' : InFull(receipt)
    BY DEF PaidInFull, InFull
  <2>1. CASE paid' = paid
    BY <1>1, <1>3, <2>0, <2>1
  <2>2. CASE EndBlock
    <3>1. PICK quote \in Quotes : ClockEndBlock(quote)
      BY <2>2 DEF EndBlock
    <3>2. /\ \A t \in completed : Paid(t, quote)
          /\ paid' = paid \cup {Receipt(t, quote) : t \in completed}
      BY <3>1 DEF ClockEndBlock
    <3>3. ASSUME NEW t \in completed PROVE InFull(Receipt(t, quote))
      <4>1. config \in Configs /\ t.amount \in Nat /\ t.dest \in Dests
        BY <1>3, <3>3 DEF PayInv
      <4>2. FeeFits(config, t.amount)
        BY <3>2, <3>3 DEF Paid
      <4> QED BY <1>3, <4>1, <4>2, ReceiptInFull
    <3> QED BY <1>1, <1>3, <2>0, <3>2, <3>3
  <2>3. EndBlock \/ paid' = paid
    BY <1>3 DEF Next, vars, historyVars, RelayDeposit, RelayExpiredDeposit, WatchAddress,
                ForgetExpired, Restart, Prune, Tick, CompleteCheckpoint, UpdateConfig,
                RegisterDenom, ChangeBtcDenomOwner
  <2> QED BY <2>1, <2>2, <2>3
<1>4. OnceInv => route \in Routes /\ now \in Nat
  BY DEF OnceInv
<1> QED
  BY <1>2, <1>3, <1>4, OnceInit, OnceStep, PayInit, PayStep, PTL DEF Spec

-----------------------------------------------------------------------------
(* The variables keep their types.                                          *)

(* The parts of the type invariant that different steps disturb.            *)
StoreOK ==
    /\ scripts \subseteq {<<dest, i>> : dest \in Dests, i \in Sigsets}
    /\ \A w \in scripts : w[2] \in DOMAIN dests /\ w[1] \in dests[w[2]]

QueuedOK == \A o \in outpoints : \E e \in expirations : e[2] = o

TransfersOK ==
    /\ pending \subseteq Transfers /\ completed \subseteq Transfers
    /\ \A receipt \in paid : receipt.transfer \in Transfers

OwnerOK ==
    /\ config \in Configs
    /\ admin \in [Factories -> Factories \cup {Nobody}]

(* A script that is inserted gets the entry it is derived from, and the     *)
(* others keep theirs.  (WatchedScripts::insert)                            *)
LEMMA StoreWatch ==
    ASSUME StoreOK, NEW dest \in Dests, NEW i \in Sigsets, Watch(dest, i)
    PROVE  StoreOK'
<1>1. scripts' = scripts \cup {<<dest, i>>}
  BY DEF Watch
<1>2. DOMAIN dests' = DOMAIN dests \cup {i}
  BY DEF Watch
<1>3. dest \in dests'[i]
  BY DEF Watch
<1>4. \A j \in DOMAIN dests : \A x \in dests[j] : x \in dests'[j]
  BY DEF Watch
<1>5. ASSUME NEW w \in scripts' PROVE w[2] \in DOMAIN dests' /\ w[1] \in dests'[w[2]]
  <2>1. CASE w \in scripts
    BY <1>2, <1>4, <2>1 DEF StoreOK
  <2>2. CASE w = <<dest, i>>
    BY <1>2, <1>3, <2>2
  <2> QED BY <1>1, <2>1, <2>2
<1>6. scripts' \subseteq {<<x, j>> : x \in Dests, j \in Sigsets}
  BY <1>1 DEF StoreOK
<1> QED BY <1>5, <1>6 DEF StoreOK

(* Of what pruning leaves in the set, the entries are not due.              *)
LEMMA QueuedPrune ==
    ASSUME QueuedOK, NEW t, RemoveExpired(t)
    PROVE  QueuedOK'
<1>1. /\ outpoints' = outpoints \ {e[2] : e \in Due(t)}
      /\ expirations' = expirations \ Due(t)
  BY DEF RemoveExpired
<1> SUFFICES ASSUME NEW o \in outpoints' PROVE \E e \in expirations' : e[2] = o
  BY DEF QueuedOK
<1>2. PICK e \in expirations : e[2] = o
  BY <1>1 DEF QueuedOK
<1>3. e \notin Due(t)
  BY <1>1, <1>2
<1> QED BY <1>1, <1>2, <1>3

(* What is inserted has its entry.                                          *)
LEMMA QueuedInsert ==
    ASSUME QueuedOK, NEW o, NEW x, Insert(o, x)
    PROVE  QueuedOK'
<1>1. outpoints' = outpoints \cup {o} /\ expirations' = expirations \cup {<<x, o>>}
  BY DEF Insert
<1>2. <<x, o>>[2] = o
  OBVIOUS
<1> QED BY <1>1, <1>2 DEF QueuedOK

(* A deposit is made a transfer with the factory of the day.                *)
LEMMA TransferType ==
    ASSUME OwnerOK, route \in Routes, NEW d \in Deposits, Value[d] >= MinerFee
    PROVE  Transfer(d) \in Transfers
<1>1. Value[d] \in Nat /\ MinerFee \in Nat
  BY DepositAssumption
<1>2. Value[d] - MinerFee \in Nat
  BY <1>1
<1>3. route[d][1] \in Dests
  BY DEF Dests
<1>4. config.factory \in Factories
  BY ConfigAssumption DEF OwnerOK
<1> QED BY <1>2, <1>3, <1>4 DEF Transfer, Transfers

(* Every step preserves the types.                                          *)
LEMMA TypeStep ==
    ASSUME TypeOK, [Next]_vars
    PROVE  TypeOK'
<1>0. /\ now \in 0 .. MaxTime /\ route \in Routes /\ StoreOK /\ QueuedOK /\ TransfersOK
      /\ OwnerOK /\ recovered \subseteq Deposits /\ MaxTime \in Nat
  BY DepositAssumption DEF TypeOK, StoreOK, QueuedOK, TransfersOK, OwnerOK
<1>1. ASSUME now' \in 0 .. MaxTime, route' = route, StoreOK', QueuedOK', TransfersOK',
             OwnerOK', recovered' \subseteq Deposits
      PROVE  TypeOK'
  BY <1>0, <1>1 DEF TypeOK, StoreOK, QueuedOK, TransfersOK, OwnerOK
<1>2. ASSUME UNCHANGED relayerVars PROVE StoreOK'
  BY <1>0, <1>2 DEF StoreOK, relayerVars
<1>3. ASSUME UNCHANGED outpointVars PROVE QueuedOK'
  BY <1>0, <1>3 DEF QueuedOK, outpointVars
<1>4. ASSUME UNCHANGED <<pending, completed, paid>> PROVE TransfersOK'
  BY <1>0, <1>4 DEF TransfersOK
<1>5. ASSUME UNCHANGED <<config, admin>> PROVE OwnerOK'
  BY <1>0, <1>5 DEF OwnerOK
<1>6. ASSUME NEW d \in Deposits, RelayDeposit(d) PROVE TypeOK'
  <2>1. /\ Insert(d, Expiration(route[d][2])) /\ Value[d] >= MinerFee
        /\ pending' = pending \cup {Transfer(d)}
        /\ now' = now /\ route' = route /\ UNCHANGED relayerVars
        /\ UNCHANGED <<completed, recovered, config, admin, paid>>
    BY <1>6 DEF RelayDeposit, Relayed
  <2>2. QueuedOK'
    BY <1>0, <2>1, QueuedInsert
  <2>3. TransfersOK'
    BY <1>0, <2>1, TransferType DEF TransfersOK
  <2> QED BY <1>0, <1>1, <1>2, <1>5, <2>1, <2>2, <2>3
<1>7. ASSUME NEW d \in Deposits, RelayExpiredDeposit(d) PROVE TypeOK'
  <2>1. /\ Insert(d, Expiration(route[d][2])) /\ recovered' = recovered \cup {d}
        /\ now' = now /\ route' = route /\ UNCHANGED relayerVars
        /\ UNCHANGED <<pending, completed, paid>> /\ UNCHANGED <<config, admin>>
    BY <1>7 DEF RelayExpiredDeposit, Relayed, historyVars
  <2>2. QueuedOK'
    BY <1>0, <2>1, QueuedInsert
  <2> QED BY <1>0, <1>1, <1>2, <1>4, <1>5, <2>1, <2>2
<1>8. ASSUME NEW address \in Routed, WatchAddress(address) PROVE TypeOK'
  <2>1. /\ Watch(address[1], address[2])
        /\ now' = now /\ route' = route /\ recovered' = recovered /\ UNCHANGED outpointVars
        /\ UNCHANGED <<pending, completed, paid>> /\ UNCHANGED <<config, admin>>
    BY <1>8 DEF WatchAddress, contractVars, historyVars
  <2>2. address[1] \in Dests /\ address[2] \in Sigsets
    BY <1>0, DepositAssumption DEF Routed, Dests
  <2>3. StoreOK'
    BY <1>0, <2>1, <2>2, StoreWatch
  <2> QED BY <1>0, <1>1, <1>3, <1>4, <1>5, <2>1, <2>3
<1>9. CASE ForgetExpired \/ Restart
  <2>1. /\ now' = now /\ route' = route /\ recovered' = recovered /\ UNCHANGED outpointVars
        /\ UNCHANGED <<pending, completed, paid>> /\ UNCHANGED <<config, admin>>
    BY <1>9 DEF ForgetExpired, Restart, contractVars, historyVars
  <2>2. CASE ForgetExpired
    <3>1. scripts' \subseteq scripts /\ dests' = dests
      BY <2>2 DEF ForgetExpired, Forget
    <3>2. StoreOK'
      BY <1>0, <3>1 DEF StoreOK
    <3> QED BY <1>0, <1>1, <1>3, <1>4, <1>5, <2>1, <3>2
  <2>3. CASE Restart
    <3>1. StoreOK'
      BY <2>3 DEF Restart, Open, StoreOK
    <3> QED BY <1>0, <1>1, <1>3, <1>4, <1>5, <2>1, <3>1
  <2> QED BY <1>9, <2>2, <2>3
<1>10. CASE Prune
  <2>1. /\ RemoveExpired(now - PruneLag)
        /\ now' = now /\ route' = route /\ recovered' = recovered /\ UNCHANGED relayerVars
        /\ UNCHANGED <<pending, completed, paid>> /\ UNCHANGED <<config, admin>>
    BY <1>10 DEF Prune, contractVars, historyVars
  <2>2. QueuedOK'
    BY <1>0, <2>1, QueuedPrune
  <2> QED BY <1>0, <1>1, <1>2, <1>4, <1>5, <2>1, <2>2
<1>11. CASE Tick
  <2>1. /\ now < MaxTime /\ now' = now + 1
        /\ route' = route /\ recovered' = recovered /\ UNCHANGED relayerVars
        /\ UNCHANGED outpointVars
        /\ UNCHANGED <<pending, completed, paid>> /\ UNCHANGED <<config, admin>>
    BY <1>11 DEF Tick, contractVars, historyVars
  <2>2. now' \in 0 .. MaxTime
    BY <1>0, <2>1
  <2> QED BY <1>0, <1>1, <1>2, <1>3, <1>4, <1>5, <2>1, <2>2
<1>12. CASE CompleteCheckpoint
  <2>1. /\ completed' = completed \cup pending /\ pending' = {} /\ paid' = paid
        /\ now' = now /\ route' = route /\ recovered' = recovered /\ UNCHANGED relayerVars
        /\ UNCHANGED outpointVars /\ UNCHANGED <<config, admin>>
    BY <1>12 DEF CompleteCheckpoint, historyVars
  <2>2. TransfersOK'
    BY <1>0, <2>1 DEF TransfersOK
  <2> QED BY <1>0, <1>1, <1>2, <1>3, <1>5, <2>1, <2>2
<1>13. CASE EndBlock
  <2>0. PICK quote \in Quotes : ClockEndBlock(quote)
    BY <1>13 DEF EndBlock
  <2>1. /\ paid' = paid \cup {Receipt(t, quote) : t \in completed}
        /\ completed' = {} /\ pending' = pending
        /\ now' = now /\ route' = route /\ recovered' = recovered /\ UNCHANGED relayerVars
        /\ UNCHANGED outpointVars /\ UNCHANGED <<config, admin>>
    BY <2>0 DEF ClockEndBlock
  <2>2. \A t \in completed : Receipt(t, quote).transfer = t
    BY DEF Receipt
  <2>3. TransfersOK'
    BY <1>0, <2>1, <2>2 DEF TransfersOK
  <2> QED BY <1>0, <1>1, <1>2, <1>3, <1>5, <2>1, <2>3
<1>14. CASE UpdateConfig
  <2>1. /\ config' \in Configs /\ admin' = admin
        /\ now' = now /\ route' = route /\ recovered' = recovered /\ UNCHANGED relayerVars
        /\ UNCHANGED outpointVars /\ UNCHANGED <<pending, completed, paid>>
    BY <1>14 DEF UpdateConfig, historyVars
  <2>2. OwnerOK'
    BY <1>0, <2>1 DEF OwnerOK
  <2> QED BY <1>0, <1>1, <1>2, <1>3, <1>4, <2>1, <2>2
<1>15. ASSUME NEW new \in Factories, RegisterDenom \/ ChangeBtcDenomOwner(new) PROVE TypeOK'
  <2>1. /\ \E f \in Factories : admin' = [admin EXCEPT ![config.factory] = f]
        /\ config' = config
        /\ now' = now /\ route' = route /\ recovered' = recovered /\ UNCHANGED relayerVars
        /\ UNCHANGED outpointVars /\ UNCHANGED <<pending, completed, paid>>
    <3>1. config.factory \in Factories
      BY <1>0, ConfigAssumption DEF OwnerOK
    <3> QED BY <1>15, <3>1 DEF RegisterDenom, ChangeBtcDenomOwner, contractVars, historyVars
  <2>2. OwnerOK'
    BY <1>0, <2>1 DEF OwnerOK
  <2> QED BY <1>0, <1>1, <1>2, <1>3, <1>4, <2>1, <2>2
<1>16. CASE RegisterDenom
  <2>1. config.factory \in Factories
    BY <1>0, ConfigAssumption DEF OwnerOK
  <2> QED BY <1>15, <1>16, <2>1
<1>17. CASE UNCHANGED vars
  <2>1. /\ now' = now /\ route' = route /\ recovered' = recovered /\ UNCHANGED relayerVars
        /\ UNCHANGED outpointVars /\ UNCHANGED <<pending, completed, paid>>
        /\ UNCHANGED <<config, admin>>
    BY <1>17 DEF vars, contractVars, historyVars
  <2> QED BY <1>0, <1>1, <1>2, <1>3, <1>4, <1>5, <2>1
<1> QED
  BY <1>6, <1>7, <1>8, <1>9, <1>10, <1>11, <1>12, <1>13, <1>14, <1>15, <1>16, <1>17 DEF Next

(* Type correctness of the path of a deposit: watched scripts and processed *)
(* outpoints always have the entries by which they are to be removed.       *)
THEOREM DepositTypeCorrect == Spec => []TypeOK
<1>1. Init => TypeOK
  BY DepositAssumption
     DEF Init, InitRelayer, InitOutpoints, TypeOK
<1> QED
  BY <1>1, TypeStep, PTL DEF Spec
=============================================================================
