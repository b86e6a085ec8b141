-------------------------------- MODULE Relayer -------------------------------
(***************************************************************************)
(* The relayer's store of the deposit addresses it watches for.  An address *)
(* is a destination committed to with a signatory set, <<dest, index>>; the *)
(* script derived from the pair is not the script of any other.             *)
(*                                                                         *)
(* The store keeps the scripts, and the destinations by signatory set from  *)
(* which it derives them again.  (It also appends to a file, which nothing  *)
(* reads: it is left out.)                                                  *)
(***************************************************************************)
EXTENDS Integers

CONSTANTS
    Sigsets,        \* indices of signatory sets
    CreateTime,     \* when each was created
    MaxAge          \* the age at which the relayer stops watching

(* Checkpoints are created one after the other.                             *)
ASSUME SigsetsAssumption ==
    /\ Sigsets \subseteq Nat
    /\ CreateTime \in [Sigsets -> Nat]
    /\ \A i, j \in Sigsets : i < j => CreateTime[i] <= CreateTime[j]
    /\ MaxAge \in Nat

VARIABLES
    now,        \* the time of the relayer and of the block
    scripts,    \* WatchedScripts.scripts
    dests       \* WatchedScripts.sigsets: the destinations inserted, by index

relayerVars == <<scripts, dests>>

InitRelayer == scripts = {} /\ dests = [i \in {} |-> {}]

(* WatchedScripts::insert.  A signatory set has an entry from the first     *)
(* destination on.                                                          *)
MutantWatch(dest, i) ==
    /\ CreateTime[i] <= now
    /\ <<dest, i>> \notin scripts
    /\ scripts' = scripts \cup {<<dest, i>>}
    /\ dests' = [j \in DOMAIN dests \cup {i} |-> IF j = i THEN {dest} ELSE dests[j]]

Watch(dest, i) ==
    /\ CreateTime[i] <= now
    /\ <<dest, i>> \notin scripts
    /\ scripts' = scripts \cup {<<dest, i>>}
    /\ dests' = [j \in DOMAIN dests \cup {i} |->
                   (IF j \in DOMAIN dests THEN dests[j] ELSE {})
                     \cup (IF j = i THEN {dest} ELSE {})]

(* WatchedScripts::remove_expired goes through the sets it knows by index   *)
(* and stops at the first that is young enough.                             *)
Old(i) == now >= CreateTime[i] + MaxAge

FirstVisited == {i \in DOMAIN dests : Old(i) /\ \A j \in DOMAIN dests : i <= j}

MutantVisited == {i \in DOMAIN dests : \E j \in DOMAIN dests : Old(j)}

Visited == {i \in DOMAIN dests : \A j \in DOMAIN dests : j <= i => Old(j)}

Forget ==
    /\ scripts' = scripts \ UNION {{<<dest, i>> : dest \in dests[i]} : i \in Visited}
    /\ UNCHANGED dests

(* WatchedScriptStore::open, after a restart: nothing is read from the file *)
(* before it is replaced by an empty one.                                   *)
Open ==
    /\ scripts' = {}
    /\ dests' = [i \in {} |-> {}]
=============================================================================
