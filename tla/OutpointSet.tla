----------------------------- MODULE OutpointSet ------------------------------
(***************************************************************************)
(* The outpoints of the deposits that were relayed, and the queue by which  *)
(* they are to be forgotten: two maps of the contract's storage.            *)
(***************************************************************************)
EXTENDS Integers

VARIABLES
    outpoints,      \* OUTPOINTS
    expirations     \* EXPIRATION_QUEUE: its keys <<expiration, outpoint>>

outpointVars == <<outpoints, expirations>>

InitOutpoints == outpoints = {} /\ expirations = {}

Processed(o) == o \in outpoints

Insert(o, expiration) ==
    /\ outpoints' = outpoints \cup {o}
    /\ expirations' = expirations \cup {<<expiration, o>>}

(* remove_expired.  The queue is in the order of the expirations, so that   *)
(* stopping at the first one later than t is filtering it.                  *)
Due(t) == {e \in expirations : e[1] <= t}

RemoveExpired(t) ==
    /\ outpoints' = outpoints \ {e[2] : e \in Due(t)}
    /\ expirations' = expirations \ Due(t)
=============================================================================
