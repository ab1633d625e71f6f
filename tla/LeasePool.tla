----------------------------- MODULE LeasePool -----------------------------
(***************************************************************************)
(* What a pool of connections that carry one request at a time promises    *)
(* its users, without saying how: a request holds a lease on at most one   *)
(* connection, a connection is leased to at most one request, the pool     *)
(* lists at most Limit connections, and a connection leaves the list only  *)
(* when nobody holds it or when it is dead.  ConnectionPool is shown to    *)
(* implement this for asyncio and HTTP/1.1.                                *)
(***************************************************************************)
EXTENDS Naturals, FiniteSets

CONSTANTS Requests, Conns, None, Limit

VARIABLES pool,   \* the connections the pool lists
          lease,  \* what each request holds
          dead    \* connections that are closed or could not be made

vars == <<pool, lease, dead>>

Init ==
  /\ pool = {}
  /\ lease = [r \in Requests |-> None]
  /\ dead \in SUBSET Conns

Leased == {lease[r] : r \in Requests} \ {None}

Take(r, c) == lease[r] = None /\ lease' = [lease EXCEPT ![r] = c]

\* A connection of the pool that is free and alive.
Lend(r, c) ==
  /\ c \in pool \ (Leased \cup dead)
  /\ Take(r, c)
  /\ UNCHANGED <<pool, dead>>

\* A new connection, within the limit or in place of a free one.
LendNew(r, c, gone) ==
  /\ c \notin pool \cup Leased
  /\ gone \subseteq pool \ Leased
  /\ pool' = (pool \ gone) \cup {c}
  /\ Cardinality(pool') <= Limit
  /\ Take(r, c)
  /\ dead' = dead \ {c}

Return(r) ==
  /\ lease[r] # None
  /\ lease' = [lease EXCEPT ![r] = None]
  /\ UNCHANGED <<pool, dead>>

\* Connections are dropped from the list; only dead ones under a lease.
Discard ==
  /\ pool' \subseteq pool
  /\ (pool \ pool') \cap Leased \subseteq dead
  /\ UNCHANGED <<lease, dead>>

\* Connections close, by themselves or by the pool; a dead one stays dead.
Die ==
  /\ dead \subseteq dead'
  /\ UNCHANGED <<pool, lease>>

Next ==
  \/ \E r \in Requests, c \in Conns :
       Lend(r, c) \/ LendNew(r, c, {}) \/ \E old \in pool : LendNew(r, c, {old})
  \/ \E r \in Requests : Return(r)
  \/ Discard
  \/ Die

Spec == Init /\ [][Next]_vars

=============================================================================
