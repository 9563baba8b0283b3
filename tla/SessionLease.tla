----------------------------- MODULE SessionLease -----------------------------
(***************************************************************************)
(* What the server promises about sessions, without goroutines, locks or   *)
(* time (SPEC.md, "Server mode"): a session is a lease that one connection *)
(* holds; at most MaxSessions leases are out; at most one execution runs   *)
(* on a lease; a lease under execution is not taken away, except together  *)
(* with the connection that holds it.                                      *)
(***************************************************************************)
EXTENDS Integers, FiniteSets

CONSTANTS Conns, SessionIDs, NoOwner, MaxSessions

VARIABLES
  holder,   \* the connection a session id was ever given to, or NoOwner
  held,     \* the leases that are out
  running   \* the sessions an execution runs on

leaseVars == <<holder, held, running>>

LeaseInit ==
  /\ holder = [s \in SessionIDs |-> NoOwner]
  /\ held = {}
  /\ running = {}

\* An id is drawn for a connection; it is not a lease yet.
Draw(s, c) ==
  /\ holder[s] = NoOwner
  /\ holder' = [holder EXCEPT ![s] = c]
  /\ UNCHANGED <<held, running>>

\* The lease goes out, below the cap.
Grant(s) ==
  /\ holder[s] # NoOwner
  /\ s \notin held \cup running
  /\ MaxSessions > 0 => Cardinality(held) < MaxSessions
  /\ held' = held \cup {s}
  /\ UNCHANGED <<holder, running>>

Start(s) ==
  /\ s \in held \ running
  /\ running' = running \cup {s}
  /\ UNCHANGED <<holder, held>>

Finish(s) ==
  /\ s \in running
  /\ running' = running \ {s}
  /\ UNCHANGED <<holder, held>>

\* Idle leases expire or are destroyed.
Expire(S) ==
  /\ S # {}
  /\ S \subseteq held \ running
  /\ held' = held \ S
  /\ UNCHANGED <<holder, running>>

\* A connection closes and all its leases end, those under execution too.
Revoke(c) ==
  /\ held' = {s \in held : holder[s] # c}
  /\ UNCHANGED <<holder, running>>

LeaseNext ==
  \/ \E s \in SessionIDs :
       Grant(s) \/ Start(s) \/ Finish(s) \/ \E c \in Conns : Draw(s, c)
  \/ \E S \in SUBSET SessionIDs : Expire(S)
  \/ \E c \in Conns : Revoke(c)

LeaseSpec == LeaseInit /\ [][LeaseNext]_leaseVars
=============================================================================
