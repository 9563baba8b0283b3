---------------------------- MODULE SessionServer ----------------------------
(***************************************************************************)
(* The JSON-RPC server of gbash (server/server.go, server/session.go).     *)
(*                                                                         *)
(* Goroutines modelled: the accept loop of Serve, its context watcher, the *)
(* reaper, and for every connection its readLoop and its decodeLoop.  They *)
(* share the session registry (guarded by sessionsMu), the connection      *)
(* table (guarded by connsMu) and the connection contexts.  One action is  *)
(* one critical section, one channel operation or one blocking call.       *)
(*                                                                         *)
(* Time is abstracted to the age of an idle session: age[s] is             *)
(* min(now - idleSince, SessionTTL), so no clock has to be bounded.  A     *)
(* busy session has a zero idleSince and does not age.                     *)
(***************************************************************************)
EXTENDS Integers, FiniteSets

CONSTANTS
  Conns,        \* identities of connections; nextIDValue never repeats one
  SessionIDs,   \* identities of sessions; newSessionID never repeats one
  NoOwner,      \* the owner of an id no session object carries yet
  MaxSessions,  \* Config.MaxSessions after normalizeConfig; <= 0: no cap
  MaxConns,     \* serverState.maxConns; <= 0: no cap
  SessionTTL,   \* Config.SessionTTL in ticks
  MaxInbox,     \* bound: frames of one client the decoder has not read yet
  Pipelining,   \* may a client send a frame before the previous is answered?
  Events        \* what the environment may do besides sending good frames

ASSUME ConnsFinite == IsFiniteSet(Conns)
ASSUME SessionIDsFinite == IsFiniteSet(SessionIDs)
ASSUME NoOwnerFresh == NoOwner \notin Conns
ASSUME LimitsAssumption == MaxSessions \in Int /\ MaxConns \in Int
ASSUME TTLAssumption == SessionTTL \in Nat \ {0}
ASSUME InboxAssumption == MaxInbox \in Nat \ {0}
ASSUME PipeliningAssumption == Pipelining \in BOOLEAN

AllEvents == {"bad", "stall", "half", "gone", "acceptError", "shutdown"}

ASSUME EventsAssumption == Events \subseteq AllEvents

VARIABLES
  sessions,   \* keys of serverState.sessions
  owner,      \* serverSession.owner, NoOwner before the object is built
  busy,       \* serverSession.busy
  age,        \* time since serverSession.idleSince, capped at SessionTTL
  shutdown,   \* the server context is cancelled
  listening,  \* the listener is open
  serving,    \* program counter of Serve
  accepted,   \* connections addConn has admitted but not registered
  watcher,    \* program counter of Serve's context watcher
  reaper,     \* is reapLoop running?
  toClose,    \* snapshots closeConnections still has to close, per caller
  conns,      \* keys of serverState.conns
  client,     \* the peer: what it has done with its end of the connection
  inbox,      \* complete frames sent and not yet decoded
  decode,     \* program counter of decodeLoop
  loop,       \* program counter of readLoop
  req,        \* method and session id of the request readLoop handles
  cancelled,  \* connections whose own context was cancelled
  closing     \* progress of clientConn.close

registryVars == <<sessions, owner, busy, age>>
serveVars    == <<shutdown, listening, serving, accepted, watcher, reaper, toClose>>
connVars     == <<conns, client, inbox, decode, loop, req, cancelled, closing>>
vars         == <<registryVars, serveVars, connVars>>

Closers == {"serve", "watcher"}
Methods == {"create", "get", "list", "destroy", "exec", "other"}
Requests == [method : Methods, id : SessionIDs \cup {NoOwner}]
NoRequest == [method |-> "other", id |-> NoOwner]
ClientStates == {"none", "open", "stalled", "half", "gone"}
DecodeStates == {"none", "reading", "offer", "offerBad", "done"}
LoopStates ==
  {"none", "select", "reap", "check", "build", "insert", "lookup", "acquire",
   "exec", "destroy", "reply", "replyBad", "return", "done"}
CloseStates == {"open", "closing", "removed", "closed"}

TypeOK ==
  /\ sessions \subseteq SessionIDs
  /\ owner \in [SessionIDs -> Conns \cup {NoOwner}]
  /\ busy \in [SessionIDs -> BOOLEAN]
  /\ age \in [SessionIDs -> 0..SessionTTL]
  /\ shutdown \in BOOLEAN
  /\ listening \in BOOLEAN
  /\ serving \in {"accept", "insert", "deferred", "closing", "returned"}
  /\ accepted \subseteq Conns
  /\ watcher \in {"wait", "snapshot", "closing", "done"}
  /\ reaper \in BOOLEAN
  /\ toClose \in [Closers -> SUBSET Conns]
  /\ conns \subseteq Conns
  /\ client \in [Conns -> ClientStates]
  /\ inbox \in [Conns -> 0..MaxInbox]
  /\ decode \in [Conns -> DecodeStates]
  /\ loop \in [Conns -> LoopStates]
  /\ req \in [Conns -> Requests]
  /\ cancelled \subseteq Conns
  /\ closing \in [Conns -> CloseStates]

Init ==
  /\ sessions = {}
  /\ owner = [s \in SessionIDs |-> NoOwner]
  /\ busy = [s \in SessionIDs |-> FALSE]
  /\ age = [s \in SessionIDs |-> 0]
  /\ shutdown = FALSE
  /\ listening = TRUE
  /\ serving = "accept"
  /\ accepted = {}
  /\ watcher = "wait"
  /\ reaper = TRUE
  /\ toClose = [k \in Closers |-> {}]
  /\ conns = {}
  /\ client = [c \in Conns |-> "none"]
  /\ inbox = [c \in Conns |-> 0]
  /\ decode = [c \in Conns |-> "none"]
  /\ loop = [c \in Conns |-> "none"]
  /\ req = [c \in Conns |-> NoRequest]
  /\ cancelled = {}
  /\ closing = [c \in Conns |-> "open"]

-----------------------------------------------------------------------------
(* The session registry: what happens under sessionsMu.                    *)

\* checkSessionLimitLocked
SessionsFull == MaxSessions > 0 /\ Cardinality(sessions) >= MaxSessions

\* Mutant of Expired: the comparison is off by one tick.
ExpiredEarly(s) == ~busy[s] /\ age[s] >= SessionTTL - 1

\* serverSession.expired: busy sessions have no idleSince.
Expired(s) == ~busy[s] /\ age[s] >= SessionTTL

\* Mutant of Unexpired: the reaper deletes nothing.
ReapNothing == sessions

\* What reapExpiredSessions leaves in the map.
Unexpired == {s \in sessions : ~Expired(s)}

\* Mutant of Visible: a session id works on every connection.
VisibleToAll(c, s) == s \in sessions

\* Mutant of Visible: a session already removed can still be used.
VisibleUnregistered(c, s) == owner[s] = c

\* The ownership test shared by lookupSession, acquireSession, destroySession.
Visible(c, s) == s \in sessions /\ owner[s] = c

\* Mutant of NotOwnedBy: closing a connection keeps its sessions.
DropNothing(c) == sessions

\* What dropOwnedSessions leaves in the map.
NotOwnedBy(c) == {s \in sessions : owner[s] # c}

\* Mutant of CtxDone: the decoder's failure does not cancel the connection.
CtxServerOnly(c) == shutdown

\* conn.ctx is derived from the server context.
CtxDone(c) == c \in cancelled \/ shutdown

\* Mutant of ConnsFull: one connection too many.
ConnsFullLate == MaxConns > 0 /\ Cardinality(conns) > MaxConns

\* addConn's comparison with the cap
ConnsFull == MaxConns > 0 /\ Cardinality(conns) >= MaxConns

-----------------------------------------------------------------------------
(* readLoop and handleRequest                                              *)

GoTo(c, pc) == loop' = [loop EXCEPT ![c] = pc]

\* Where handleRequest starts: session.destroy is the only session method
\* that does not reap first.
FirstStep(m) ==
  CASE m = "other"   -> "reply"
    [] m = "destroy" -> "destroy"
    [] OTHER         -> "reap"

\* Mutant of AfterReap: session.create skips the check and the construction.
AfterReapSkipsBuild(m) ==
  CASE m = "create" -> "insert"
    [] m = "exec"   -> "acquire"
    [] OTHER        -> "lookup"

\* Where a method goes on after reapExpiredSessions.
AfterReap(m) ==
  CASE m = "create" -> "check"
    [] m = "exec"   -> "acquire"
    [] OTHER        -> "lookup"

\* The unbuffered channel hands a decoded frame to readLoop.  A frame the
\* decoder rejected (syntax error, too large) ends both loops.
Receive(c) ==
  /\ loop[c] = "select"
  /\ \/ /\ decode[c] = "offer"
        /\ decode' = [decode EXCEPT ![c] = "reading"]
        /\ \E m \in Methods, s \in SessionIDs :
             LET id == IF m \in {"get", "destroy", "exec"} THEN s ELSE NoOwner
             IN  /\ req' = [req EXCEPT ![c] = [method |-> m, id |-> id]]
                 /\ GoTo(c, FirstStep(m))
     \/ /\ decode[c] = "offerBad"
        /\ decode' = [decode EXCEPT ![c] = "done"]
        /\ GoTo(c, "replyBad")
        /\ UNCHANGED req
  /\ UNCHANGED <<registryVars, serveVars, conns, client, inbox, cancelled, closing>>

\* readLoop's select sees its context cancelled.
ReadLoopCancelled(c) ==
  /\ loop[c] = "select"
  /\ CtxDone(c)
  /\ GoTo(c, "return")
  /\ UNCHANGED <<registryVars, serveVars, conns, client, inbox, decode, req, cancelled, closing>>

\* reapExpiredSessions, called by createSession, lookupSession,
\* acquireSession and session.list before they do anything else.
RequestReap(c) ==
  /\ loop[c] = "reap"
  /\ sessions' = Unexpired
  /\ GoTo(c, AfterReap(req[c].method))
  /\ UNCHANGED <<owner, busy, age, serveVars, conns, client, inbox, decode, req, cancelled, closing>>

\* createSession: the first, unreserved look at the cap.
CreateCheck(c) ==
  /\ loop[c] = "check"
  /\ GoTo(c, IF SessionsFull THEN "reply" ELSE "build")
  /\ UNCHANGED <<registryVars, serveVars, conns, client, inbox, decode, req, cancelled, closing>>

\* createSession: newSessionID and Runtime.NewSession, outside every lock;
\* either may fail.
CreateBuild(c) ==
  /\ loop[c] = "build"
  /\ \/ \E s \in SessionIDs :
          /\ owner[s] = NoOwner
          /\ owner' = [owner EXCEPT ![s] = c]
          /\ age' = [age EXCEPT ![s] = 0]
          /\ req' = [req EXCEPT ![c] = [method |-> "create", id |-> s]]
          /\ GoTo(c, "insert")
     \/ /\ GoTo(c, "reply")
        /\ UNCHANGED <<owner, age, req>>
  /\ UNCHANGED <<sessions, busy, serveVars, conns, client, inbox, decode, cancelled, closing>>

\* Mutant of CreateInsert: the cap is only compared before the construction.
CreateInsertUnchecked(c) ==
  /\ loop[c] = "insert"
  /\ sessions' = sessions \cup {req[c].id}
  /\ GoTo(c, "reply")
  /\ UNCHANGED <<owner, busy, age, serveVars, conns, client, inbox, decode, req, cancelled, closing>>

\* createSession: the second look at the cap and the insert, in one
\* critical section.
CreateInsert(c) ==
  /\ loop[c] = "insert"
  /\ sessions' = IF SessionsFull THEN sessions ELSE sessions \cup {req[c].id}
  /\ GoTo(c, "reply")
  /\ UNCHANGED <<owner, busy, age, serveVars, conns, client, inbox, decode, req, cancelled, closing>>

\* lookupSession and listSessions change nothing once they have reaped.
Lookup(c) ==
  /\ loop[c] = "lookup"
  /\ GoTo(c, "reply")
  /\ UNCHANGED <<registryVars, serveVars, conns, client, inbox, decode, req, cancelled, closing>>

\* acquireSession: lookup and markBusy in one critical section.
Acquire(c) ==
  /\ loop[c] = "acquire"
  /\ LET s == req[c].id
     IN  IF Visible(c, s) /\ ~busy[s]
         THEN /\ busy' = [busy EXCEPT ![s] = TRUE]
              /\ age' = [age EXCEPT ![s] = 0]
              /\ GoTo(c, "exec")
         ELSE /\ GoTo(c, "reply")
              /\ UNCHANGED <<busy, age>>
  /\ UNCHANGED <<sessions, owner, serveVars, conns, client, inbox, decode, req, cancelled, closing>>

\* serverSession.exec: Session.Exec returns (finished, timed out, failed or
\* cancelled) and the session object becomes idle, registered or not.
ExecReturn(c) ==
  /\ loop[c] = "exec"
  /\ busy' = [busy EXCEPT ![req[c].id] = FALSE]
  /\ age' = [age EXCEPT ![req[c].id] = 0]
  /\ GoTo(c, "reply")
  /\ UNCHANGED <<sessions, owner, serveVars, conns, client, inbox, decode, req, cancelled, closing>>

\* destroySession: not found, busy, or removed.
Destroy(c) ==
  /\ loop[c] = "destroy"
  /\ LET s == req[c].id
     IN  sessions' = IF Visible(c, s) /\ ~busy[s] THEN sessions \ {s} ELSE sessions
  /\ GoTo(c, "reply")
  /\ UNCHANGED <<owner, busy, age, serveVars, conns, client, inbox, decode, req, cancelled, closing>>

\* Can writing to c's socket fail?
PeerLost(c) == client[c] = "gone" \/ closing[c] # "open"

\* The response is written (a peer that left may not be noticed yet), or the
\* request was a notification.
Reply(c) ==
  /\ loop[c] = "reply"
  /\ req' = [req EXCEPT ![c] = NoRequest]
  /\ GoTo(c, "select")
  /\ UNCHANGED <<registryVars, serveVars, conns, client, inbox, decode, cancelled, closing>>

\* writeResponse fails and readLoop returns.
ReplyFails(c) ==
  /\ loop[c] = "reply"
  /\ PeerLost(c)
  /\ req' = [req EXCEPT ![c] = NoRequest]
  /\ GoTo(c, "return")
  /\ UNCHANGED <<registryVars, serveVars, conns, client, inbox, decode, cancelled, closing>>

\* After the error reply to a rejected frame readLoop returns, whether or not
\* the write succeeded.
ReplyBad(c) ==
  /\ loop[c] = "replyBad"
  /\ GoTo(c, "return")
  /\ UNCHANGED <<registryVars, serveVars, conns, client, inbox, decode, req, cancelled, closing>>

-----------------------------------------------------------------------------
(* clientConn.close, run once by whichever caller comes first              *)

\* The body of once.Do starts: cancel the context and close the socket.
\* Closing a registered connection also unblocks its decoder (see DecodeFails).
BeginClose(c) ==
  /\ closing[c] = "open"
  /\ closing' = [closing EXCEPT ![c] = "closing"]
  /\ cancelled' = cancelled \cup {c}

\* readLoop's deferred close.
ReadLoopClose(c) ==
  /\ loop[c] = "return"
  /\ BeginClose(c)
  /\ UNCHANGED <<registryVars, serveVars, conns, client, inbox, decode, loop, req>>

\* closeConnections, called by Serve or by its watcher, reaches connection c.
CloserClose(k, c) ==
  /\ c \in toClose[k]
  /\ BeginClose(c)
  /\ UNCHANGED <<registryVars, serveVars, conns, client, inbox, decode, loop, req>>

\* removeConn
CloseRemove(c) ==
  /\ closing[c] = "closing"
  /\ conns' = conns \ {c}
  /\ closing' = [closing EXCEPT ![c] = "removed"]
  /\ UNCHANGED <<registryVars, serveVars, client, inbox, decode, loop, req, cancelled>>

\* dropOwnedSessions: removes busy sessions too.
CloseDrop(c) ==
  /\ closing[c] = "removed"
  /\ sessions' = NotOwnedBy(c)
  /\ closing' = [closing EXCEPT ![c] = "closed"]
  /\ UNCHANGED <<owner, busy, age, serveVars, conns, client, inbox, decode, loop, req, cancelled>>

\* once.Do returns to readLoop, whoever ran it.
ReadLoopDone(c) ==
  /\ loop[c] = "return"
  /\ closing[c] = "closed"
  /\ GoTo(c, "done")
  /\ UNCHANGED <<registryVars, serveVars, conns, client, inbox, decode, req, cancelled, closing>>

\* once.Do returns to closeConnections.
CloserNext(k, c) ==
  /\ c \in toClose[k]
  /\ closing[c] = "closed"
  /\ toClose' = [toClose EXCEPT ![k] = @ \ {c}]
  /\ UNCHANGED <<registryVars, shutdown, listening, serving, accepted, watcher, reaper, connVars>>

-----------------------------------------------------------------------------
(* decodeLoop                                                              *)

\* Decode returns a frame, or rejects one as malformed or too large.
DecodeFrame(c) ==
  /\ decode[c] = "reading"
  /\ inbox[c] > 0
  /\ inbox' = [inbox EXCEPT ![c] = @ - 1]
  /\ \/ decode' = [decode EXCEPT ![c] = "offer"]
     \/ /\ "bad" \in Events
        /\ decode' = [decode EXCEPT ![c] = "offerBad"]
  /\ UNCHANGED <<registryVars, serveVars, conns, client, loop, req, cancelled, closing>>

\* Decode fails with something other than bad input: the peer is gone or has
\* half-closed, the socket was closed here, or the frame deadline passed.
DecodeFails(c) ==
  /\ decode[c] = "reading"
  /\ \/ inbox[c] = 0 /\ client[c] \in {"stalled", "half", "gone"}
     \/ closing[c] # "open"
  /\ decode' = [decode EXCEPT ![c] = "done"]
  /\ cancelled' = cancelled \cup {c}
  /\ UNCHANGED <<registryVars, serveVars, conns, client, inbox, loop, req, closing>>

\* decodeLoop gives up handing over a frame.
DecodeCancelled(c) ==
  /\ decode[c] \in {"offer", "offerBad"}
  /\ CtxDone(c)
  /\ decode' = [decode EXCEPT ![c] = "done"]
  /\ UNCHANGED <<registryVars, serveVars, conns, client, inbox, loop, req, cancelled, closing>>

-----------------------------------------------------------------------------
(* Serve, its watcher and the reaper                                       *)

\* Accept returns a connection; addConn compares the table with the cap and
\* closes the new connection when it is full.
Accept(c) ==
  /\ serving = "accept"
  /\ listening
  /\ client[c] = "none"
  /\ IF ConnsFull
     THEN /\ client' = [client EXCEPT ![c] = "gone"]
          /\ UNCHANGED <<serving, accepted>>
     ELSE /\ client' = [client EXCEPT ![c] = "open"]
          /\ accepted' = {c}
          /\ serving' = "insert"
  /\ UNCHANGED <<registryVars, shutdown, listening, watcher, reaper, toClose, conns, inbox, decode, loop, req, cancelled, closing>>

\* addConn, second half: register and start readLoop, which starts decodeLoop.
AddConn ==
  /\ serving = "insert"
  /\ \E c \in accepted :
       /\ conns' = conns \cup {c}
       /\ loop' = [loop EXCEPT ![c] = "select"]
       /\ decode' = [decode EXCEPT ![c] = "reading"]
  /\ accepted' = {}
  /\ serving' = "accept"
  /\ UNCHANGED <<registryVars, shutdown, listening, watcher, reaper, toClose, client, inbox, req, cancelled, closing>>

\* Accept fails for good, or because the listener was closed.  Temporary
\* errors are retried and change nothing.
AcceptFails ==
  /\ serving = "accept"
  /\ listening => "acceptError" \in Events
  /\ serving' = "deferred"
  /\ UNCHANGED <<registryVars, shutdown, listening, accepted, watcher, reaper, toClose, connVars>>

\* Serve's deferred function: close(done), then closeConnections' snapshot.
ServeSnapshot ==
  /\ serving = "deferred"
  /\ serving' = "closing"
  /\ toClose' = [toClose EXCEPT !["serve"] = conns]
  /\ UNCHANGED <<registryVars, shutdown, listening, accepted, watcher, reaper, connVars>>

\* closeConnections is done; the deferred cancel runs and Serve returns.
ServeReturn ==
  /\ serving = "closing"
  /\ toClose["serve"] = {}
  /\ serving' = "returned"
  /\ shutdown' = TRUE
  /\ UNCHANGED <<registryVars, listening, accepted, watcher, reaper, toClose, connVars>>

DoneClosed == serving \in {"closing", "returned"}

\* Mutant of WatcherCloseListener: the listener stays open.
WatcherKeepsListener ==
  /\ watcher = "wait"
  /\ shutdown
  /\ watcher' = "snapshot"
  /\ UNCHANGED <<registryVars, shutdown, listening, serving, accepted, reaper, toClose, connVars>>

\* The watcher sees the context cancelled and closes the listener.
WatcherCloseListener ==
  /\ watcher = "wait"
  /\ shutdown
  /\ watcher' = "snapshot"
  /\ listening' = FALSE
  /\ UNCHANGED <<registryVars, shutdown, serving, accepted, reaper, toClose, connVars>>

WatcherSnapshot ==
  /\ watcher = "snapshot"
  /\ watcher' = "closing"
  /\ toClose' = [toClose EXCEPT !["watcher"] = conns]
  /\ UNCHANGED <<registryVars, shutdown, listening, serving, accepted, reaper, connVars>>

WatcherExit ==
  /\ \/ watcher = "wait" /\ DoneClosed
     \/ watcher = "closing" /\ toClose["watcher"] = {}
  /\ watcher' = "done"
  /\ UNCHANGED <<registryVars, shutdown, listening, serving, accepted, reaper, toClose, connVars>>

\* reapLoop's ticker fires.
ReapTick ==
  /\ reaper
  /\ sessions' = Unexpired
  /\ UNCHANGED <<owner, busy, age, serveVars, connVars>>

\* reapLoop sees done closed or the context cancelled.
ReaperExit ==
  /\ reaper
  /\ DoneClosed \/ shutdown
  /\ reaper' = FALSE
  /\ UNCHANGED <<registryVars, shutdown, listening, serving, accepted, watcher, toClose, connVars>>

-----------------------------------------------------------------------------
(* The environment                                                         *)

\* Time passes for every idle session.
Tick ==
  /\ age' = [s \in SessionIDs |->
               IF owner[s] # NoOwner /\ ~busy[s] /\ age[s] < SessionTTL
               THEN age[s] + 1 ELSE age[s]]
  /\ age' # age
  /\ UNCHANGED <<sessions, owner, busy, serveVars, connVars>>

\* Has every frame of c been answered?
Quiet(c) == inbox[c] = 0 /\ decode[c] = "reading" /\ loop[c] = "select"

\* The client sends a frame, in one piece or completing a partial one.
ClientSend(c) ==
  /\ client[c] \in {"open", "stalled"}
  /\ closing[c] = "open"
  /\ inbox[c] < MaxInbox
  /\ Pipelining \/ Quiet(c)
  /\ client' = [client EXCEPT ![c] = "open"]
  /\ inbox' = [inbox EXCEPT ![c] = @ + 1]
  /\ UNCHANGED <<registryVars, serveVars, conns, decode, loop, req, cancelled, closing>>

\* The client sends part of a frame.
ClientStall(c) ==
  /\ "stall" \in Events
  /\ client[c] = "open"
  /\ closing[c] = "open"
  /\ Pipelining \/ Quiet(c)
  /\ client' = [client EXCEPT ![c] = "stalled"]
  /\ UNCHANGED <<registryVars, serveVars, conns, inbox, decode, loop, req, cancelled, closing>>

\* The client half-closes its write side, or closes the connection.
ClientLeave(c) ==
  /\ client[c] \in {"open", "stalled", "half"}
  /\ \E p \in ({"half", "gone"} \cap Events) \ {client[c]} : client' = [client EXCEPT ![c] = p]
  /\ UNCHANGED <<registryVars, serveVars, conns, inbox, decode, loop, req, cancelled, closing>>

\* The caller of Serve cancels its context.
Shutdown ==
  /\ "shutdown" \in Events
  /\ ~shutdown
  /\ shutdown' = TRUE
  /\ UNCHANGED <<registryVars, listening, serving, accepted, watcher, reaper, toClose, connVars>>

-----------------------------------------------------------------------------

ReadLoop(c) ==
  \/ Receive(c) \/ ReadLoopCancelled(c) \/ RequestReap(c) \/ CreateCheck(c)
  \/ CreateBuild(c) \/ CreateInsert(c) \/ Lookup(c) \/ Acquire(c)
  \/ ExecReturn(c) \/ Destroy(c) \/ Reply(c) \/ ReplyFails(c) \/ ReplyBad(c)
  \/ ReadLoopClose(c) \/ ReadLoopDone(c)

Closing(c) ==
  \/ CloseRemove(c) \/ CloseDrop(c)
  \/ \E k \in Closers : CloserClose(k, c) \/ CloserNext(k, c)

DecodeLoop(c) == DecodeFrame(c) \/ DecodeFails(c) \/ DecodeCancelled(c)

Serve ==
  \/ AddConn \/ AcceptFails \/ ServeSnapshot \/ ServeReturn
  \/ \E c \in Conns : Accept(c)

Background ==
  WatcherCloseListener \/ WatcherSnapshot \/ WatcherExit \/ ReapTick \/ ReaperExit

Environment ==
  \/ Tick \/ Shutdown
  \/ \E c \in Conns : ClientSend(c) \/ ClientStall(c) \/ ClientLeave(c)

Next ==
  \/ \E c \in Conns : ReadLoop(c) \/ Closing(c) \/ DecodeLoop(c)
  \/ Serve \/ Background \/ Environment

Spec == Init /\ [][Next]_vars

(***************************************************************************)
(* Fairness: every goroutine that can run eventually runs.  Nothing is     *)
(* assumed of the clients, of the arrival of connections, of Shutdown, of  *)
(* a write to a peer that is still there (it may never read), nor of a     *)
(* script whose context is live (it may run forever).  A cancelled script  *)
(* returns: that is the runtime's contract for Session.Exec.               *)
(***************************************************************************)
ReadLoopProgress(c) ==
  \/ Receive(c) \/ ReadLoopCancelled(c) \/ RequestReap(c) \/ CreateCheck(c)
  \/ CreateBuild(c) \/ CreateInsert(c) \/ Lookup(c) \/ Acquire(c)
  \/ CtxDone(c) /\ ExecReturn(c)
  \/ Destroy(c)
  \/ ReplyFails(c)
  \/ PeerLost(c) /\ ReplyBad(c)
  \/ ReadLoopClose(c) \/ ReadLoopDone(c)

Fairness ==
  /\ \A c \in Conns :
       /\ WF_vars(ReadLoopProgress(c))
       /\ WF_vars(Closing(c))
       /\ WF_vars(DecodeLoop(c))
  /\ WF_vars(AddConn \/ ServeSnapshot \/ ServeReturn)
  /\ WF_vars(~listening /\ AcceptFails)
  /\ WF_vars(WatcherCloseListener \/ WatcherSnapshot \/ WatcherExit)
  /\ WF_vars(ReaperExit)
  /\ WF_vars(ReapTick)
  /\ WF_vars(Tick)

FairSpec == Spec /\ Fairness

-----------------------------------------------------------------------------
(* Safety                                                                  *)

\* The registry never holds more than Config.MaxSessions sessions, although
\* racing session.create calls all pass the first check (createSession).
SessionLimit == MaxSessions > 0 => Cardinality(sessions) <= MaxSessions

\* The server never serves more than maxConns connections, although addConn
\* gives connsMu up between its check and its insert.
ConnLimit == MaxConns > 0 => Cardinality(conns) <= MaxConns

\* A session.exec runs on a session of its own connection, marked busy, that
\* neither TTL reaping nor session.destroy can take away: it leaves the
\* registry only when the connection itself is closed (acquireSession).
ExecKeepsSession ==
  \A c \in Conns : loop[c] = "exec" =>
    /\ owner[req[c].id] = c
    /\ busy[req[c].id]
    /\ req[c].id \in sessions \/ closing[c] = "closed"

\* The busy flag is never leaked: a session is busy exactly while some
\* connection's session.exec runs on it (markBusy, exec).
BusyMeansRunning ==
  \A s \in SessionIDs : busy[s] =>
    \E c \in Conns : loop[c] = "exec" /\ req[c].id = s

\* SESSION_BUSY is unreachable: sessions belong to one connection and a
\* connection handles its requests in order, so neither acquireSession nor
\* destroySession ever finds a session of its own connection busy, although
\* the protocol page lists the error for both methods.
NeverBusy ==
  \A c \in Conns :
    loop[c] \in {"acquire", "destroy"} /\ Visible(c, req[c].id) => ~busy[req[c].id]

\* While the server is up, no session outlives its connection: close drops
\* the sessions only after readLoop can no longer create one.
NoOrphans ==
  ~shutdown /\ ~DoneClosed => \A s \in sessions : closing[owner[s]] # "closed"

\* A session disappears only because it idled for a full SessionTTL, because
\* its own connection destroyed it while idle, or because its connection is
\* being closed (reapExpiredSessions, destroySession, dropOwnedSessions).
RemovalJustified ==
  [][\A s \in sessions \ sessions' :
       LET c == owner[s]
       IN  \/ ~busy[s] /\ age[s] = SessionTTL
           \/ ~busy[s] /\ loop[c] = "destroy" /\ req[c].id = s
           \/ closing[c] = "removed"]_vars

-----------------------------------------------------------------------------
(* Refinement                                                              *)

Lease == INSTANCE SessionLease WITH
           holder <- owner, held <- sessions, running <- {s \in SessionIDs : busy[s]}

\* The server implements the lease specification: whatever its goroutines
\* interleave, sessions are granted, run, expired and revoked as promised.
ImplementsLease == Lease!LeaseSpec

-----------------------------------------------------------------------------
(* Liveness, under FairSpec                                                *)

\* When the client disconnects or half-closes its write side, the execution
\* in flight is stopped, even a script that would run forever.
DisconnectStopsExec ==
  \A c \in Conns :
    client[c] \in {"half", "gone"} /\ loop[c] = "exec" ~> loop[c] # "exec"

\* A connection whose client is gone gives its slot and its sessions back.
GoneIsReleased ==
  \A c \in Conns :
    client[c] = "gone" /\ c \in conns
      ~> c \notin conns /\ \A s \in sessions : owner[s] # c

\* Cancelling the context of Serve ends it: every goroutine of every
\* connection has finished and nothing is registered as connected.
ShutdownCompletes ==
  shutdown ~> /\ serving = "returned"
              /\ conns = {}
              /\ watcher = "done"
              /\ \A c \in Conns : loop[c] \in {"none", "done"} /\ decode[c] \in {"none", "done"}

\* A session that stays idle is reaped while the server is up (reapLoop).
IdleIsReaped ==
  \A s \in SessionIDs :
    s \in sessions ~> s \notin sessions \/ busy[s] \/ shutdown \/ DoneClosed

=============================================================================
