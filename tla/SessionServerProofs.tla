------------------------- MODULE SessionServerProofs -------------------------
(***************************************************************************)
(* The safety of SessionServer for every number of connections and         *)
(* sessions, every cap, every TTL and every client behaviour.              *)
(***************************************************************************)
EXTENDS SessionServer, FiniteSetTheorems, TLAPS

-----------------------------------------------------------------------------
(* The inductive invariant                                                 *)

\* A running execution has its own, busy, registered session.
ExecInv ==
  \A c \in Conns : loop[c] = "exec" =>
    /\ req[c].id \in SessionIDs
    /\ owner[req[c].id] = c
    /\ busy[req[c].id]
    /\ req[c].id \in sessions \/ closing[c] = "closed"

\* A session between newSessionID and its insert is known to nobody else.
InsertInv ==
  \A c \in Conns : loop[c] = "insert" =>
    /\ req[c].id \in SessionIDs
    /\ owner[req[c].id] = c
    /\ ~busy[req[c].id]
    /\ req[c].id \notin sessions

\* Only sessions that were built are registered.
OwnedInv == \A s \in sessions : owner[s] \in Conns

\* The slot addConn has seen free stays free until it is used: Serve is the
\* only goroutine that adds connections.
SlotInv ==
  serving = "insert" /\ MaxConns > 0 => Cardinality(conns) < MaxConns

\* A connection nobody serves yet has no readLoop, and only connections with
\* a readLoop are registered, closed or about to be closed.
StartInv ==
  /\ \A c \in Conns : client[c] = "none" => loop[c] = "none"
  /\ \A c \in accepted : loop[c] = "none" /\ client[c] # "none"
  /\ \A c, d \in accepted : c = d
  /\ \A c \in conns : loop[c] # "none"
  /\ \A k \in Closers : \A c \in toClose[k] : loop[c] # "none"
  /\ \A c \in Conns : closing[c] # "open" => loop[c] # "none"

\* While the server is up, a connection is closed by its own readLoop, after
\* the last request.
CloseInv ==
  /\ watcher \in {"snapshot", "closing"} => shutdown
  /\ toClose["watcher"] # {} => shutdown
  /\ toClose["serve"] # {} => DoneClosed
  /\ \A c \in Conns :
       closing[c] # "open" => loop[c] \in {"return", "done"} \/ shutdown \/ DoneClosed

IndInv ==
  /\ TypeOK
  /\ SessionLimit
  /\ ExecInv
  /\ BusyMeansRunning
  /\ InsertInv
  /\ OwnedInv
  /\ ConnLimit
  /\ SlotInv
  /\ StartInv
  /\ CloseInv
  /\ NoOrphans

-----------------------------------------------------------------------------
(* Type correctness                                                        *)

\* Every step of every goroutine keeps the variables in their types; the
\* insert needs to know that the id it inserts was really drawn.
LEMMA TypeStep == TypeOK /\ InsertInv /\ [Next]_vars => TypeOK'
<1> SUFFICES ASSUME TypeOK, InsertInv, [Next]_vars PROVE TypeOK'
  OBVIOUS
<1> USE DEF TypeOK, registryVars, serveVars, connVars, GoTo, LoopStates, DecodeStates,
            CloseStates, ClientStates, Closers
<1>1. ASSUME NEW c \in Conns, Receive(c) PROVE TypeOK'
  <2>1. CASE decode[c] = "offer"
    <3>1. PICK m \in Methods, s \in SessionIDs \cup {NoOwner} :
             /\ req' = [req EXCEPT ![c] = [method |-> m, id |-> s]]
             /\ loop' = [loop EXCEPT ![c] = FirstStep(m)]
      BY <1>1, <2>1 DEF Receive
    <3>2. FirstStep(m) \in LoopStates
      BY <3>1 DEF FirstStep, Methods
    <3>3. [method |-> m, id |-> s] \in Requests
      BY <3>1 DEF Requests
    <3> QED
      BY <1>1, <2>1, <3>1, <3>2, <3>3 DEF Receive
  <2>2. CASE decode[c] = "offerBad"
    BY <1>1, <2>2 DEF Receive
  <2> QED
    BY <1>1, <2>1, <2>2 DEF Receive
<1>2. ASSUME NEW c \in Conns, ReadLoopCancelled(c) PROVE TypeOK'
  BY <1>2 DEF ReadLoopCancelled
<1>3. ASSUME NEW c \in Conns, RequestReap(c) PROVE TypeOK'
  BY <1>3 DEF RequestReap, AfterReap, Unexpired
<1>4. ASSUME NEW c \in Conns, CreateCheck(c) PROVE TypeOK'
  BY <1>4 DEF CreateCheck
<1>5. ASSUME NEW c \in Conns, CreateBuild(c) PROVE TypeOK'
  <2>1. 0 \in 0..SessionTTL
    BY TTLAssumption
  <2>2. CASE UNCHANGED <<owner, age, req>>
    BY <1>5, <2>2 DEF CreateBuild
  <2>3. ASSUME NEW s \in SessionIDs,
               owner' = [owner EXCEPT ![s] = c],
               age' = [age EXCEPT ![s] = 0],
               req' = [req EXCEPT ![c] = [method |-> "create", id |-> s]]
        PROVE  TypeOK'
    <3>1. req' \in [Conns -> Requests]
      BY <2>3 DEF Requests, Methods
    <3> QED
      BY <1>5, <2>1, <2>3, <3>1, ZenonT(40) DEF CreateBuild
  <2> QED
    BY <1>5, <2>2, <2>3 DEF CreateBuild
<1>6. ASSUME NEW c \in Conns, CreateInsert(c) PROVE TypeOK'
  BY <1>6 DEF CreateInsert, InsertInv
<1>7. ASSUME NEW c \in Conns, Lookup(c) PROVE TypeOK'
  BY <1>7 DEF Lookup
<1>8. ASSUME NEW c \in Conns, Acquire(c) PROVE TypeOK'
  <2>1. 0 \in 0..SessionTTL
    BY TTLAssumption
  <2>2. busy' \in [SessionIDs -> BOOLEAN]
    BY <1>8 DEF Acquire
  <2>3. age' \in [SessionIDs -> 0..SessionTTL]
    BY <1>8, <2>1 DEF Acquire
  <2> QED
    BY <1>8, <2>2, <2>3 DEF Acquire
<1>9. ASSUME NEW c \in Conns, ExecReturn(c) PROVE TypeOK'
  <2>1. 0 \in 0..SessionTTL
    BY TTLAssumption
  <2>2. busy' \in [SessionIDs -> BOOLEAN]
    BY <1>9 DEF ExecReturn
  <2>3. age' \in [SessionIDs -> 0..SessionTTL]
    BY <1>9, <2>1 DEF ExecReturn
  <2> QED
    BY <1>9, <2>2, <2>3 DEF ExecReturn
<1>10. ASSUME NEW c \in Conns, Destroy(c) PROVE TypeOK'
  BY <1>10 DEF Destroy, Requests
<1>11. ASSUME NEW c \in Conns, Reply(c) PROVE TypeOK'
  BY <1>11 DEF Reply, Requests, NoRequest, Methods
<1>12. ASSUME NEW c \in Conns, ReplyFails(c) PROVE TypeOK'
  BY <1>12 DEF ReplyFails, Requests, NoRequest, Methods
<1>13. ASSUME NEW c \in Conns, ReplyBad(c) PROVE TypeOK'
  BY <1>13 DEF ReplyBad
<1>14. ASSUME NEW c \in Conns, ReadLoopClose(c) PROVE TypeOK'
  BY <1>14 DEF ReadLoopClose, BeginClose
<1>15. ASSUME NEW c \in Conns, ReadLoopDone(c) PROVE TypeOK'
  BY <1>15 DEF ReadLoopDone
<1>16. ASSUME NEW c \in Conns, CloseRemove(c) PROVE TypeOK'
  BY <1>16 DEF CloseRemove
<1>17. ASSUME NEW c \in Conns, CloseDrop(c) PROVE TypeOK'
  BY <1>17 DEF CloseDrop, NotOwnedBy
<1>18. ASSUME NEW c \in Conns, DecodeFrame(c) PROVE TypeOK'
  BY <1>18, InboxAssumption DEF DecodeFrame
<1>19. ASSUME NEW c \in Conns, DecodeFails(c) PROVE TypeOK'
  BY <1>19 DEF DecodeFails
<1>20. ASSUME NEW c \in Conns, DecodeCancelled(c) PROVE TypeOK'
  BY <1>20 DEF DecodeCancelled
<1>21. ASSUME NEW c \in Conns, Accept(c) PROVE TypeOK'
  BY <1>21 DEF Accept
<1>22. ASSUME NEW c \in Conns, ClientSend(c) PROVE TypeOK'
  BY <1>22, InboxAssumption DEF ClientSend
<1>23. ASSUME NEW c \in Conns, ClientStall(c) PROVE TypeOK'
  BY <1>23 DEF ClientStall
<1>24. ASSUME NEW c \in Conns, ClientLeave(c) PROVE TypeOK'
  BY <1>24 DEF ClientLeave
<1>25. ASSUME NEW c \in Conns, NEW k \in Closers, CloserClose(k, c) PROVE TypeOK'
  BY <1>25 DEF CloserClose, BeginClose
<1>26. ASSUME NEW c \in Conns, NEW k \in Closers, CloserNext(k, c) PROVE TypeOK'
  BY <1>26 DEF CloserNext
<1>27. CASE AddConn
  BY <1>27 DEF AddConn
<1>28. CASE AcceptFails
  BY <1>28 DEF AcceptFails
<1>29. CASE ServeSnapshot
  BY <1>29 DEF ServeSnapshot
<1>30. CASE ServeReturn
  BY <1>30 DEF ServeReturn
<1>31. CASE WatcherCloseListener
  BY <1>31 DEF WatcherCloseListener
<1>32. CASE WatcherSnapshot
  BY <1>32 DEF WatcherSnapshot
<1>33. CASE WatcherExit
  BY <1>33 DEF WatcherExit
<1>34. CASE ReapTick
  BY <1>34 DEF ReapTick, Unexpired
<1>35. CASE ReaperExit
  BY <1>35 DEF ReaperExit
<1>36. CASE Tick
  BY <1>36, TTLAssumption DEF Tick
<1>37. CASE Shutdown
  BY <1>37 DEF Shutdown
<1>38. CASE UNCHANGED vars
  BY <1>38 DEF vars
<1> QED
  BY <1>1, <1>2, <1>3, <1>4, <1>5, <1>6, <1>7, <1>8, <1>9, <1>10, <1>11, <1>12, <1>13, <1>14, <1>15, <1>16, <1>17, <1>18, <1>19, <1>20, <1>21, <1>22, <1>23, <1>24, <1>25, <1>26, <1>27, <1>28, <1>29, <1>30, <1>31, <1>32, <1>33, <1>34, <1>35, <1>36, <1>37, <1>38
     DEF Next, ReadLoop, Closing, DecodeLoop, Serve, Background, Environment

-----------------------------------------------------------------------------
(* The other parts of the invariant                                        *)

SafetyInv ==
  /\ ExecInv
  /\ BusyMeansRunning
  /\ InsertInv
  /\ OwnedInv
  /\ StartInv
  /\ CloseInv
  /\ NoOrphans

\* Every step keeps the facts about executions, owners, starting and closing.
LEMMA SafetyStep == IndInv /\ [Next]_vars => SafetyInv'
<1> SUFFICES ASSUME IndInv, [Next]_vars PROVE SafetyInv'
  OBVIOUS
<1> USE NoOwnerFresh
    DEF IndInv, TypeOK, SafetyInv, ExecInv, BusyMeansRunning, InsertInv, OwnedInv, StartInv,
        CloseInv, NoOrphans, DoneClosed, registryVars, serveVars, connVars, GoTo, Closers
<1>1. ASSUME NEW c \in Conns, Receive(c) PROVE SafetyInv'
  <2>1. PICK r \in Requests, pc \in {"reply", "destroy", "reap", "replyBad"} :
           /\ loop[c] = "select"
           /\ loop' = [loop EXCEPT ![c] = pc]
           /\ req' = [req EXCEPT ![c] = r] \/ req' = req
           /\ UNCHANGED <<registryVars, serveVars, conns, client, inbox, cancelled, closing>>
    <3>1. CASE decode[c] = "offer"
      <4>1. PICK m \in Methods, s \in SessionIDs \cup {NoOwner} :
               /\ req' = [req EXCEPT ![c] = [method |-> m, id |-> s]]
               /\ loop' = [loop EXCEPT ![c] = FirstStep(m)]
        BY <1>1, <3>1 DEF Receive
      <4>2. FirstStep(m) \in {"reply", "destroy", "reap", "replyBad"}
        BY DEF FirstStep, Methods
      <4>3. [method |-> m, id |-> s] \in Requests
        BY <4>1 DEF Requests
      <4> QED
        BY <1>1, <4>1, <4>2, <4>3 DEF Receive
    <3>2. CASE decode[c] = "offerBad"
      <4>1. NoRequest \in Requests
        BY DEF NoRequest, Requests, Methods
      <4> QED
        BY <1>1, <3>2, <4>1 DEF Receive
    <3> QED
      BY <1>1, <3>1, <3>2 DEF Receive
  <2> QED
    BY <2>1
<1>2. ASSUME NEW c \in Conns, ReadLoopCancelled(c) PROVE SafetyInv'
  BY <1>2 DEF ReadLoopCancelled, CtxDone
<1>3. ASSUME NEW c \in Conns, RequestReap(c) PROVE SafetyInv'
  BY <1>3 DEF RequestReap, AfterReap, Unexpired, Expired
<1>4. ASSUME NEW c \in Conns, CreateCheck(c) PROVE SafetyInv'
  BY <1>4 DEF CreateCheck
<1>5. ASSUME NEW c \in Conns, CreateBuild(c) PROVE SafetyInv'
  BY <1>5 DEF CreateBuild
<1>6. ASSUME NEW c \in Conns, CreateInsert(c) PROVE SafetyInv'
  BY <1>6 DEF CreateInsert
<1>7. ASSUME NEW c \in Conns, Lookup(c) PROVE SafetyInv'
  BY <1>7 DEF Lookup
<1>8. ASSUME NEW c \in Conns, Acquire(c) PROVE SafetyInv'
  BY <1>8 DEF Acquire, Visible
<1>9. ASSUME NEW c \in Conns, ExecReturn(c) PROVE SafetyInv'
  BY <1>9 DEF ExecReturn
<1>10. ASSUME NEW c \in Conns, Destroy(c) PROVE SafetyInv'
  BY <1>10 DEF Destroy, Visible
<1>11. ASSUME NEW c \in Conns, Reply(c) PROVE SafetyInv'
  BY <1>11 DEF Reply
<1>12. ASSUME NEW c \in Conns, ReplyFails(c) PROVE SafetyInv'
  BY <1>12 DEF ReplyFails
<1>13. ASSUME NEW c \in Conns, ReplyBad(c) PROVE SafetyInv'
  BY <1>13 DEF ReplyBad
<1>14. ASSUME NEW c \in Conns, ReadLoopClose(c) PROVE SafetyInv'
  BY <1>14 DEF ReadLoopClose, BeginClose
<1>15. ASSUME NEW c \in Conns, ReadLoopDone(c) PROVE SafetyInv'
  BY <1>15 DEF ReadLoopDone
<1>16. ASSUME NEW c \in Conns, CloseRemove(c) PROVE SafetyInv'
  BY <1>16 DEF CloseRemove
<1>17. ASSUME NEW c \in Conns, CloseDrop(c) PROVE SafetyInv'
  BY <1>17 DEF CloseDrop, NotOwnedBy
<1>18. ASSUME NEW c \in Conns, DecodeFrame(c) PROVE SafetyInv'
  BY <1>18 DEF DecodeFrame
<1>19. ASSUME NEW c \in Conns, DecodeFails(c) PROVE SafetyInv'
  BY <1>19 DEF DecodeFails
<1>20. ASSUME NEW c \in Conns, DecodeCancelled(c) PROVE SafetyInv'
  BY <1>20 DEF DecodeCancelled
<1>21. ASSUME NEW c \in Conns, Accept(c) PROVE SafetyInv'
  BY <1>21 DEF Accept
<1>22. ASSUME NEW c \in Conns, ClientSend(c) PROVE SafetyInv'
  BY <1>22 DEF ClientSend
<1>23. ASSUME NEW c \in Conns, ClientStall(c) PROVE SafetyInv'
  BY <1>23 DEF ClientStall
<1>24. ASSUME NEW c \in Conns, ClientLeave(c) PROVE SafetyInv'
  BY <1>24 DEF ClientLeave
<1>25. ASSUME NEW c \in Conns, NEW k \in Closers, CloserClose(k, c) PROVE SafetyInv'
  BY <1>25 DEF CloserClose, BeginClose
<1>26. ASSUME NEW c \in Conns, NEW k \in Closers, CloserNext(k, c) PROVE SafetyInv'
  BY <1>26 DEF CloserNext
<1>27. CASE AddConn
  <2>1. PICK c \in accepted :
           /\ conns' = conns \cup {c}
           /\ loop' = [loop EXCEPT ![c] = "select"]
    BY <1>27 DEF AddConn
  <2>2. c \in Conns /\ loop[c] = "none" /\ closing[c] = "open"
    BY <2>1
  <2>3. ExecInv' /\ BusyMeansRunning' /\ InsertInv' /\ OwnedInv'
    BY <1>27, <2>1, <2>2 DEF AddConn
  <2>4. StartInv'
    BY <1>27, <2>1, <2>2 DEF AddConn
  <2>5. CloseInv' /\ NoOrphans'
    BY <1>27, <2>1, <2>2 DEF AddConn
  <2> QED
    BY <2>3, <2>4, <2>5
<1>28. CASE AcceptFails
  BY <1>28 DEF AcceptFails
<1>29. CASE ServeSnapshot
  BY <1>29 DEF ServeSnapshot
<1>30. CASE ServeReturn
  BY <1>30 DEF ServeReturn
<1>31. CASE WatcherCloseListener
  BY <1>31 DEF WatcherCloseListener
<1>32. CASE WatcherSnapshot
  BY <1>32 DEF WatcherSnapshot
<1>33. CASE WatcherExit
  BY <1>33 DEF WatcherExit
<1>34. CASE ReapTick
  BY <1>34 DEF ReapTick, Unexpired, Expired
<1>35. CASE ReaperExit
  BY <1>35 DEF ReaperExit
<1>36. CASE Tick
  BY <1>36 DEF Tick
<1>37. CASE Shutdown
  BY <1>37 DEF Shutdown
<1>38. CASE UNCHANGED vars
  BY <1>38 DEF vars
<1> HIDE NoOwnerFresh
    DEF IndInv, TypeOK, SafetyInv, ExecInv, BusyMeansRunning, InsertInv, OwnedInv, StartInv,
        CloseInv, NoOrphans, DoneClosed, registryVars, serveVars, connVars, GoTo, Closers
<1> QED
  BY <1>1, <1>2, <1>3, <1>4, <1>5, <1>6, <1>7, <1>8, <1>9, <1>10, <1>11, <1>12, <1>13, <1>14, <1>15, <1>16, <1>17, <1>18, <1>19, <1>20, <1>21, <1>22, <1>23, <1>24, <1>25, <1>26, <1>27, <1>28, <1>29, <1>30, <1>31, <1>32, <1>33, <1>34, <1>35, <1>36, <1>37, <1>38
     DEF Next, ReadLoop, Closing, DecodeLoop, Serve, Background, Environment

-----------------------------------------------------------------------------
(* The two caps                                                            *)

\* A step adds at most one session, and only CreateInsert adds one.
LEMMA SessionsChange ==
  ASSUME [Next]_vars
  PROVE  \/ sessions' \subseteq sessions
         \/ \E c \in Conns : CreateInsert(c)
<1> USE DEF registryVars, serveVars, connVars
<1>1. CASE \E c \in Conns : ReadLoop(c)
  BY <1>1 DEF ReadLoop, Receive, ReadLoopCancelled, RequestReap, CreateCheck, CreateBuild,
       Lookup, Acquire, ExecReturn, Destroy, Reply, ReplyFails, ReplyBad, ReadLoopClose,
       ReadLoopDone, Unexpired
<1>2. CASE \E c \in Conns : Closing(c) \/ DecodeLoop(c)
  BY <1>2 DEF Closing, CloseRemove, CloseDrop, CloserClose, CloserNext, NotOwnedBy,
       DecodeLoop, DecodeFrame, DecodeFails, DecodeCancelled
<1>3. CASE Serve \/ Background
  BY <1>3 DEF Serve, Background, AddConn, AcceptFails, ServeSnapshot, ServeReturn, Accept,
       WatcherCloseListener, WatcherSnapshot, WatcherExit, ReapTick, ReaperExit, Unexpired
<1>4. CASE Environment
  BY <1>4 DEF Environment, Tick, Shutdown, ClientSend, ClientStall, ClientLeave
<1>5. CASE UNCHANGED vars
  BY <1>5 DEF vars
<1> QED
  BY <1>1, <1>2, <1>3, <1>4, <1>5 DEF Next

\* createSession checks the cap in the critical section that inserts.
LEMMA SessionLimitStep == IndInv /\ [Next]_vars => SessionLimit'
<1> SUFFICES ASSUME IndInv, [Next]_vars, MaxSessions > 0
             PROVE  Cardinality(sessions') <= MaxSessions
  BY DEF SessionLimit
<1>1. IsFiniteSet(sessions) /\ Cardinality(sessions) \in Nat
  BY SessionIDsFinite, FS_Subset, FS_CardinalityType DEF IndInv, TypeOK
<1>2. Cardinality(sessions) <= MaxSessions
  BY DEF IndInv, SessionLimit
<1>3. CASE sessions' \subseteq sessions
  <2>1. Cardinality(sessions') <= Cardinality(sessions) /\ Cardinality(sessions') \in Nat
    BY <1>1, <1>3, FS_Subset, FS_CardinalityType
  <2> QED
    BY <1>1, <1>2, <2>1, LimitsAssumption
<1>4. ASSUME NEW c \in Conns, CreateInsert(c)
      PROVE  Cardinality(sessions') <= MaxSessions
  <2>1. CASE SessionsFull
    BY <1>2, <1>4, <2>1 DEF CreateInsert
  <2>2. CASE ~SessionsFull
    <3>1. Cardinality(sessions) < MaxSessions
      BY <1>1, <2>2, LimitsAssumption DEF SessionsFull
    <3>2. sessions' = sessions \cup {req[c].id}
      BY <1>4, <2>2 DEF CreateInsert
    <3>3. Cardinality(sessions') \in {Cardinality(sessions), Cardinality(sessions) + 1}
      BY <1>1, <3>2, FS_AddElement
    <3> QED
      BY <1>1, <3>1, <3>3, LimitsAssumption
  <2> QED
    BY <2>1, <2>2
<1> QED
  BY <1>3, <1>4, SessionsChange

\* Only Serve adds connections, and only into a slot it has seen free.
LEMMA ConnLimitStep == IndInv /\ [Next]_vars => ConnLimit' /\ SlotInv'
<1> SUFFICES ASSUME IndInv, [Next]_vars, MaxConns > 0
             PROVE  /\ Cardinality(conns') <= MaxConns
                    /\ serving' = "insert" => Cardinality(conns') < MaxConns
  BY DEF ConnLimit, SlotInv
<1> USE DEF registryVars, serveVars, connVars
<1>1. IsFiniteSet(conns) /\ Cardinality(conns) \in Nat
  BY ConnsFinite, FS_Subset, FS_CardinalityType DEF IndInv, TypeOK
<1>2. /\ Cardinality(conns) <= MaxConns
      /\ serving = "insert" => Cardinality(conns) < MaxConns
  BY DEF IndInv, ConnLimit, SlotInv
<1>3. CASE UNCHANGED <<conns, serving>>
  BY <1>2, <1>3
<1>4. ASSUME NEW c \in Conns, CloseRemove(c)
      PROVE  /\ Cardinality(conns') <= MaxConns
             /\ serving' = "insert" => Cardinality(conns') < MaxConns
  <2>1. conns' \subseteq conns /\ serving' = serving
    BY <1>4 DEF CloseRemove
  <2>2. Cardinality(conns') <= Cardinality(conns) /\ Cardinality(conns') \in Nat
    BY <1>1, <2>1, FS_Subset, FS_CardinalityType
  <2> QED
    BY <1>1, <1>2, <2>1, <2>2, LimitsAssumption
<1>5. ASSUME NEW c \in Conns, Accept(c)
      PROVE  /\ Cardinality(conns') <= MaxConns
             /\ serving' = "insert" => Cardinality(conns') < MaxConns
  BY <1>1, <1>2, <1>5, LimitsAssumption DEF Accept, ConnsFull
<1>6. CASE AddConn
  <2>1. PICK c \in accepted : conns' = conns \cup {c}
    BY <1>6 DEF AddConn
  <2>2. Cardinality(conns') \in {Cardinality(conns), Cardinality(conns) + 1}
    BY <1>1, <2>1, FS_AddElement
  <2>3. serving = "insert" /\ serving' = "accept"
    BY <1>6 DEF AddConn
  <2> QED
    BY <1>1, <1>2, <2>2, <2>3, LimitsAssumption
<1>7. CASE AcceptFails \/ ServeSnapshot \/ ServeReturn
  BY <1>2, <1>7 DEF AcceptFails, ServeSnapshot, ServeReturn
<1>8. CASE \E c \in Conns : ReadLoop(c)
  <2>1. UNCHANGED <<conns, serving>>
    BY <1>8 DEF ReadLoop, Receive, ReadLoopCancelled, RequestReap, CreateCheck, CreateBuild,
         CreateInsert, Lookup, Acquire, ExecReturn, Destroy, Reply, ReplyFails, ReplyBad,
         ReadLoopClose, ReadLoopDone
  <2> QED
    BY <1>3, <2>1
<1>9. ASSUME NEW c \in Conns, Closing(c) \/ DecodeLoop(c), ~CloseRemove(c)
      PROVE  UNCHANGED <<conns, serving>>
  BY <1>9 DEF Closing, CloseDrop, CloserClose, CloserNext, DecodeLoop, DecodeFrame,
       DecodeFails, DecodeCancelled
<1>10. CASE Background \/ Environment
  <2>1. UNCHANGED <<conns, serving>>
    BY <1>10 DEF Background, WatcherCloseListener, WatcherSnapshot, WatcherExit, ReapTick,
         ReaperExit, Environment, Tick, Shutdown, ClientSend, ClientStall, ClientLeave
  <2> QED
    BY <1>3, <2>1
<1>11. CASE UNCHANGED vars
  BY <1>3, <1>11 DEF vars
<1> QED
  BY <1>3, <1>4, <1>5, <1>6, <1>7, <1>8, <1>9, <1>10, <1>11 DEF Next, Serve

-----------------------------------------------------------------------------
(* The theorems                                                            *)

\* The invariant holds when Serve starts.
LEMMA IndInvInit == Init => IndInv
<1> SUFFICES ASSUME Init PROVE IndInv
  OBVIOUS
<1> USE DEF Init
<1>1. TypeOK
  <2>1. 0 \in 0..SessionTTL /\ 0 \in 0..MaxInbox
    BY TTLAssumption, InboxAssumption
  <2>2. req \in [Conns -> Requests]
    BY DEF Requests, NoRequest, Methods
  <2> QED
    BY <2>1, <2>2 DEF TypeOK, ClientStates, DecodeStates, LoopStates, CloseStates, Closers
<1>2. SessionLimit /\ ConnLimit /\ SlotInv
  BY FS_EmptySet, LimitsAssumption DEF SessionLimit, ConnLimit, SlotInv
<1>3. ExecInv /\ BusyMeansRunning /\ InsertInv /\ OwnedInv /\ StartInv /\ CloseInv /\ NoOrphans
  BY DEF ExecInv, BusyMeansRunning, InsertInv, OwnedInv, StartInv, CloseInv, NoOrphans, Closers
<1> QED
  BY <1>1, <1>2, <1>3 DEF IndInv

\* The invariant is inductive.
LEMMA IndInvStep == IndInv /\ [Next]_vars => IndInv'
<1> SUFFICES ASSUME IndInv, [Next]_vars PROVE IndInv'
  OBVIOUS
<1>1. TypeOK'
  BY TypeStep DEF IndInv
<1>2. SessionLimit' /\ ConnLimit' /\ SlotInv'
  BY SessionLimitStep, ConnLimitStep
<1>3. SafetyInv'
  BY SafetyStep
<1> QED
  BY <1>1, <1>2, <1>3 DEF IndInv, SafetyInv

\* The inductive invariant holds in every reachable state of the server.
THEOREM ServerInvariant == Spec => []IndInv
  BY IndInvInit, IndInvStep, PTL DEF Spec

\* Every variable of the server keeps its type.
THEOREM TypeCorrect == Spec => []TypeOK
<1>1. IndInv => TypeOK
  BY DEF IndInv
<1> QED
  BY <1>1, ServerInvariant, PTL

\* However many session.create calls race, the registry stays within
\* Config.MaxSessions.
THEOREM SessionLimitHolds == Spec => []SessionLimit
<1>1. IndInv => SessionLimit
  BY DEF IndInv
<1> QED
  BY <1>1, ServerInvariant, PTL

\* However connections come, go and are refused, the connection table stays
\* within maxConns.
THEOREM ConnLimitHolds == Spec => []ConnLimit
<1>1. IndInv => ConnLimit
  BY DEF IndInv
<1> QED
  BY <1>1, ServerInvariant, PTL

\* A session.exec keeps its own busy, registered session until it returns or
\* its connection is closed, and no session stays busy without one.
THEOREM ExecSafe == Spec => [](ExecKeepsSession /\ BusyMeansRunning)
<1>1. IndInv => ExecKeepsSession /\ BusyMeansRunning
  BY DEF IndInv, ExecInv, ExecKeepsSession
<1> QED
  BY <1>1, ServerInvariant, PTL

\* The SESSION_BUSY branches of acquireSession and destroySession cannot be
\* taken: the session found is the connection's own, and the connection is
\* not executing.
THEOREM BusyUnreachable == Spec => []NeverBusy
<1>1. IndInv => NeverBusy
  BY DEF IndInv, ExecInv, BusyMeansRunning, NeverBusy, Visible, TypeOK
<1> QED
  BY <1>1, ServerInvariant, PTL

\* While the server is up, closing a connection leaves none of its sessions.
THEOREM NoOrphanSessions == Spec => []NoOrphans
<1>1. IndInv => NoOrphans
  BY DEF IndInv
<1> QED
  BY <1>1, ServerInvariant, PTL

-----------------------------------------------------------------------------
(* What a step may do to the registry                                      *)

\* Outside these actions no session is registered, removed, built, marked
\* busy or released.
RegistryStep(c) ==
  \/ RequestReap(c) \/ CreateBuild(c) \/ CreateInsert(c) \/ Acquire(c)
  \/ ExecReturn(c) \/ Destroy(c) \/ CloseDrop(c)

\* Nothing outside RegistryStep and the reaper touches sessions, owners or
\* busy flags.
LEMMA RegistryFrame ==
  ASSUME [Next]_vars
  PROVE  \/ UNCHANGED <<sessions, owner, busy>>
         \/ ReapTick
         \/ \E c \in Conns : RegistryStep(c)
<1> USE DEF registryVars, serveVars, connVars, RegistryStep
<1>1. CASE \E c \in Conns : ReadLoop(c)
  BY <1>1 DEF ReadLoop, Receive, ReadLoopCancelled, CreateCheck, Lookup, Reply, ReplyFails,
       ReplyBad, ReadLoopClose, ReadLoopDone
<1>2. CASE \E c \in Conns : Closing(c) \/ DecodeLoop(c)
  BY <1>2 DEF Closing, CloseRemove, CloserClose, CloserNext, DecodeLoop, DecodeFrame,
       DecodeFails, DecodeCancelled
<1>3. CASE Serve \/ Background
  BY <1>3 DEF Serve, Background, AddConn, AcceptFails, ServeSnapshot, ServeReturn, Accept,
       WatcherCloseListener, WatcherSnapshot, WatcherExit, ReaperExit
<1>4. CASE Environment
  BY <1>4 DEF Environment, Tick, Shutdown, ClientSend, ClientStall, ClientLeave
<1>5. CASE UNCHANGED vars
  BY <1>5 DEF vars
<1> QED
  BY <1>1, <1>2, <1>3, <1>4, <1>5 DEF Next

\* A session that disappears had idled for SessionTTL, was destroyed by its
\* own connection, or went with its connection.
THEOREM RemovalsJustified == Spec => RemovalJustified
<1> DEFINE Justified ==
      \A s \in sessions \ sessions' :
        LET c == owner[s]
        IN  \/ ~busy[s] /\ age[s] = SessionTTL
            \/ ~busy[s] /\ loop[c] = "destroy" /\ req[c].id = s
            \/ closing[c] = "removed"
<1>1. ASSUME IndInv, [Next]_vars PROVE Justified
  <2>1. ASSUME NEW s \in sessions, Expired(s) PROVE ~busy[s] /\ age[s] = SessionTTL
    BY <1>1, <2>1, TTLAssumption DEF IndInv, TypeOK, Expired
  <2>2. CASE sessions' = Unexpired
    BY <2>1, <2>2 DEF Unexpired
  <2>3. CASE sessions \subseteq sessions'
    BY <2>3
  <2>4. ASSUME NEW c \in Conns, Destroy(c) PROVE Justified
    BY <2>4 DEF Destroy, Visible
  <2>5. ASSUME NEW c \in Conns, CloseDrop(c) PROVE Justified
    BY <2>5 DEF CloseDrop, NotOwnedBy
  <2>6. ASSUME NEW c \in Conns, RegistryStep(c) PROVE Justified
    BY <2>2, <2>3, <2>4, <2>5, <2>6
       DEF RegistryStep, RequestReap, CreateBuild, CreateInsert, Acquire, ExecReturn
  <2>7. CASE ReapTick
    BY <2>2, <2>7 DEF ReapTick
  <2> QED
    BY <1>1, <2>3, <2>6, <2>7, RegistryFrame
<1>2. IndInv /\ [Next]_vars => [Justified]_vars
  BY <1>1
<1> QED
  BY <1>2, ServerInvariant, PTL DEF Spec, RemovalJustified

\* The server implements SessionLease: every interleaving of its goroutines
\* looks to its clients like leases granted, run, expired and revoked.
THEOREM ServerImplementsLease == Spec => ImplementsLease
<1> DEFINE run == {s \in SessionIDs : busy[s]}
<1>1. Init => Lease!LeaseInit
  BY DEF Init, Lease!LeaseInit
<1>2. ASSUME IndInv, [Next]_vars PROVE [Lease!LeaseNext]_(Lease!leaseVars)
  <2> DEFINE same == UNCHANGED <<sessions, owner, busy>>
  <2>1. ASSUME sessions' = Unexpired, UNCHANGED <<owner, busy>> PROVE Lease!LeaseNext \/ same
    <3> DEFINE S == sessions \ Unexpired
    <3>1. S \in SUBSET SessionIDs /\ S \subseteq sessions \ run /\ sessions' = sessions \ S
      BY <1>2, <2>1 DEF IndInv, TypeOK, Unexpired, Expired
    <3>2. CASE S = {}
      BY <2>1, <3>1, <3>2
    <3>3. CASE S # {}
      <4>1. Lease!Expire(S)
        BY <2>1, <3>1, <3>3 DEF Lease!Expire
      <4> QED
        BY <3>1, <4>1 DEF Lease!LeaseNext
    <3> QED
      BY <3>2, <3>3
  <2>2. ASSUME NEW c \in Conns, CreateBuild(c) PROVE Lease!LeaseNext \/ same
    BY <2>2 DEF CreateBuild, Lease!LeaseNext, Lease!Draw
  <2>3. ASSUME NEW c \in Conns, CreateInsert(c) PROVE Lease!LeaseNext \/ same
    <3>1. CASE SessionsFull
      BY <2>3, <3>1 DEF CreateInsert
    <3>2. CASE ~SessionsFull
      <4>1. PICK s \in SessionIDs :
               s = req[c].id /\ owner[s] # NoOwner /\ s \notin sessions \cup run
        BY <1>2, <2>3, NoOwnerFresh DEF IndInv, InsertInv, CreateInsert
      <4>2. Cardinality(sessions) \in Nat
        BY <1>2, SessionIDsFinite, FS_Subset, FS_CardinalityType DEF IndInv, TypeOK
      <4>3. MaxSessions > 0 => Cardinality(sessions) < MaxSessions
        BY <3>2, <4>2, LimitsAssumption DEF SessionsFull
      <4>4. sessions' = sessions \cup {s} /\ UNCHANGED <<owner, busy>>
        BY <2>3, <3>2, <4>1 DEF CreateInsert
      <4>5. Lease!Cardinality(sessions) = Cardinality(sessions)
        BY DEF Lease!Cardinality, Cardinality
      <4>6. Lease!Grant(s)
        BY <4>1, <4>3, <4>4, <4>5 DEF Lease!Grant
      <4> QED
        BY <4>6 DEF Lease!LeaseNext
    <3> QED
      BY <3>1, <3>2
  <2>4. ASSUME NEW c \in Conns, Acquire(c) PROVE Lease!LeaseNext \/ same
    <3> DEFINE s == req[c].id
    <3>1. CASE ~(Visible(c, s) /\ ~busy[s])
      BY <2>4, <3>1 DEF Acquire
    <3>2. CASE Visible(c, s) /\ ~busy[s]
      <4>1. PICK t \in SessionIDs :
               t \in sessions \ run /\ busy' = [busy EXCEPT ![t] = TRUE]
        BY <1>2, <2>4, <3>2 DEF IndInv, TypeOK, Visible, Acquire
      <4>2. run' = run \cup {t}
        BY <1>2, <4>1 DEF IndInv, TypeOK
      <4>3. Lease!Start(t)
        BY <2>4, <4>1, <4>2 DEF Lease!Start, Acquire
      <4> QED
        BY <4>3 DEF Lease!LeaseNext
    <3> QED
      BY <3>1, <3>2
  <2>5. ASSUME NEW c \in Conns, ExecReturn(c) PROVE Lease!LeaseNext \/ same
    <3>1. PICK s \in SessionIDs : s \in run /\ busy' = [busy EXCEPT ![s] = FALSE]
      BY <1>2, <2>5 DEF IndInv, ExecInv, ExecReturn
    <3>2. run' = run \ {s}
      BY <1>2, <3>1 DEF IndInv, TypeOK
    <3>3. Lease!Finish(s)
      BY <2>5, <3>1, <3>2 DEF Lease!Finish, ExecReturn
    <3> QED
      BY <3>3 DEF Lease!LeaseNext
  <2>6. ASSUME NEW c \in Conns, Destroy(c) PROVE Lease!LeaseNext \/ same
    <3> DEFINE s == req[c].id
    <3>1. CASE ~(Visible(c, s) /\ ~busy[s])
      BY <2>6, <3>1 DEF Destroy
    <3>2. CASE Visible(c, s) /\ ~busy[s]
      <4>1. {s} \in SUBSET SessionIDs /\ {s} \subseteq sessions \ run
        BY <1>2, <3>2 DEF IndInv, TypeOK, Visible
      <4>2. Lease!Expire({s})
        BY <2>6, <3>2, <4>1 DEF Lease!Expire, Destroy
      <4> QED
        BY <4>1, <4>2 DEF Lease!LeaseNext
    <3> QED
      BY <3>1, <3>2
  <2>7. ASSUME NEW c \in Conns, CloseDrop(c) PROVE Lease!LeaseNext \/ same
    <3>1. Lease!Revoke(c)
      BY <2>7 DEF Lease!Revoke, CloseDrop, NotOwnedBy
    <3> QED
      BY <3>1 DEF Lease!LeaseNext
  <2>8. ASSUME NEW c \in Conns, RegistryStep(c) PROVE Lease!LeaseNext \/ same
    <3>1. RequestReap(c) => sessions' = Unexpired /\ UNCHANGED <<owner, busy>>
      BY DEF RequestReap
    <3> QED
      BY <2>1, <2>2, <2>3, <2>4, <2>5, <2>6, <2>7, <2>8, <3>1 DEF RegistryStep
  <2>9. ASSUME ReapTick PROVE Lease!LeaseNext \/ same
    BY <2>1, <2>9 DEF ReapTick
  <2>10. Lease!LeaseNext \/ same
    BY <1>2, <2>8, <2>9, RegistryFrame
  <2>11. same => UNCHANGED Lease!leaseVars
    BY DEF Lease!leaseVars
  <2> QED
    BY <2>10, <2>11
<1> QED
  BY <1>1, <1>2, ServerInvariant, PTL DEF Spec, ImplementsLease, Lease!LeaseSpec

=============================================================================
