-------------------------- MODULE VirtualPipeProofs --------------------------
(***************************************************************************)
(* VirtualPipe for any number of readers and writers, any buffer size and  *)
(* any amount of data: types, the bound of the buffer, no lost wake-up;    *)
(* and, when one goroutine owns the write end, that the pipe implements a  *)
(* bounded FIFO channel and that end of file is final.  The second part is *)
(* about the data: while the read end is open, what was returned and what  *)
(* is buffered is exactly what Write accepted, each byte once and the      *)
(* bytes of one writer in their order.                                     *)
(***************************************************************************)
EXTENDS VirtualPipe, SequenceTheorems, FiniteSetTheorems, FunctionTheorems, TLAPS

-----------------------------------------------------------------------------
(* The inductive invariant                                                 *)

\* A Write in progress has bytes left to copy; no Write goes past its slice.
CallInv ==
  \A w \in Writers : pos[w] <= end[w] /\ (wpc[w] # "idle" => pos[w] < end[w])

\* A deadline to come has its wake-up, unless SetReadDeadline has still to
\* schedule it, and then nobody is inside Read.
ArmInv ==
  /\ setter = "superseded" => deadline # "future"
  /\ ~SharedDeadline =>
       /\ setter # "none" => \A r \in Readers : rpc[r] = "idle"
       /\ deadline = "future" /\ setter = "none" => alarm

SafetyInv ==
  /\ WriterSleepsOnlyIfBlocked
  /\ ReaderSleepsOnlyIfBlocked
  /\ BufferBounded
  /\ ArmInv

IndInv == TypeOK /\ CallInv /\ SafetyInv

\* The amount WriteCopies appends.
Amount(w) == IF end[w] - pos[w] <= Room THEN end[w] - pos[w] ELSE Room

-----------------------------------------------------------------------------
\* Broadcasting keeps the program counters of one end well typed and leaves
\* nobody asleep.
LEMMA WokenType ==
  ASSUME NEW S, NEW pc \in [S -> CallStates]
  PROVE  /\ Woken(pc) \in [S -> CallStates]
         /\ \A g \in S : Woken(pc)[g] # "waiting"
         /\ \A g \in S : Woken(pc)[g] = "idle" <=> pc[g] = "idle"
BY DEF Woken, CallStates

\* What Write copies is between one byte and the free space, within its slice.
LEMMA AmountBounds ==
  ASSUME TypeOK, CallInv, BufferBounded, NEW w \in Writers, wpc[w] # "idle", ~Full
  PROVE  /\ Amount(w) \in Nat
         /\ 1 <= Amount(w)
         /\ Amount(w) <= BufSize - Len(buf)
         /\ pos[w] + Amount(w) <= end[w]
         /\ Chunk(w, Amount(w)) \in [1..Amount(w) -> Bytes]
         /\ Chunk(w, Amount(w)) \in Seq(Bytes)
         /\ Len(Chunk(w, Amount(w))) = Amount(w)
<1>1. /\ pos[w] \in Nat /\ end[w] \in Nat /\ end[w] <= MaxBytes
      /\ pos[w] < end[w] /\ Len(buf) \in Nat /\ BufSize \in Nat /\ Len(buf) < BufSize
  BY BufSizeAssumption, MaxBytesAssumption DEF TypeOK, CallInv, Full
<1>2. Amount(w) \in Nat /\ 1 <= Amount(w) /\ Amount(w) <= BufSize - Len(buf)
      /\ pos[w] + Amount(w) <= end[w]
  BY <1>1 DEF Amount, Room
<1> DEFINE k == Amount(w)
<1> HIDE DEF k
<1>3. \A i \in 1..k : <<w, pos[w] + i>> \in Bytes
  BY <1>1, <1>2, MaxBytesAssumption DEF Bytes, k
<1>4. Chunk(w, k) \in [1..k -> Bytes]
  BY <1>3 DEF Chunk
<1>5. Chunk(w, k) \in Seq(Bytes) /\ Len(Chunk(w, k)) = k
  BY <1>2, <1>4 DEF k
<1> QED
  BY <1>2, <1>4, <1>5 DEF k

-----------------------------------------------------------------------------
\* Every step keeps the types and the slices of the calls in progress.
LEMMA TypeStep == IndInv /\ [Next]_vars => TypeOK' /\ CallInv'
<1> SUFFICES ASSUME IndInv, [Next]_vars PROVE TypeOK' /\ CallInv'
  OBVIOUS
<1> USE BufSizeAssumption, MaxBytesAssumption
<1>0. TypeOK /\ CallInv /\ BufferBounded
  BY DEF IndInv, SafetyInv
<1>w. /\ Woken(wpc) \in [Writers -> CallStates]
      /\ Woken(rpc) \in [Readers -> CallStates]
      /\ \A w \in Writers : Woken(wpc)[w] = "idle" <=> wpc[w] = "idle"
  BY <1>0, WokenType DEF TypeOK
<1>1. ASSUME NEW w \in Writers, WriteCall(w) PROVE TypeOK' /\ CallInv'
  BY <1>0, <1>1 DEF WriteCall, TypeOK, CallInv, CallStates, pipeVars, timeVars, readVars
<1>2. ASSUME NEW w \in Writers, WriteFails(w) PROVE TypeOK' /\ CallInv'
  <2>1. Rest(w, pos[w]) \subseteq Bytes
    BY <1>0 DEF Rest, Bytes, TypeOK
  <2> QED
    BY <1>0, <1>2, <2>1 DEF WriteFails, TypeOK, CallInv, CallStates, pipeVars, timeVars, readVars
<1>3. ASSUME NEW w \in Writers, WriteWaits(w) PROVE TypeOK' /\ CallInv'
  BY <1>0, <1>3 DEF WriteWaits, Active, TypeOK, CallInv, CallStates, pipeVars, timeVars, readVars
<1>4. ASSUME NEW w \in Writers, WriteCopies(w) PROVE TypeOK' /\ CallInv'
  <2>0. wpc[w] # "idle" /\ ~Full
    BY <1>4 DEF WriteCopies, Active
  <2> DEFINE k == Amount(w)
  <2>1. /\ k \in Nat /\ 1 <= k /\ pos[w] + k <= end[w]
        /\ Chunk(w, k) \in Seq(Bytes)
    BY <1>0, <2>0, AmountBounds
  <2>2. /\ buf' = buf \o Chunk(w, k)
        /\ wpc' = [Woken(wpc) EXCEPT ![w] = IF pos[w] + k = end[w] \/ wrClosed THEN "idle" ELSE "waiting"]
        /\ pos' = [pos EXCEPT ![w] = IF wrClosed THEN end[w] ELSE pos[w] + k]
        /\ lost' = (IF wrClosed THEN lost \cup Rest(w, pos[w] + k) ELSE lost)
        /\ rpc' = Woken(rpc)
        /\ UNCHANGED <<closed, wrClosed, deadline, setter, alarm, stale, end, got, eof>>
    BY <1>4 DEF WriteCopies, Amount, timeVars
  <2> HIDE DEF k
  <2>3. buf' \in Seq(Bytes)
    BY <1>0, <2>1, <2>2 DEF TypeOK
  <2>4. Rest(w, pos[w] + k) \subseteq Bytes
    BY <1>0, <2>1 DEF Rest, Bytes, TypeOK
  <2>5. TypeOK'
    BY <1>0, <1>w, <2>1, <2>2, <2>3, <2>4 DEF TypeOK, CallStates
  <2>6. ASSUME NEW v \in Writers
        PROVE  pos'[v] <= end'[v] /\ (wpc'[v] # "idle" => pos'[v] < end'[v])
    <3>1. CASE v # w
      BY <1>0, <1>w, <2>2, <3>1 DEF TypeOK, CallInv
    <3>2. CASE v = w
      <4>1. wpc'[w] = (IF pos[w] + k = end[w] \/ wrClosed THEN "idle" ELSE "waiting")
        BY <1>w, <2>2
      <4>2. pos'[w] = (IF wrClosed THEN end[w] ELSE pos[w] + k) /\ end' = end
        BY <1>0, <2>2 DEF TypeOK
      <4>3. pos[w] \in Nat /\ end[w] \in Nat
        BY <1>0 DEF TypeOK
      <4> QED
        BY <2>1, <3>2, <4>1, <4>2, <4>3
    <3> QED
      BY <3>1, <3>2
  <2> QED
    BY <2>5, <2>6 DEF CallInv
<1>5. ASSUME NEW w \in Writers, WriterClose(w) \/ WriterCloseWithError(w)
      PROVE  TypeOK' /\ CallInv'
  <2>1. <<>> \in Seq(Bytes)
    OBVIOUS
  <2>2. CASE WriterClose(w)
    BY <1>0, <1>w, <2>2 DEF WriterClose, TypeOK, CallInv, timeVars
  <2>3. CASE WriterCloseWithError(w)
    BY <1>0, <1>w, <2>1, <2>3 DEF WriterCloseWithError, TypeOK, CallInv, timeVars
  <2> QED
    BY <1>5, <2>2, <2>3
<1>6. ASSUME NEW r \in Readers, ReadCall(r) \/ ReadFails(r) \/ ReadWaits(r)
      PROVE  TypeOK' /\ CallInv'
  BY <1>0, <1>6
     DEF ReadCall, ReadFails, ReadWaits, TypeOK, CallInv, CallStates, pipeVars, timeVars, writeVars
<1>7. ASSUME NEW r \in Readers, ReadReturns(r) PROVE TypeOK' /\ CallInv'
  <2>1. PICK n \in 1..Len(buf) : got' = got \o SubSeq(buf, 1, n) /\ buf' = Unread(n)
    BY <1>7 DEF ReadReturns
  <2>2. SubSeq(buf, 1, n) \in Seq(Bytes) /\ SubSeq(buf, n + 1, Len(buf)) \in Seq(Bytes)
    BY <1>0, <2>1 DEF TypeOK
  <2>3. got' \in Seq(Bytes) /\ buf' \in Seq(Bytes)
    BY <1>0, <2>1, <2>2 DEF TypeOK, Unread
  <2> QED
    BY <1>0, <1>w, <1>7, <2>3 DEF ReadReturns, TypeOK, CallInv, CallStates, timeVars
<1>8. ASSUME NEW r \in Readers, ReaderClose(r) PROVE TypeOK' /\ CallInv'
  BY <1>0, <1>w, <1>8 DEF ReaderClose, TypeOK, CallInv, timeVars
<1>9. CASE SetDeadline
  BY <1>0, <1>w, <1>9 DEF SetDeadline, TypeOK, CallInv, pipeVars
<1>10. CASE ScheduleWake \/ DeadlinePasses
  BY <1>0, <1>10 DEF ScheduleWake, DeadlinePasses, TypeOK, CallInv, pipeVars, writeVars, readVars
<1>11. CASE WakeUp
  BY <1>0, <1>w, <1>11 DEF WakeUp, TypeOK, CallInv, pipeVars
<1>12. CASE UNCHANGED vars
  BY <1>0, <1>12 DEF vars, pipeVars, timeVars, writeVars, readVars, TypeOK, CallInv
<1> QED
  BY <1>1, <1>2, <1>3, <1>4, <1>5, <1>6, <1>7, <1>8, <1>9, <1>10, <1>11, <1>12
     DEF Next, WriteStep, ReadStep

-----------------------------------------------------------------------------
\* Every step keeps the sleepers' conditions, the bound of the buffer and the
\* arming of deadlines.
LEMMA SafetyStep == IndInv /\ [Next]_vars => SafetyInv'
<1> SUFFICES ASSUME IndInv, [Next]_vars PROVE SafetyInv'
  OBVIOUS
<1> USE BufSizeAssumption, SharedDeadlineAssumption
<1>0. TypeOK /\ CallInv /\ WriterSleepsOnlyIfBlocked /\ ReaderSleepsOnlyIfBlocked
      /\ BufferBounded /\ ArmInv
  BY DEF IndInv, SafetyInv
<1>w. /\ \A w \in Writers : Woken(wpc)[w] # "waiting"
      /\ \A r \in Readers : Woken(rpc)[r] # "waiting"
      /\ \A r \in Readers : Woken(rpc)[r] = "idle" <=> rpc[r] = "idle"
      /\ Woken(wpc) \in [Writers -> CallStates]
      /\ Woken(rpc) \in [Readers -> CallStates]
  BY <1>0, WokenType DEF TypeOK
<1> USE DEF WriterSleepsOnlyIfBlocked, ReaderSleepsOnlyIfBlocked, BufferBounded, ArmInv, Full, Late
<1>1. ASSUME NEW w \in Writers, WriteCall(w) \/ WriteFails(w) \/ WriteWaits(w)
      PROVE  SafetyInv'
  BY <1>0, <1>1 DEF WriteCall, WriteFails, WriteWaits, SafetyInv, TypeOK, pipeVars, timeVars, readVars
<1>4. ASSUME NEW w \in Writers, WriteCopies(w) PROVE SafetyInv'
  <2>0. wpc[w] # "idle" /\ ~Full /\ ~closed
    BY <1>4 DEF WriteCopies, Active
  <2> DEFINE k == Amount(w)
  <2>1. /\ k \in Nat /\ 1 <= k /\ k <= BufSize - Len(buf) /\ pos[w] + k <= end[w]
        /\ Chunk(w, k) \in Seq(Bytes) /\ Len(Chunk(w, k)) = k
    BY <1>0, <2>0, AmountBounds
  <2>2. /\ buf' = buf \o Chunk(w, k)
        /\ wpc' = [Woken(wpc) EXCEPT ![w] = IF pos[w] + k = end[w] \/ wrClosed THEN "idle" ELSE "waiting"]
        /\ rpc' = Woken(rpc)
        /\ UNCHANGED <<closed, wrClosed, deadline, setter, alarm, stale>>
    BY <1>4 DEF WriteCopies, Amount, timeVars
  <2>3. pos[w] + k # end[w] => k = BufSize - Len(buf)
    BY <1>0, <2>0 DEF Amount, Room, TypeOK
  <2> HIDE DEF k
  <2>4. Len(buf') = Len(buf) + k /\ Len(buf) \in Nat
    <3>1. buf \in Seq(Bytes)
      BY <1>0 DEF TypeOK
    <3>2. Len(buf \o Chunk(w, k)) = Len(buf) + Len(Chunk(w, k))
      BY <2>1, <3>1, ConcatProperties
    <3>3. Len(buf) \in Nat
      BY <3>1
    <3> QED
      BY <2>1, <2>2, <3>2, <3>3
  <2>5. BufferBounded'
    BY <2>1, <2>4
  <2>6. WriterSleepsOnlyIfBlocked'
    BY <1>w, <2>0, <2>2, <2>3, <2>4
  <2>7. ReaderSleepsOnlyIfBlocked' /\ ArmInv'
    BY <1>0, <1>w, <2>2
  <2> QED
    BY <2>5, <2>6, <2>7 DEF SafetyInv
<1>5. ASSUME NEW w \in Writers, WriterClose(w) \/ WriterCloseWithError(w)
      PROVE  SafetyInv'
  BY <1>0, <1>w, <1>5 DEF WriterClose, WriterCloseWithError, SafetyInv, TypeOK, timeVars
<1>6. ASSUME NEW r \in Readers, ReadCall(r) \/ ReadFails(r) \/ ReadWaits(r)
      PROVE  SafetyInv'
  BY <1>0, <1>6
     DEF ReadCall, ReadFails, ReadWaits, Active, SafetyInv, TypeOK, pipeVars, timeVars, writeVars
<1>7. ASSUME NEW r \in Readers, ReadReturns(r) PROVE SafetyInv'
  <2>1. PICK n \in 1..Len(buf) : buf' = SubSeq(buf, n + 1, Len(buf))
    BY <1>7 DEF ReadReturns, Unread
  <2>2. Len(buf') <= BufSize
    BY <1>0, <2>1 DEF TypeOK
  <2> QED
    BY <1>0, <1>w, <1>7, <2>2 DEF ReadReturns, SafetyInv, TypeOK, timeVars
<1>8. ASSUME NEW r \in Readers, ReaderClose(r) PROVE SafetyInv'
  BY <1>0, <1>w, <1>8 DEF ReaderClose, SafetyInv, TypeOK, timeVars
<1>9. CASE SetDeadline
  BY <1>0, <1>w, <1>9 DEF SetDeadline, SafetyInv, TypeOK, pipeVars
<1>10. CASE ScheduleWake
  BY <1>0, <1>10 DEF ScheduleWake, SafetyInv, TypeOK, pipeVars, writeVars, readVars
<1>11. CASE DeadlinePasses
  BY <1>0, <1>11 DEF DeadlinePasses, SafetyInv, TypeOK, pipeVars, writeVars, readVars
<1>12. CASE WakeUp
  BY <1>0, <1>w, <1>12 DEF WakeUp, SafetyInv, TypeOK, pipeVars
<1>13. CASE UNCHANGED vars
  BY <1>0, <1>13 DEF vars, pipeVars, timeVars, writeVars, readVars, SafetyInv
<1> QED
  BY <1>1, <1>4, <1>5, <1>6, <1>7, <1>8, <1>9, <1>10, <1>11, <1>12, <1>13
     DEF Next, WriteStep, ReadStep

-----------------------------------------------------------------------------
\* The invariant holds initially.
LEMMA IndInvInit == Init => IndInv
<1> SUFFICES ASSUME Init PROVE IndInv
  OBVIOUS
<1> USE BufSizeAssumption, MaxBytesAssumption DEF Init
<1>1. buf \in Seq(Bytes) /\ got \in Seq(Bytes) /\ Len(buf) = 0
  BY EmptySeq
<1>2. TypeOK
  <2>1. 0 \in 0..MaxBytes
    OBVIOUS
  <2>2. pos \in [Writers -> 0..MaxBytes] /\ end \in [Writers -> 0..MaxBytes]
    BY <2>1
  <2>3. wpc \in [Writers -> CallStates] /\ rpc \in [Readers -> CallStates]
    BY DEF CallStates
  <2> QED
    BY <1>1, <2>2, <2>3 DEF TypeOK
<1>3. CallInv
  BY DEF CallInv
<1>4. SafetyInv
  BY <1>1 DEF SafetyInv, WriterSleepsOnlyIfBlocked, ReaderSleepsOnlyIfBlocked, BufferBounded, ArmInv
<1> QED
  BY <1>2, <1>3, <1>4 DEF IndInv

\* The inductive invariant of the pipe.
THEOREM PipeInvariant == Spec => []IndInv
<1>1. IndInv /\ [Next]_vars => IndInv'
  BY TypeStep, SafetyStep DEF IndInv
<1> QED
  BY IndInvInit, <1>1, PTL DEF Spec

\* Every variable of the pipe keeps its type.
THEOREM TypeCorrect == Spec => []TypeOK
BY PipeInvariant, PTL DEF IndInv

\* However many goroutines share the write end, the buffer stays within
\* bufSize.
THEOREM BufferStaysBounded == Spec => []BufferBounded
BY PipeInvariant, PTL DEF IndInv, SafetyInv

\* Write never misses a broadcast: no writer sleeps that could go on.
THEOREM WritersNotForgotten == Spec => []WriterSleepsOnlyIfBlocked
BY PipeInvariant, PTL DEF IndInv, SafetyInv

\* Read never misses a broadcast: no reader sleeps that could go on, and one
\* past its deadline has a wake-up coming.
THEOREM ReadersNotForgotten == Spec => []ReaderSleepsOnlyIfBlocked
BY PipeInvariant, PTL DEF IndInv, SafetyInv

-----------------------------------------------------------------------------
(* One goroutine at the write end                                          *)

SoleWriter == \A v, w \in Writers : v = w

\* Once the only writer has closed its end it is never inside the wait loop
\* of Write, so no byte follows the end of file.
SoleInv ==
  /\ wrClosed => \A w \in Writers : wpc[w] \in {"idle", "start"}
  /\ eof => closed \/ AtEOF

\* With one writer SoleInv is invariant.
LEMMA SoleInvariant == ASSUME SoleWriter PROVE Spec => []SoleInv
<1>1. Init => SoleInv
  BY DEF Init, SoleInv
<1>2. IndInv /\ SoleInv /\ [Next]_vars => SoleInv'
  <2> SUFFICES ASSUME IndInv, SoleInv, [Next]_vars PROVE SoleInv'
    OBVIOUS
  <2>0. TypeOK
    BY DEF IndInv
  <2>w. \A w \in Writers : /\ Woken(wpc)[w] = "idle" <=> wpc[w] = "idle"
                           /\ wpc[w] = "start" => Woken(wpc)[w] = "start"
    BY <2>0 DEF Woken, TypeOK
  <2> USE DEF SoleInv, AtEOF
  <2>1. ASSUME NEW w \in Writers, WriteCall(w) \/ WriteFails(w) \/ WriteWaits(w)
        PROVE  SoleInv'
    <3>1. UNCHANGED <<buf, closed, wrClosed, eof>>
      BY <2>1 DEF WriteCall, WriteFails, WriteWaits, pipeVars, readVars
    <3>2. wrClosed => wpc' \in {[wpc EXCEPT ![w] = "start"], [wpc EXCEPT ![w] = "idle"]}
      BY <2>1 DEF WriteCall, WriteFails, WriteWaits
    <3>3. wrClosed => \A v \in Writers : wpc'[v] \in {"idle", "start"}
      BY <2>0, <3>2 DEF TypeOK
    <3> QED
      BY <3>1, <3>3
  <2>2. ASSUME NEW w \in Writers, WriteCopies(w) PROVE SoleInv'
    <3>1. ~closed /\ ~wrClosed /\ UNCHANGED <<closed, wrClosed, eof>>
      BY <2>2 DEF WriteCopies, Active
    <3> QED
      BY <3>1
  <2>3. ASSUME NEW w \in Writers, WriterClose(w) \/ WriterCloseWithError(w)
        PROVE  SoleInv'
    <3>1. \A v \in Writers : wpc[v] = "idle"
      BY <2>3, SoleWriter DEF SoleWriter, WriterClose, WriterCloseWithError
    <3>2. wpc' = Woken(wpc) /\ eof' = eof /\ ((closed' = closed /\ buf' = buf) \/ closed')
      BY <2>3 DEF WriterClose, WriterCloseWithError
    <3> QED
      BY <2>3, <2>w, <3>1, <3>2 DEF WriterClose, WriterCloseWithError
  <2>4. ASSUME NEW r \in Readers, ReadCall(r) \/ ReadFails(r) \/ ReadWaits(r)
        PROVE  SoleInv'
    <3>1. UNCHANGED <<buf, closed, wrClosed, wpc>> /\ (eof' = eof \/ AtEOF)
      BY <2>0, <2>4 DEF ReadCall, ReadFails, ReadWaits, pipeVars, writeVars, TypeOK
    <3> QED
      BY <3>1
  <2>5. ASSUME NEW r \in Readers, ReadReturns(r) PROVE SoleInv'
    <3>1. buf # <<>> /\ ~closed
      BY <2>0, <2>5 DEF ReadReturns, TypeOK
    <3>2. ~eof
      BY <3>1
    <3> QED
      BY <2>5, <2>w, <3>2 DEF ReadReturns
  <2>6. ASSUME NEW r \in Readers, ReaderClose(r) PROVE SoleInv'
    BY <2>6, <2>w DEF ReaderClose
  <2>7. CASE SetDeadline \/ WakeUp
    BY <2>7, <2>w DEF SetDeadline, WakeUp, pipeVars
  <2>8. CASE ScheduleWake \/ DeadlinePasses
    <3>1. UNCHANGED <<buf, closed, wrClosed, wpc, eof>>
      BY <2>8 DEF ScheduleWake, DeadlinePasses, pipeVars, writeVars, readVars
    <3> QED
      BY <3>1
  <2>9. CASE UNCHANGED vars
    BY <2>9 DEF vars, pipeVars, timeVars, writeVars, readVars
  <2> QED
    BY <2>1, <2>2, <2>3, <2>4, <2>5, <2>6, <2>7, <2>8, <2>9 DEF Next, WriteStep, ReadStep
<1> QED
  BY <1>1, <1>2, PipeInvariant, PTL DEF Spec

\* With one goroutine at the write end, no Read returns data once a Read has
\* returned io.EOF.
THEOREM SoleWriterEOFIsFinal == ASSUME SoleWriter PROVE Spec => EOFIsFinal
<1>1. IndInv /\ SoleInv /\ [Next]_vars => [eof => got' = got]_vars
  <2> SUFFICES ASSUME IndInv, SoleInv, Next, eof PROVE got' = got
    OBVIOUS
  <2>1. ASSUME NEW r \in Readers, ReadReturns(r) PROVE FALSE
    <3>1. buf # <<>> /\ ~closed
      BY <2>1 DEF ReadReturns, IndInv, TypeOK
    <3> QED
      BY <3>1 DEF SoleInv, AtEOF
  <2>2. ASSUME NEW w \in Writers,
               WriteCall(w) \/ WriteStep(w) \/ WriterClose(w) \/ WriterCloseWithError(w)
        PROVE  got' = got
    BY <2>2 DEF WriteCall, WriteStep, WriteFails, WriteWaits, WriteCopies, WriterClose,
                WriterCloseWithError, readVars
  <2>3. ASSUME NEW r \in Readers, ReadCall(r) \/ ReadFails(r) \/ ReadWaits(r) \/ ReaderClose(r)
        PROVE  got' = got
    BY <2>3 DEF ReadCall, ReadFails, ReadWaits, ReaderClose
  <2>4. CASE SetDeadline \/ ScheduleWake \/ DeadlinePasses \/ WakeUp
    BY <2>4 DEF SetDeadline, ScheduleWake, DeadlinePasses, WakeUp, readVars
  <2> QED
    BY <2>1, <2>2, <2>3, <2>4 DEF Next, ReadStep
<1> QED
  BY <1>1, PipeInvariant, SoleInvariant, PTL DEF Spec, EOFIsFinal

\* With one goroutine at the write end, the pipe is a bounded first-in
\* first-out channel: whatever is written is read once and in order.
THEOREM SoleWriterIsChannel == ASSUME SoleWriter PROVE Spec => ImplementsChannel
<1>1. Init => Channel!ChannelInit
  BY DEF Init, Channel!ChannelInit
<1>2. IndInv /\ SoleInv /\ [Next]_vars => [Channel!ChannelNext]_(Channel!channelVars)
  <2> SUFFICES ASSUME IndInv, SoleInv, [Next]_vars
               PROVE  Channel!ChannelNext \/ UNCHANGED <<buf, got, closed, wrClosed>>
    BY DEF Channel!channelVars
  <2>0. TypeOK /\ CallInv /\ BufferBounded
    BY DEF IndInv, SafetyInv
  <2>1. ASSUME NEW w \in Writers, WriteCopies(w) PROVE Channel!Put
    <3>0. ~closed /\ ~wrClosed /\ wpc[w] # "idle" /\ ~Full
      BY <2>1 DEF WriteCopies, Active, SoleInv
    <3> DEFINE k == Amount(w)
    <3>1. k \in Nat /\ 1 <= k /\ k <= BufSize - Len(buf) /\ Chunk(w, k) \in [1..k -> Bytes]
      BY <2>0, <3>0, AmountBounds
    <3>2. buf' = buf \o Chunk(w, k) /\ UNCHANGED <<closed, wrClosed, got>>
      BY <2>1 DEF WriteCopies, Amount
    <3> HIDE DEF k
    <3>3. k \in 1..(BufSize - Len(buf))
      BY <2>0, <3>1, BufSizeAssumption DEF TypeOK
    <3> QED
      BY <3>0, <3>1, <3>2, <3>3 DEF Channel!Put
  <2>2. ASSUME NEW r \in Readers, ReadReturns(r) PROVE Channel!Take
    BY <2>2 DEF ReadReturns, Unread, Channel!Take
  <2>3. ASSUME NEW w \in Writers, WriterClose(w) PROVE Channel!CloseWrite
    BY <2>3 DEF WriterClose, Channel!CloseWrite
  <2>4. ASSUME NEW w \in Writers, WriterCloseWithError(w) PROVE Channel!Discard
    BY <2>4 DEF WriterCloseWithError, Channel!Discard
  <2>5. ASSUME NEW r \in Readers, ReaderClose(r) PROVE Channel!Discard
    BY <2>5 DEF ReaderClose, Channel!Discard
  <2>6. ASSUME NEW w \in Writers, WriteCall(w) \/ WriteFails(w) \/ WriteWaits(w)
        PROVE  UNCHANGED <<buf, got, closed, wrClosed>>
    BY <2>6 DEF WriteCall, WriteFails, WriteWaits, pipeVars, readVars
  <2>7. ASSUME NEW r \in Readers, ReadCall(r) \/ ReadFails(r) \/ ReadWaits(r)
        PROVE  UNCHANGED <<buf, got, closed, wrClosed>>
    BY <2>7 DEF ReadCall, ReadFails, ReadWaits, pipeVars
  <2>8. CASE SetDeadline \/ ScheduleWake \/ DeadlinePasses \/ WakeUp
    BY <2>8 DEF SetDeadline, ScheduleWake, DeadlinePasses, WakeUp, pipeVars, readVars
  <2>9. CASE UNCHANGED vars
    BY <2>9 DEF vars, pipeVars, readVars
  <2> QED
    BY <2>1, <2>2, <2>3, <2>4, <2>5, <2>6, <2>7, <2>8, <2>9
       DEF Next, WriteStep, ReadStep, Channel!ChannelNext
<1> QED
  BY <1>1, <1>2, PipeInvariant, SoleInvariant, PTL DEF Spec, ImplementsChannel, Channel!ChannelSpec

-----------------------------------------------------------------------------
\* What has been returned, then what is buffered.
Through == got \o buf

Elements(s) == {s[i] : i \in DOMAIN s}

\* The bytes that Write calls have dealt with.
Accepted == UNION {{<<w, i>> : i \in 1..pos[w]} : w \in Writers}

\* The bytes of one writer are in order.
Ordered(s) ==
  \A i, j \in 1..Len(s) : i < j /\ s[i][1] = s[j][1] => s[i][2] < s[j][2]

DataInv ==
  /\ closed => buf = <<>>
  /\ Ordered(Through)
  /\ Elements(Through) \subseteq Accepted
  /\ lost \subseteq Accepted
  /\ ~closed => Elements(Through) = Accepted \ lost

-----------------------------------------------------------------------------
LEMMA AcceptedFacts ==
  ASSUME NEW v, NEW i
  PROVE  <<v, i>> \in Accepted <=> v \in Writers /\ i \in 1..pos[v]
BY DEF Accepted

LEMMA ThroughType ==
  ASSUME TypeOK
  PROVE  /\ Through \in Seq(Bytes) /\ Len(Through) \in Nat
         /\ Len(Through) = Len(got) + Len(buf)
         /\ DOMAIN Through = 1..Len(Through)
         /\ \A i \in 1..Len(got) : Through[i] = got[i]
<1>1. got \in Seq(Bytes) /\ buf \in Seq(Bytes) /\ Len(got) \in Nat /\ Len(buf) \in Nat
  BY DEF TypeOK
<1>2. /\ got \o buf \in Seq(Bytes) /\ Len(got \o buf) = Len(got) + Len(buf)
      /\ \A i \in 1..(Len(got) + Len(buf)) : (got \o buf)[i] =
           IF i <= Len(got) THEN got[i] ELSE buf[i - Len(got)]
  BY <1>1, ConcatProperties
<1>3. \A i \in 1..Len(got) : (got \o buf)[i] = got[i]
  BY <1>1, <1>2
<1>4. DOMAIN (got \o buf) = 1..Len(got \o buf)
  BY <1>2, LenProperties
<1> QED BY <1>1, <1>2, <1>3, <1>4 DEF Through

\* In a sequence that is in order no byte occurs twice.
LEMMA OrderedIsInjective ==
  ASSUME NEW s \in Seq(Bytes), Ordered(s)
  PROVE  Len(s) = Cardinality(Elements(s))
<1>1. Len(s) \in Nat /\ DOMAIN s = 1..Len(s) /\ s \in [1..Len(s) -> Bytes]
  BY LenProperties
<1>2. \A i \in 1..Len(s) : s[i][2] \in Nat
  BY <1>1, MaxBytesAssumption DEF Bytes
<1>3. ASSUME NEW i \in 1..Len(s), NEW j \in 1..Len(s), s[i] = s[j] PROVE i = j
  <2>1. ~(i < j) /\ ~(j < i)
    BY <1>2, <1>3 DEF Ordered
  <2> QED BY <1>1, <2>1
<1>4. s \in [1..Len(s) -> Elements(s)] /\ \A x \in Elements(s) : \E i \in 1..Len(s) : s[i] = x
  BY <1>1 DEF Elements
<1>5. s \in Bijection(1..Len(s), Elements(s))
  BY <1>3, <1>4, Fun_IsBij
<1>6. ExistsBijection(1..Len(s), Elements(s))
  BY <1>5, Fun_ExistsBij
<1>7. IsFiniteSet(1..Len(s)) /\ Cardinality(1..Len(s)) = Len(s)
  BY <1>1, FS_Interval
<1> QED BY <1>6, <1>7, FS_Bijection

-----------------------------------------------------------------------------
\* A step that moves no data and settles no byte.
LEMMA DataUnchanged ==
  ASSUME DataInv, UNCHANGED <<buf, got, pos, lost, closed>>
  PROVE  DataInv'
<1>1. Through' = Through /\ Accepted' = Accepted
  BY DEF Through, Accepted
<1> QED BY <1>1 DEF DataInv, Elements, Ordered

\* Discarding the buffer keeps what was returned.
LEMMA DiscardStep ==
  ASSUME TypeOK, DataInv, buf' = <<>>, closed', UNCHANGED <<got, pos, lost>>
  PROVE  DataInv'
<1>1. /\ Through \in Seq(Bytes) /\ Len(Through) \in Nat /\ Len(Through) = Len(got) + Len(buf)
      /\ DOMAIN Through = 1..Len(Through) /\ \A i \in 1..Len(got) : Through[i] = got[i]
  BY ThroughType
<1>2. got \in Seq(Bytes) /\ Len(got) \in Nat /\ Len(buf) \in Nat /\ DOMAIN got = 1..Len(got)
  BY LenProperties DEF TypeOK
<1>3. Through' = got
  BY <1>2, ConcatEmptySeq DEF Through
<1>4. 1..Len(got) \subseteq 1..Len(Through)
  BY <1>1, <1>2
<1>5. Ordered(got)
  BY <1>1, <1>4 DEF DataInv, Ordered
<1>6. Elements(got) \subseteq Elements(Through)
  BY <1>1, <1>2, <1>4 DEF Elements
<1>7. Accepted' = Accepted
  BY DEF Accepted
<1> QED BY <1>3, <1>5, <1>6, <1>7 DEF DataInv

\* A Write that fails gives up the rest of its slice.
LEMMA FailStep ==
  ASSUME TypeOK, CallInv, DataInv, NEW w \in Writers, WriteFails(w)
  PROVE  DataInv'
<1>1. /\ pos' = [pos EXCEPT ![w] = end[w]] /\ lost' = lost \cup Rest(w, pos[w])
      /\ UNCHANGED <<buf, got, closed>>
  BY DEF WriteFails, pipeVars, readVars
<1>2. /\ pos[w] \in Nat /\ end[w] \in Nat /\ pos[w] <= end[w]
      /\ pos \in [Writers -> 0..MaxBytes]
  BY MaxBytesAssumption DEF TypeOK, CallInv
<1>3. Accepted' = Accepted \cup Rest(w, pos[w])
  <2>1. ASSUME NEW v \in Writers
        PROVE  {<<v, i>> : i \in 1..pos'[v]}
                 = {<<v, i>> : i \in 1..pos[v]} \cup (IF v = w THEN Rest(w, pos[w]) ELSE {})
    <3>1. CASE v = w
      BY <1>1, <1>2, <3>1 DEF Rest
    <3>2. CASE v # w
      BY <1>1, <1>2, <3>2
    <3> QED BY <3>1, <3>2
  <2> QED BY <2>1 DEF Accepted
<1>4. Accepted \cap Rest(w, pos[w]) = {}
  BY <1>2, AcceptedFacts DEF Rest
<1>5. Through' = Through
  BY <1>1 DEF Through
<1> QED BY <1>1, <1>3, <1>4, <1>5 DEF DataInv

\* A Read moves bytes from the buffer to its caller.
LEMMA TakeStep ==
  ASSUME TypeOK, DataInv, NEW r \in Readers, ReadReturns(r)
  PROVE  DataInv'
<1>1. PICK n \in 1..Len(buf) : got' = got \o SubSeq(buf, 1, n) /\ buf' = SubSeq(buf, n + 1, Len(buf))
  BY DEF ReadReturns, Unread
<1>2. ~closed /\ UNCHANGED <<closed, pos, lost>>
  BY DEF ReadReturns
<1>3. buf \in Seq(Bytes) /\ got \in Seq(Bytes) /\ Len(buf) \in Nat
  BY DEF TypeOK
<1>4. SubSeq(buf, 1, n) \in Seq(Bytes) /\ SubSeq(buf, n + 1, Len(buf)) \in Seq(Bytes)
  BY <1>1, <1>3
<1>5. SubSeq(buf, 1, n) \o SubSeq(buf, n + 1, Len(buf)) = buf
  <2>1. 1 \in 1..(Len(buf) + 1) /\ n \in (1 - 1)..Len(buf) /\ Len(buf) \in n..Len(buf)
    BY <1>1, <1>3
  <2>2. SubSeq(buf, 1, n) \o SubSeq(buf, n + 1, Len(buf)) = SubSeq(buf, 1, Len(buf))
    BY <1>3, <2>1, ConcatAdjacentSubSeq
  <2> QED BY <1>3, <2>2, SubSeqFull
<1>6. Through' = Through
  <2> DEFINE head == SubSeq(buf, 1, n)
             tail == SubSeq(buf, n + 1, Len(buf))
  <2>1. Through' = (got \o head) \o tail
    BY <1>1 DEF Through
  <2>2. head \o tail = buf
    BY <1>5
  <2>3. got \in Seq(Bytes) /\ head \in Seq(Bytes) /\ tail \in Seq(Bytes)
    BY <1>3, <1>4
  <2> HIDE DEF head, tail
  <2>4. (got \o head) \o tail = got \o (head \o tail)
    BY <2>3, ConcatAssociative, SMTT(30)
  <2> QED BY <2>1, <2>2, <2>4 DEF Through
<1>7. Accepted' = Accepted
  BY <1>2 DEF Accepted
<1> QED BY <1>2, <1>6, <1>7 DEF DataInv

\* A Write appends the next bytes of its slice, and gives up what is left of
\* it if the write end is closed.
LEMMA CopyStep ==
  ASSUME TypeOK, CallInv, BufferBounded, DataInv, NEW w \in Writers, WriteCopies(w)
  PROVE  DataInv'
<1>0. wpc[w] # "idle" /\ ~Full /\ ~closed
  BY DEF WriteCopies, Active
<1> DEFINE k == Amount(w)
           n == Len(Through)
           new == {<<w, i>> : i \in (pos[w] + 1)..(pos[w] + k)}
<1>1. /\ k \in Nat /\ 1 <= k /\ pos[w] + k <= end[w]
      /\ Chunk(w, k) \in Seq(Bytes) /\ Len(Chunk(w, k)) = k
  BY <1>0, AmountBounds
<1>2. /\ buf' = buf \o Chunk(w, k)
      /\ pos' = [pos EXCEPT ![w] = IF wrClosed THEN end[w] ELSE pos[w] + k]
      /\ lost' = (IF wrClosed THEN lost \cup Rest(w, pos[w] + k) ELSE lost)
      /\ UNCHANGED <<closed, got>>
  BY DEF WriteCopies, Amount
<1>3. \A i \in 1..k : Chunk(w, k)[i] = <<w, pos[w] + i>>
  BY DEF Chunk
<1> HIDE DEF k
<1>4. /\ pos[w] \in Nat /\ end[w] \in Nat /\ pos \in [Writers -> 0..MaxBytes]
      /\ buf \in Seq(Bytes) /\ got \in Seq(Bytes)
  BY MaxBytesAssumption DEF TypeOK
<1>5. /\ Through \in Seq(Bytes) /\ n \in Nat /\ DOMAIN Through = 1..n
  BY ThroughType
<1>6. Through' = Through \o Chunk(w, k)
  <2>1. Through' = got \o (buf \o Chunk(w, k))
    BY <1>2 DEF Through
  <2>2. Through' = (got \o buf) \o Chunk(w, k)
    BY <1>1, <1>4, <2>1, ConcatAssociative, SMTT(30)
  <2> QED BY <2>2 DEF Through
<1>7. /\ Through' \in Seq(Bytes) /\ Len(Through') = n + k
      /\ \A i \in 1..(n + k) : Through'[i] = IF i <= n THEN Through[i] ELSE Chunk(w, k)[i - n]
  BY <1>1, <1>5, <1>6, ConcatProperties, ZenonT(40)
<1>8. DOMAIN Through' = 1..(n + k)
  BY <1>7, LenProperties
<1> HIDE DEF n
<1>9. /\ \A i \in 1..n : i \in 1..(n + k) /\ Through'[i] = Through[i]
      /\ \A i \in (n + 1)..(n + k) :
           i \in 1..(n + k) /\ i - n \in 1..k /\ Through'[i] = <<w, pos[w] + (i - n)>>
  BY <1>1, <1>3, <1>5, <1>7
<1>10. \A i \in 1..n : Through[i] = <<Through[i][1], Through[i][2]>> /\ Through[i][2] \in Nat
  BY <1>5, MaxBytesAssumption DEF Bytes
<1>11. Ordered(Through')
  <2> SUFFICES ASSUME NEW i \in 1..(n + k), NEW j \in 1..(n + k), i < j,
                      Through'[i][1] = Through'[j][1]
               PROVE  Through'[i][2] < Through'[j][2]
    BY <1>7 DEF Ordered
  <2>1. CASE j <= n
    <3>1. i \in 1..n /\ j \in 1..n
      BY <1>5, <2>1
    <3> QED BY <1>9, <3>1 DEF DataInv, Ordered, n
  <2>2. CASE ~(j <= n) /\ i <= n
    <3>1. i \in 1..n /\ j \in (n + 1)..(n + k)
      BY <1>1, <1>5, <2>2
    <3>2. Through[i][1] = w
      BY <1>9, <3>1
    <3>3. Through[i] \in Accepted
      BY <1>5, <3>1 DEF DataInv, Elements
    <3>4. Through[i][2] \in 1..pos[w]
      BY <1>10, <3>1, <3>2, <3>3, AcceptedFacts
    <3>5. Through'[j][2] = pos[w] + (j - n) /\ j - n \in 1..k
      BY <1>9, <3>1
    <3> QED BY <1>1, <1>4, <1>9, <3>1, <3>4, <3>5
  <2>3. CASE ~(i <= n)
    <3>1. i \in (n + 1)..(n + k) /\ j \in (n + 1)..(n + k)
      BY <1>1, <1>5, <2>3
    <3>2. Through'[i][2] = pos[w] + (i - n) /\ Through'[j][2] = pos[w] + (j - n)
      BY <1>9, <3>1
    <3> QED BY <1>1, <1>4, <1>5, <3>2
  <2> QED BY <2>1, <2>2, <2>3
<1>12. Elements(Through') = Elements(Through) \cup new
  <2>1. ASSUME NEW i \in 1..(n + k) PROVE Through'[i] \in Elements(Through) \cup new
    <3>1. CASE i \in 1..n
      BY <1>5, <1>9, <3>1 DEF Elements
    <3>2. CASE i \in (n + 1)..(n + k)
      <4>1. Through'[i] = <<w, pos[w] + (i - n)>> /\ i - n \in 1..k
        BY <1>9, <3>2
      <4>2. pos[w] + (i - n) \in (pos[w] + 1)..(pos[w] + k)
        BY <1>1, <1>4, <4>1
      <4> QED BY <4>1, <4>2
    <3> QED BY <1>1, <1>5, <3>1, <3>2
  <2>2. ASSUME NEW x \in Elements(Through) PROVE x \in Elements(Through')
    <3>1. PICK i \in 1..n : x = Through[i]
      BY <1>5, <2>2 DEF Elements
    <3> QED BY <1>8, <1>9, <3>1 DEF Elements
  <2>3. ASSUME NEW x \in new PROVE x \in Elements(Through')
    <3>1. PICK i \in (pos[w] + 1)..(pos[w] + k) : x = <<w, i>>
      BY <2>3
    <3>2. (i - pos[w]) + n \in (n + 1)..(n + k) /\ pos[w] + (((i - pos[w]) + n) - n) = i
      BY <1>1, <1>4, <1>5, <3>1
    <3>3. Through'[(i - pos[w]) + n] = x
      BY <1>9, <3>1, <3>2
    <3> QED BY <1>8, <1>9, <3>2, <3>3 DEF Elements
  <2> QED BY <1>8, <2>1, <2>2, <2>3 DEF Elements
<1>13. Accepted' = Accepted \cup new \cup (IF wrClosed THEN Rest(w, pos[w] + k) ELSE {})
  <2>1. ASSUME NEW v \in Writers
        PROVE  {<<v, i>> : i \in 1..pos'[v]}
                 = {<<v, i>> : i \in 1..pos[v]}
                     \cup (IF v = w THEN new \cup (IF wrClosed THEN Rest(w, pos[w] + k) ELSE {}) ELSE {})
    <3>1. CASE v # w
      BY <1>2, <1>4, <3>1
    <3>2. CASE v = w /\ wrClosed
      <4>1. pos'[w] = end[w]
        BY <1>2, <1>4, <3>2
      <4>2. \A i : i \in 1..end[w] <=> \/ i \in 1..pos[w] \/ i \in (pos[w] + 1)..(pos[w] + k)
                                       \/ i \in (pos[w] + k + 1)..end[w]
        BY <1>1, <1>4
      <4> QED BY <3>2, <4>1, <4>2 DEF Rest
    <3>3. CASE v = w /\ ~wrClosed
      <4>1. pos'[w] = pos[w] + k
        BY <1>2, <1>4, <3>3
      <4>2. \A i : i \in 1..(pos[w] + k) <=> i \in 1..pos[w] \/ i \in (pos[w] + 1)..(pos[w] + k)
        BY <1>1, <1>4
      <4> QED BY <3>3, <4>1, <4>2
    <3> QED BY <3>1, <3>2, <3>3
  <2> QED BY <2>1 DEF Accepted
<1>14. /\ Accepted \cap new = {}
       /\ Accepted \cap Rest(w, pos[w] + k) = {} /\ new \cap Rest(w, pos[w] + k) = {}
  <2>1. Accepted \cap new = {}
    BY <1>1, <1>4, AcceptedFacts
  <2>2. Accepted \cap Rest(w, pos[w] + k) = {}
    BY <1>1, <1>4, AcceptedFacts DEF Rest
  <2>3. new \cap Rest(w, pos[w] + k) = {}
    BY <1>1, <1>4 DEF Rest
  <2> QED BY <2>1, <2>2, <2>3
<1> HIDE DEF new
<1>15. /\ Elements(Through) = Accepted \ lost /\ lost \subseteq Accepted
  BY <1>0 DEF DataInv
<1>16. /\ Elements(Through') \subseteq Accepted' /\ lost' \subseteq Accepted'
       /\ Elements(Through') = Accepted' \ lost'
  <2>1. CASE wrClosed
    BY <1>2, <1>12, <1>13, <1>14, <1>15, <2>1
  <2>2. CASE ~wrClosed
    BY <1>2, <1>12, <1>13, <1>14, <1>15, <2>2
  <2> QED BY <2>1, <2>2
<1> QED BY <1>0, <1>2, <1>11, <1>16 DEF DataInv

-----------------------------------------------------------------------------
\* What is read and buffered stays what was accepted.
LEMMA DataInvariant == Spec => []DataInv
<1>1. Init => DataInv
  <2> SUFFICES ASSUME Init PROVE DataInv
    OBVIOUS
  <2>1. Through = <<>>
    BY ConcatEmptySeq, EmptySeq DEF Init, Through
  <2>2. Accepted = {}
    BY DEF Init, Accepted
  <2> QED BY <2>1, <2>2 DEF Init, DataInv, Ordered, Elements
<1>2. IndInv /\ DataInv /\ [Next]_vars => DataInv'
  <2> SUFFICES ASSUME IndInv, DataInv, [Next]_vars PROVE DataInv'
    OBVIOUS
  <2>0. TypeOK /\ CallInv /\ BufferBounded
    BY DEF IndInv, SafetyInv
  <2>1. ASSUME NEW w \in Writers, WriteStep(w) PROVE DataInv'
    <3>1. CASE WriteWaits(w)
      BY <3>1, DataUnchanged DEF WriteWaits, pipeVars, readVars
    <3> QED BY <2>0, <2>1, <3>1, FailStep, CopyStep DEF WriteStep
  <2>2. ASSUME NEW r \in Readers, ReadStep(r) PROVE DataInv'
    <3>1. CASE ReadFails(r) \/ ReadWaits(r)
      BY <3>1, DataUnchanged DEF ReadFails, ReadWaits, pipeVars, writeVars
    <3> QED BY <2>0, <2>2, <3>1, TakeStep DEF ReadStep
  <2>3. ASSUME NEW w \in Writers, WriterCloseWithError(w) PROVE DataInv'
    BY <2>0, <2>3, DiscardStep DEF WriterCloseWithError
  <2>4. ASSUME NEW r \in Readers, ReaderClose(r) PROVE DataInv'
    BY <2>0, <2>4, DiscardStep DEF ReaderClose
  <2>5. ASSUME NEW w \in Writers, WriteCall(w) \/ WriterClose(w) PROVE DataInv'
    BY <2>5, DataUnchanged DEF WriteCall, WriterClose, pipeVars, readVars
  <2>6. ASSUME NEW r \in Readers, ReadCall(r) PROVE DataInv'
    BY <2>6, DataUnchanged DEF ReadCall, pipeVars, writeVars
  <2>7. CASE SetDeadline \/ ScheduleWake \/ DeadlinePasses \/ WakeUp
    BY <2>7, DataUnchanged DEF SetDeadline, ScheduleWake, DeadlinePasses, WakeUp, pipeVars, writeVars, readVars
  <2>8. CASE UNCHANGED vars
    BY <2>8, DataUnchanged DEF vars, pipeVars, writeVars, readVars
  <2> QED BY <2>1, <2>2, <2>3, <2>4, <2>5, <2>6, <2>7, <2>8 DEF Next
<1> QED BY <1>1, <1>2, PipeInvariant, PTL DEF Spec

\* While the read end is open nothing is lost, invented or duplicated, however
\* many goroutines write, wait and fail at the same time.
THEOREM NothingIsLost == Spec => []NothingLost
<1>1. IndInv /\ DataInv => NothingLost
  <2> SUFFICES ASSUME IndInv, DataInv, ~closed
               PROVE  /\ Elements(Through) = Accepted \ lost
                      /\ Len(Through) = Cardinality(Elements(Through))
    BY DEF NothingLost, Elements, Through, Accepted
  <2>1. Through \in Seq(Bytes)
    BY ThroughType DEF IndInv
  <2> QED BY <2>1, OrderedIsInjective DEF DataInv
<1> QED BY <1>1, DataInvariant, PipeInvariant, PTL

\* The bytes of one writer are returned in the order it wrote them, also when
\* several writers share the end and the read end is closed under them.
THEOREM BytesComeInOrder == Spec => []InOrder
<1>1. IndInv /\ DataInv => InOrder
  <2> SUFFICES ASSUME IndInv, DataInv PROVE InOrder
    OBVIOUS
  <2>1. /\ Len(Through) \in Nat /\ Len(Through) = Len(got) + Len(buf)
        /\ \A i \in 1..Len(got) : Through[i] = got[i]
    BY ThroughType DEF IndInv
  <2>2. DOMAIN got = 1..Len(got) /\ Len(got) \in Nat /\ Len(buf) \in Nat
    BY LenProperties DEF IndInv, TypeOK
  <2>3. DOMAIN got \subseteq 1..Len(Through)
    BY <2>1, <2>2
  <2> QED BY <2>1, <2>2, <2>3 DEF DataInv, Ordered, InOrder
<1> QED BY <1>1, DataInvariant, PipeInvariant, PTL
=============================================================================
