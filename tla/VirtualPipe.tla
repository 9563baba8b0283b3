----------------------------- MODULE VirtualPipe -----------------------------
(***************************************************************************)
(* The in-memory pipe of the interpreter                                   *)
(* (internal/shell/interp/virtual_pipe.go): pipelines, here-documents and  *)
(* process substitutions run over it.                                      *)
(*                                                                         *)
(* Every method holds the pipe's mutex except inside cond.Wait, so one     *)
(* action is what a goroutine does from taking the mutex to returning or   *)
(* waiting.  A goroutine that is "woken" has been signalled and competes   *)
(* for the mutex again; it resumes inside its wait loop, not at the top of *)
(* the method.                                                             *)
(*                                                                         *)
(* buf is the unread part of the byte buffer.  How it is stored (growing,  *)
(* compacting and pooling the slice) does not show here.  A byte is        *)
(* <<w, i>>: the i-th byte goroutine w ever offered to Write.              *)
(***************************************************************************)
EXTENDS Naturals, Sequences, FiniteSets

CONSTANTS
  Readers,   \* goroutines that use the read end
  Writers,   \* goroutines that use the write end
  BufSize,   \* virtualPipe.bufSize
  MaxBytes,  \* bound: bytes one writer offers
  SharedDeadline  \* may a future deadline be set while a Read is in progress?

ASSUME BufSizeAssumption == BufSize \in Nat \ {0}
ASSUME MaxBytesAssumption == MaxBytes \in Nat
ASSUME SharedDeadlineAssumption == SharedDeadline \in BOOLEAN

VARIABLES
  buf,       \* the unread bytes
  closed,    \* read end closed, or write end closed with an error
  wrClosed,  \* write end closed
  deadline,  \* readDeadline: not set, to come, or passed
  setter,    \* a SetReadDeadline has unlocked and not yet scheduled a wake-up,
             \* and its deadline is the current one or has been superseded
  alarm,     \* a wake-up goroutine sleeps until the current deadline
  stale,     \* wake-up goroutines of earlier deadlines are still asleep
  wpc, rpc,  \* where each goroutine is
  pos,       \* bytes each writer has had copied or has given up
  end,       \* the end of the slice its Write was called with
  got,       \* history: the bytes returned by Read
  lost,      \* history: bytes of Write calls that returned an error
  eof        \* history: some Read has returned io.EOF

pipeVars  == <<buf, closed, wrClosed>>
timeVars  == <<deadline, setter, alarm, stale>>
writeVars == <<wpc, pos, end, lost>>
readVars  == <<rpc, got, eof>>
vars      == <<pipeVars, timeVars, writeVars, readVars>>

Bytes == Writers \X (1..MaxBytes)
CallStates == {"idle", "start", "waiting", "woken"}

TypeOK ==
  /\ buf \in Seq(Bytes)
  /\ closed \in BOOLEAN
  /\ wrClosed \in BOOLEAN
  /\ deadline \in {"none", "future", "past"}
  /\ setter \in {"none", "current", "superseded"}
  /\ alarm \in BOOLEAN
  /\ stale \in BOOLEAN
  /\ wpc \in [Writers -> CallStates]
  /\ rpc \in [Readers -> CallStates]
  /\ pos \in [Writers -> 0..MaxBytes]
  /\ end \in [Writers -> 0..MaxBytes]
  /\ got \in Seq(Bytes)
  /\ lost \subseteq Bytes
  /\ eof \in BOOLEAN

Init ==
  /\ buf = <<>>
  /\ closed = FALSE
  /\ wrClosed = FALSE
  /\ deadline = "none"
  /\ setter = "none"
  /\ alarm = FALSE
  /\ stale = FALSE
  /\ wpc = [w \in Writers |-> "idle"]
  /\ rpc = [r \in Readers |-> "idle"]
  /\ pos = [w \in Writers |-> 0]
  /\ end = [w \in Writers |-> 0]
  /\ got = <<>>
  /\ lost = {}
  /\ eof = FALSE

-----------------------------------------------------------------------------
Full == Len(buf) >= BufSize

\* checkDeadline
Late == deadline = "past"

\* cond.Broadcast, as seen by the goroutines of one end.
Woken(pc) == [g \in DOMAIN pc |-> IF pc[g] = "waiting" THEN "woken" ELSE pc[g]]

\* A goroutine holding the mutex, about to run Write's or Read's loop.
Active(pc, g) == pc[g] \in {"start", "woken"}

\* Mutant of Rest: the boundary byte counts twice.
RestOffByOne(w, n) == {<<w, i>> : i \in n..end[w]}

\* The bytes of w's current call beyond its first n.
Rest(w, n) == {<<w, i>> : i \in (n + 1)..end[w]}

\* The space Write may fill.
Room == BufSize - Len(buf)

\* Mutant of Chunk: every round copies the start of the slice again.
ChunkFromStart(w, k) == [i \in 1..k |-> <<w, i>>]

\* p[written:written+toWrite]
Chunk(w, k) == [i \in 1..k |-> <<w, pos[w] + i>>]

\* Mutant of Unread: readPos is one short.
UnreadSlips(n) == SubSeq(buf, n, Len(buf))

\* The unread bytes once readPos has advanced by n.
Unread(n) == SubSeq(buf, n + 1, Len(buf))

\* Mutant of AtEOF: what is still buffered is forgotten.
AtEOFEarly == wrClosed

\* Read reports end of file only from an empty buffer.
AtEOF == wrClosed /\ buf = <<>>

-----------------------------------------------------------------------------
(* Write                                                                   *)

WriteCall(w) ==
  /\ wpc[w] = "idle"
  /\ pos[w] < MaxBytes
  /\ \E n \in (pos[w] + 1)..MaxBytes : end' = [end EXCEPT ![w] = n]
  /\ wpc' = [wpc EXCEPT ![w] = "start"]
  /\ UNCHANGED <<pipeVars, timeVars, pos, lost, readVars>>

\* Write returns an error.  The inner wait loop tests wrClosed only while the
\* buffer is still full.
WriteFails(w) ==
  /\ Active(wpc, w)
  /\ closed \/ (wrClosed /\ (wpc[w] = "start" \/ Full))
  /\ wpc' = [wpc EXCEPT ![w] = "idle"]
  /\ pos' = [pos EXCEPT ![w] = end[w]]
  /\ lost' = lost \cup Rest(w, pos[w])
  /\ UNCHANGED <<pipeVars, timeVars, end, readVars>>

WriteWaits(w) ==
  /\ Active(wpc, w)
  /\ Full
  /\ ~closed /\ ~wrClosed
  /\ wpc' = [wpc EXCEPT ![w] = "waiting"]
  /\ UNCHANGED <<pipeVars, timeVars, pos, end, lost, readVars>>

\* Copy what fits and broadcast; then return, fail at the top of the loop, or
\* wait for more space.
WriteCopies(w) ==
  /\ Active(wpc, w)
  /\ ~closed
  /\ wpc[w] = "start" => ~wrClosed
  /\ ~Full
  /\ LET k == IF end[w] - pos[w] <= Room THEN end[w] - pos[w] ELSE Room
         whole == pos[w] + k = end[w]
     IN  /\ buf' = buf \o Chunk(w, k)
         /\ wpc' = [Woken(wpc) EXCEPT ![w] = IF whole \/ wrClosed THEN "idle" ELSE "waiting"]
         /\ pos' = [pos EXCEPT ![w] = IF wrClosed THEN end[w] ELSE pos[w] + k]
         /\ lost' = IF wrClosed THEN lost \cup Rest(w, pos[w] + k) ELSE lost
  /\ rpc' = Woken(rpc)
  /\ UNCHANGED <<closed, wrClosed, timeVars, end, got, eof>>

\* Mutant of WriterClose: nobody is woken.
WriterCloseSilent(w) ==
  /\ wpc[w] = "idle"
  /\ ~wrClosed
  /\ wrClosed' = TRUE
  /\ UNCHANGED <<buf, closed, timeVars, writeVars, readVars>>

\* Close of the write end: pw.Close() of a pipeline's left side, run once the
\* goroutine's own writes are done.
WriterClose(w) ==
  /\ wpc[w] = "idle"
  /\ ~wrClosed
  /\ wrClosed' = TRUE
  /\ wpc' = Woken(wpc)
  /\ rpc' = Woken(rpc)
  /\ UNCHANGED <<buf, closed, timeVars, pos, end, lost, got, eof>>

\* CloseWithError of the write end with a non-nil error.
WriterCloseWithError(w) ==
  /\ wpc[w] = "idle"
  /\ ~wrClosed
  /\ wrClosed' = TRUE
  /\ closed' = TRUE
  /\ buf' = <<>>
  /\ wpc' = Woken(wpc)
  /\ rpc' = Woken(rpc)
  /\ UNCHANGED <<timeVars, pos, end, lost, got, eof>>

-----------------------------------------------------------------------------
(* Read                                                                    *)

ReadCall(r) ==
  /\ rpc[r] = "idle"
  /\ SharedDeadline \/ setter = "none"
  /\ rpc' = [rpc EXCEPT ![r] = "start"]
  /\ UNCHANGED <<pipeVars, timeVars, writeVars, got, eof>>

\* Read returns bytes: as many as there are or as its caller asked for.
ReadReturns(r) ==
  /\ Active(rpc, r)
  /\ ~closed /\ ~Late
  /\ \E n \in 1..Len(buf) :
       /\ got' = got \o SubSeq(buf, 1, n)
       /\ buf' = Unread(n)
  /\ rpc' = [Woken(rpc) EXCEPT ![r] = "idle"]
  /\ wpc' = Woken(wpc)
  /\ UNCHANGED <<closed, wrClosed, timeVars, pos, end, lost, eof>>

\* Read returns the pipe's error, io.EOF or the deadline error.
ReadFails(r) ==
  /\ Active(rpc, r)
  /\ closed \/ Late \/ AtEOF
  /\ rpc' = [rpc EXCEPT ![r] = "idle"]
  /\ eof' = (eof \/ (AtEOF /\ ~closed))
  /\ UNCHANGED <<pipeVars, timeVars, writeVars, got>>

ReadWaits(r) ==
  /\ Active(rpc, r)
  /\ buf = <<>>
  /\ ~closed /\ ~wrClosed /\ ~Late
  /\ rpc' = [rpc EXCEPT ![r] = "waiting"]
  /\ UNCHANGED <<pipeVars, timeVars, writeVars, got, eof>>

\* Mutant of ReaderClose: nobody is woken.
ReaderCloseSilent(r) ==
  /\ rpc[r] = "idle"
  /\ ~closed
  /\ closed' = TRUE
  /\ buf' = <<>>
  /\ UNCHANGED <<wrClosed, timeVars, writeVars, readVars>>

\* Close and CloseWithError of the read end: pr.Close() of a pipeline.
ReaderClose(r) ==
  /\ rpc[r] = "idle"
  /\ ~closed
  /\ closed' = TRUE
  /\ buf' = <<>>
  /\ wpc' = Woken(wpc)
  /\ rpc' = Woken(rpc)
  /\ UNCHANGED <<wrClosed, timeVars, pos, end, lost, got, eof>>

-----------------------------------------------------------------------------
(* SetReadDeadline                                                         *)

\* The locked half: store the deadline and broadcast.  Unless the descriptor
\* is shared, only the goroutine about to read sets a future deadline (the
\* read builtin); a deadline that has passed or none may be set at any time
\* (cancellation and clean-up), even in the middle of another call.
SetDeadline ==
  /\ \E d \in {"none", "future", "past"} :
       /\ d = "future" =>
            /\ setter = "none"
            /\ SharedDeadline \/ \A r \in Readers : rpc[r] = "idle"
       /\ deadline' = d
       /\ setter' = IF d = "future" THEN "current"
                    ELSE IF setter = "none" THEN "none" ELSE "superseded"
  /\ alarm' = FALSE
  /\ stale' = (stale \/ alarm)
  /\ wpc' = Woken(wpc)
  /\ rpc' = Woken(rpc)
  /\ UNCHANGED <<pipeVars, pos, end, lost, got, eof>>

\* Mutant of ScheduleWake: the deadline is stored but no wake-up scheduled.
ScheduleWakeNever ==
  /\ setter # "none"
  /\ setter' = "none"
  /\ UNCHANGED <<pipeVars, deadline, alarm, stale, writeVars, readVars>>

\* The unlocked half: schedule a wake-up if the deadline is still to come.
ScheduleWake ==
  /\ \/ /\ setter = "current"
        /\ alarm' = (deadline = "future")
        /\ UNCHANGED stale
     \/ /\ setter = "superseded"
        /\ stale' \in {stale, TRUE}
        /\ UNCHANGED alarm
  /\ setter' = "none"
  /\ UNCHANGED <<pipeVars, deadline, writeVars, readVars>>

DeadlinePasses ==
  /\ deadline = "future"
  /\ deadline' = "past"
  /\ UNCHANGED <<pipeVars, setter, alarm, stale, writeVars, readVars>>

\* A wake-up goroutine broadcasts: the current one once its deadline passed,
\* an earlier one at any time.
WakeUp ==
  /\ \/ /\ alarm /\ Late
        /\ alarm' = FALSE
        /\ UNCHANGED stale
     \/ /\ stale
        /\ stale' = FALSE
        /\ UNCHANGED alarm
  /\ wpc' = Woken(wpc)
  /\ rpc' = Woken(rpc)
  /\ UNCHANGED <<pipeVars, deadline, setter, pos, end, lost, got, eof>>

-----------------------------------------------------------------------------
WriteStep(w) == WriteFails(w) \/ WriteWaits(w) \/ WriteCopies(w)
ReadStep(r)  == ReadReturns(r) \/ ReadFails(r) \/ ReadWaits(r)

Next ==
  \/ \E w \in Writers :
       WriteCall(w) \/ WriteStep(w) \/ WriterClose(w) \/ WriterCloseWithError(w)
  \/ \E r \in Readers : ReadCall(r) \/ ReadStep(r) \/ ReaderClose(r)
  \/ SetDeadline \/ ScheduleWake \/ DeadlinePasses \/ WakeUp

Spec == Init /\ [][Next]_vars

(***************************************************************************)
(* Fairness: a goroutine that wants the mutex eventually gets it (Go       *)
(* mutexes are starvation free), time passes, wake-up goroutines run.      *)
(* Nobody is obliged to read, write, close or set a deadline.              *)
(***************************************************************************)
Fairness ==
  /\ \A w \in Writers : WF_vars(WriteStep(w))
  /\ \A r \in Readers : WF_vars(ReadStep(r))
  /\ WF_vars(ScheduleWake) /\ WF_vars(DeadlinePasses) /\ WF_vars(WakeUp)

FairSpec == Spec /\ Fairness

-----------------------------------------------------------------------------
(* Safety                                                                  *)

\* No wake-up is lost on the write side: a goroutine sleeps in Write only
\* while the buffer is full and both ends are open.
WriterSleepsOnlyIfBlocked ==
  \A w \in Writers : wpc[w] = "waiting" => Full /\ ~closed /\ ~wrClosed

\* No wake-up is lost on the read side: a goroutine sleeps in Read only while
\* nothing can be returned, and past a deadline only until the scheduled
\* broadcast comes.
ReaderSleepsOnlyIfBlocked ==
  \A r \in Readers : rpc[r] = "waiting" =>
    /\ buf = <<>> /\ ~closed /\ ~wrClosed
    /\ Late /\ ~SharedDeadline => alarm

\* Nothing is lost, invented or duplicated while the read end is open: the
\* bytes returned and the bytes buffered are exactly those Write accepted.
NothingLost ==
  ~closed =>
    LET through == got \o buf
    IN  /\ {through[i] : i \in DOMAIN through}
             = (UNION {{<<w, i>> : i \in 1..pos[w]} : w \in Writers}) \ lost
        /\ Len(through) = Cardinality({through[i] : i \in DOMAIN through})

\* Bytes of one writer come out in the order it wrote them.
InOrder ==
  \A i, j \in DOMAIN got :
    i < j /\ got[i][1] = got[j][1] => got[i][2] < got[j][2]

\* The buffer never exceeds bufSize, although Write may be entered again by
\* other goroutines while one waits.
BufferBounded == Len(buf) <= BufSize

\* Once Read has returned io.EOF no later Read returns data.
EOFIsFinal == [][eof => got' = got]_vars

Channel == INSTANCE ByteChannel WITH
             Capacity <- BufSize, queue <- buf, taken <- got,
             writable <- ~wrClosed, readable <- ~closed

\* With one goroutine at the write end the pipe is a bounded FIFO channel.
ImplementsChannel == Channel!ChannelSpec

-----------------------------------------------------------------------------
(* Liveness, under FairSpec                                                *)

\* Closing the read end unblocks every writer (broken pipe), and closing the
\* write end unblocks every reader (end of file).
CloseUnblocks ==
  /\ \A w \in Writers : closed /\ wpc[w] # "idle" ~> wpc[w] = "idle"
  /\ \A r \in Readers : closed \/ wrClosed ~> rpc[r] # "waiting"

\* A Read blocked past its deadline returns, unless the deadline is moved.
DeadlineUnblocks ==
  \A r \in Readers :
    Late /\ rpc[r] # "idle" ~> rpc[r] = "idle" \/ ~Late
=============================================================================
