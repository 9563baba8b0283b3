----------------------------- MODULE MemoryFIFO ------------------------------
(***************************************************************************)
(* The in-memory named pipe (fs/fifo.go).                                  *)
(*                                                                         *)
(* A handle is one memoryFIFOFile: it is opened once, used by one Read or  *)
(* Write at a time, and closed by anybody at any moment.  Each handle is   *)
(* bound to the context it was opened under.  Every operation holds the    *)
(* FIFO's mutex except inside cond.Wait; the closed flag of a handle is an *)
(* atomic that Close sets before it takes the mutex.                       *)
(*                                                                         *)
(* A byte is <<h, i>>: the i-th byte handle h ever offered to Write.       *)
(***************************************************************************)
EXTENDS Naturals, Sequences, FiniteSets

CONSTANTS
  Handles,    \* identities of memoryFIFOFile objects
  Capacity,   \* memoryFIFOCapacity
  MaxBytes,   \* bound: bytes one handle offers to Write
  Scenes      \* bound: the uses of the handles that are explored

\* A scene bounds what its users do with the FIFO: the modes each handle may be
\* opened with, the bytes it may offer to Write, and whose context may end.
\* The most general one allows everything; several narrow ones let TLC reach
\* partial writes and cancelled writers without their product.
SceneType == [flags : [Handles -> SUBSET {"r", "w", "rw"}],
              bytes : [Handles -> 0..MaxBytes],
              cancellable : SUBSET Handles]

ASSUME HandlesFinite == IsFiniteSet(Handles)
ASSUME CapacityAssumption == Capacity \in Nat \ {0}
ASSUME MaxBytesAssumption == MaxBytes \in Nat
ASSUME ScenesAssumption == Scenes \subseteq SceneType

VARIABLES
  scene,     \* the scene played; never changes
  buf,       \* memoryFIFO.buf
  readers,   \* memoryFIFO.readers
  writers,   \* memoryFIFO.writers
  epoch,     \* memoryFIFO.readerEpoch and writerEpoch
  mode,      \* "none" before the open, else what the flags allow
  marked,    \* handles whose closed flag is set
  attached,  \* handles counted in readers and writers
  pc,        \* where the handle's Read or Write is
  saw,       \* memoryFIFOFile.sawReader and sawWriter
  mark,      \* memoryFIFOFile.readerEpoch and writerEpoch
  done,      \* handles whose context is done
  wake,      \* handles whose AfterFunc broadcast is still to come
  pos,       \* bytes of each handle written or given up
  end,       \* the end of the slice its Write was called with
  got,       \* history: the bytes returned by Read
  eof,       \* history: handles on which some Read has returned io.EOF
  met        \* history: handles during whose life a writer was attached

fifoVars == <<buf, readers, writers, epoch>>
fileVars == <<mode, marked, attached, saw, mark>>
ctxVars  == <<done, wake>>
dataVars == <<pos, end, got, eof, met>>
vars     == <<scene, fifoVars, fileVars, pc, ctxVars, dataVars>>

Modes == {"r", "w", "rw"}
Ends == {"reader", "writer"}
Bytes == Handles \X (1..MaxBytes)
CallStates == {"idle", "reading", "readWait", "readWoken",
               "writing", "writeWait", "writeWoken"}

Reading == {"reading", "readWoken"}
Writing == {"writing", "writeWoken"}
Waiting == {"readWait", "writeWait"}

TypeOK ==
  /\ scene \in Scenes
  /\ buf \in Seq(Bytes)
  /\ readers \in Nat
  /\ writers \in Nat
  /\ epoch \in [Ends -> Nat]
  /\ mode \in [Handles -> Modes \cup {"none"}]
  /\ marked \subseteq Handles
  /\ attached \subseteq Handles
  /\ pc \in [Handles -> CallStates]
  /\ saw \in [Handles -> [Ends -> BOOLEAN]]
  /\ mark \in [Handles -> [Ends -> Nat]]
  /\ done \subseteq Handles
  /\ wake \subseteq Handles
  /\ pos \in [Handles -> 0..MaxBytes]
  /\ end \in [Handles -> 0..MaxBytes]
  /\ got \in Seq(Bytes)
  /\ eof \subseteq Handles
  /\ met \subseteq Handles

Init ==
  /\ scene \in Scenes
  /\ buf = <<>>
  /\ readers = 0
  /\ writers = 0
  /\ epoch = [e \in Ends |-> 0]
  /\ mode = [h \in Handles |-> "none"]
  /\ marked = {}
  /\ attached = {}
  /\ pc = [h \in Handles |-> "idle"]
  /\ saw = [h \in Handles |-> [e \in Ends |-> FALSE]]
  /\ mark = [h \in Handles |-> [e \in Ends |-> 0]]
  /\ done = {}
  /\ wake = {}
  /\ pos = [h \in Handles |-> 0]
  /\ end = [h \in Handles |-> 0]
  /\ got = <<>>
  /\ eof = {}
  /\ met = {}

-----------------------------------------------------------------------------
CanRead(m)  == m \in {"r", "rw"}
CanWrite(m) == m \in {"w", "rw"}

Bit(b) == IF b THEN 1 ELSE 0

Full == Len(buf) >= Capacity

\* cond.Broadcast
Woken ==
  [h \in Handles |-> CASE pc[h] = "readWait"  -> "readWoken"
                       [] pc[h] = "writeWait" -> "writeWoken"
                       [] OTHER               -> pc[h]]

\* Mutant of WriterLeft: a reader forgets the writer it saw before it slept.
WriterLeftByEpoch(h) == writers = 0 /\ epoch["writer"] # mark[h]["writer"]

\* Read's condition for io.EOF: a writer was there, and none is now.
WriterLeft(h) ==
  writers = 0 /\ (saw[h]["writer"] \/ epoch["writer"] # mark[h]["writer"])

\* Write's condition for a broken pipe.
ReaderLeft(h) ==
  readers = 0 /\ (saw[h]["reader"] \/ epoch["reader"] # mark[h]["reader"])

\* Write's loop condition: nobody to read, or no room.
Blocked == readers = 0 \/ Full

\* The space Write may fill.
Room == Capacity - Len(buf)

\* Mutant of Rest: the last byte returned stays in the buffer.
RestSlips(n) == SubSeq(buf, n, Len(buf))

\* f.fifo.buf[n:]
Rest(n) == SubSeq(buf, n + 1, Len(buf))

\* met, brought up to date with the writers attached now.
Met == IF writers' > 0 THEN met \cup attached' ELSE met

-----------------------------------------------------------------------------
(* newMemoryFIFOFile                                                       *)

\* A handle is opened for reading, writing or both.  The reader's half comes
\* first: an O_RDWR handle sees itself as a reader, not as a writer.
\* context.AfterFunc is registered before the mutex is taken and fires at once
\* when the context is already done.
Open(h) ==
  /\ mode[h] = "none"
  /\ \E m \in scene.flags[h] :
       /\ mode' = [mode EXCEPT ![h] = m]
       /\ readers' = readers + Bit(CanRead(m))
       /\ writers' = writers + Bit(CanWrite(m))
       /\ epoch' = [epoch EXCEPT
            !["reader"] = @ + Bit(CanRead(m) /\ readers = 0),
            !["writer"] = @ + Bit(CanWrite(m))]
       /\ mark' = [mark EXCEPT
            ![h]["writer"] = IF CanRead(m) THEN epoch["writer"] ELSE @,
            ![h]["reader"] = IF CanWrite(m) THEN epoch'["reader"] ELSE @]
       /\ saw' = [saw EXCEPT
            ![h]["writer"] = CanRead(m) /\ epoch["writer"] > 0,
            ![h]["reader"] = CanWrite(m) /\ readers' > 0]
  /\ attached' = attached \cup {h}
  /\ wake' = wake \cup (done \cap {h})
  /\ pc' = Woken
  /\ met' = Met
  /\ UNCHANGED <<buf, marked, done, pos, end, got, eof>>

-----------------------------------------------------------------------------
(* Read                                                                    *)

ReadCall(h) ==
  /\ CanRead(mode[h])
  /\ h \notin marked
  /\ pc[h] = "idle"
  /\ pc' = [pc EXCEPT ![h] = "reading"]
  /\ UNCHANGED <<fifoVars, fileVars, ctxVars, dataVars>>

\* Buffered data is returned even to a handle that was closed meanwhile or
\* whose context is done.
ReadReturns(h) ==
  /\ pc[h] \in Reading
  /\ \E n \in 1..Len(buf) :
       /\ got' = got \o SubSeq(buf, 1, n)
       /\ buf' = Rest(n)
  /\ saw' = [saw EXCEPT ![h]["writer"] = TRUE]
  /\ pc' = [Woken EXCEPT ![h] = "idle"]
  /\ UNCHANGED <<readers, writers, epoch, mode, marked, attached, mark, ctxVars, pos, end, eof, met>>

\* io.EOF
ReadEOF(h) ==
  /\ pc[h] \in Reading
  /\ buf = <<>>
  /\ h \notin marked
  /\ WriterLeft(h)
  /\ eof' = eof \cup {h}
  /\ pc' = [pc EXCEPT ![h] = "idle"]
  /\ UNCHANGED <<fifoVars, fileVars, ctxVars, pos, end, got, met>>

\* fs.ErrClosed, or the error of the context.
ReadFails(h) ==
  /\ pc[h] \in Reading
  /\ buf = <<>>
  /\ \/ h \in marked /\ UNCHANGED saw
     \/ /\ h \notin marked /\ ~WriterLeft(h) /\ h \in done
        /\ saw' = [saw EXCEPT ![h]["writer"] = @ \/ writers > 0]
  /\ pc' = [pc EXCEPT ![h] = "idle"]
  /\ UNCHANGED <<fifoVars, mode, marked, attached, mark, ctxVars, dataVars>>

ReadWaits(h) ==
  /\ pc[h] \in Reading
  /\ buf = <<>>
  /\ h \notin marked /\ ~WriterLeft(h) /\ h \notin done
  /\ saw' = [saw EXCEPT ![h]["writer"] = @ \/ writers > 0]
  /\ pc' = [pc EXCEPT ![h] = "readWait"]
  /\ UNCHANGED <<fifoVars, mode, marked, attached, mark, ctxVars, dataVars>>

-----------------------------------------------------------------------------
(* Write                                                                   *)

WriteCall(h) ==
  /\ CanWrite(mode[h])
  /\ h \notin marked
  /\ pc[h] = "idle"
  /\ \E n \in (pos[h] + 1)..scene.bytes[h] : end' = [end EXCEPT ![h] = n]
  /\ pc' = [pc EXCEPT ![h] = "writing"]
  /\ UNCHANGED <<fifoVars, fileVars, ctxVars, pos, got, eof, met>>

\* Copy what fits and broadcast; then return, or go round the loop again,
\* where the buffer is full.
WriteCopies(h) ==
  /\ pc[h] \in Writing
  /\ ~Blocked
  /\ LET k == IF end[h] - pos[h] <= Room THEN end[h] - pos[h] ELSE Room
     IN  /\ buf' = buf \o [i \in 1..k |-> <<h, pos[h] + i>>]
         /\ pos' = [pos EXCEPT ![h] = @ + k]
         /\ pc' = [Woken EXCEPT ![h] = IF pos[h] + k = end[h] THEN "idle" ELSE "writing"]
  /\ saw' = [saw EXCEPT ![h]["reader"] = TRUE]
  /\ mark' = [mark EXCEPT ![h]["reader"] = epoch["reader"]]
  /\ UNCHANGED <<readers, writers, epoch, mode, marked, attached, ctxVars, end, got, eof, met>>

\* fs.ErrClosed, a broken pipe, or the error of the context: what was not
\* written is given up.
WriteFails(h) ==
  /\ pc[h] \in Writing
  /\ Blocked
  /\ h \in marked \/ ReaderLeft(h) \/ h \in done
  /\ pos' = [pos EXCEPT ![h] = end[h]]
  /\ pc' = [pc EXCEPT ![h] = "idle"]
  /\ UNCHANGED <<fifoVars, fileVars, ctxVars, end, got, eof, met>>

\* Mutant of WriteWaits: Write sleeps on without a look at its context.
WriteWaitsForPeer(h) ==
  /\ pc[h] \in Writing
  /\ Blocked
  /\ h \notin marked /\ ~ReaderLeft(h)
  /\ pc' = [pc EXCEPT ![h] = "writeWait"]
  /\ UNCHANGED <<fifoVars, fileVars, ctxVars, dataVars>>

WriteWaits(h) ==
  /\ pc[h] \in Writing
  /\ Blocked
  /\ h \notin marked /\ ~ReaderLeft(h) /\ h \notin done
  /\ pc' = [pc EXCEPT ![h] = "writeWait"]
  /\ UNCHANGED <<fifoVars, fileVars, ctxVars, dataVars>>

-----------------------------------------------------------------------------
(* Close and the context                                                   *)

\* Close wins the CompareAndSwap and stops the AfterFunc, unless that already
\* runs.
CloseMark(h) ==
  /\ h \in attached \ marked
  /\ marked' = marked \cup {h}
  /\ UNCHANGED <<fifoVars, mode, attached, saw, mark, pc, ctxVars, dataVars>>

\* Mutant of CloseDetach: nobody is told.
CloseDetachSilent(h) ==
  /\ h \in marked \cap attached
  /\ attached' = attached \ {h}
  /\ readers' = readers - Bit(CanRead(mode[h]))
  /\ writers' = writers - Bit(CanWrite(mode[h]))
  /\ UNCHANGED <<buf, epoch, mode, marked, saw, mark, pc, ctxVars, dataVars>>

\* Mutant of CloseDetach: both counters go down, whatever the mode was.
CloseDetachBlind(h) ==
  /\ h \in marked \cap attached
  /\ attached' = attached \ {h}
  /\ readers' = readers - 1
  /\ writers' = writers - 1
  /\ pc' = Woken
  /\ UNCHANGED <<buf, epoch, mode, marked, saw, mark, ctxVars, dataVars>>

\* The locked half of Close.
CloseDetach(h) ==
  /\ h \in marked \cap attached
  /\ attached' = attached \ {h}
  /\ readers' = readers - Bit(CanRead(mode[h]) /\ readers > 0)
  /\ writers' = writers - Bit(CanWrite(mode[h]) /\ writers > 0)
  /\ pc' = Woken
  /\ UNCHANGED <<buf, epoch, mode, marked, saw, mark, ctxVars, dataVars>>

\* The context of h ends: the execution timed out or was cancelled.  Before
\* the open or while the handle is in use; later nobody would notice.
Cancel(h) ==
  /\ h \in scene.cancellable \ done
  /\ mode[h] = "none" \/ h \in attached \/ pc[h] # "idle"
  /\ done' = done \cup {h}
  /\ wake' = IF h \in attached \ marked THEN wake \cup {h} ELSE wake
  /\ UNCHANGED <<fifoVars, fileVars, pc, dataVars>>

\* The AfterFunc takes the mutex and broadcasts.
Wake(h) ==
  /\ h \in wake
  /\ wake' = wake \ {h}
  /\ pc' = Woken
  /\ UNCHANGED <<fifoVars, fileVars, done, dataVars>>

-----------------------------------------------------------------------------
ReadStep(h)  == ReadReturns(h) \/ ReadEOF(h) \/ ReadFails(h) \/ ReadWaits(h)
WriteStep(h) == WriteCopies(h) \/ WriteFails(h) \/ WriteWaits(h)

SameScene == UNCHANGED scene

Next ==
  /\ SameScene
  /\ \E h \in Handles :
       \/ Open(h) \/ ReadCall(h) \/ ReadStep(h) \/ WriteCall(h) \/ WriteStep(h)
       \/ CloseMark(h) \/ CloseDetach(h) \/ Cancel(h) \/ Wake(h)

Spec == Init /\ [][Next]_vars

(***************************************************************************)
(* Fairness: a goroutine that wants the mutex eventually gets it, a Close  *)
(* once begun finishes, and an AfterFunc once due runs.  Nobody is obliged *)
(* to open, read, write or close.                                          *)
(***************************************************************************)
Fairness ==
  \A h \in Handles :
    /\ WF_vars(SameScene /\ (ReadStep(h) \/ WriteStep(h)))
    /\ WF_vars(SameScene /\ CloseDetach(h))
    /\ WF_vars(SameScene /\ Wake(h))

FairSpec == Spec /\ Fairness

-----------------------------------------------------------------------------
(* Safety                                                                  *)

\* No wake-up is lost in Read: it sleeps only while it could return nothing,
\* or while the broadcast of its own Close or of its context is to come.
ReaderSleepsOnlyIfBlocked ==
  \A h \in Handles : pc[h] = "readWait" =>
    /\ buf = <<>>
    /\ ~WriterLeft(h)
    /\ h \in marked => h \in attached
    /\ h \in done => h \in wake \/ h \in marked

\* No wake-up is lost in Write.
WriterSleepsOnlyIfBlocked ==
  \A h \in Handles : pc[h] = "writeWait" =>
    /\ Blocked
    /\ ~ReaderLeft(h)
    /\ h \in marked => h \in attached
    /\ h \in done => h \in wake \/ h \in marked

Channel == INSTANCE ByteChannel WITH
             queue <- buf, taken <- got, writable <- TRUE, readable <- TRUE

\* Whoever opens and closes it, the FIFO is a bounded first-in first-out
\* channel that loses nothing: a later reader gets what an earlier one left.
ImplementsChannel == Channel!ChannelSpec

\* Read returns io.EOF only on a handle during whose life some writer was
\* attached; a reader that never met a writer waits for one.
EOFMeansWriterMet == eof \subseteq met

-----------------------------------------------------------------------------
(* Liveness, under FairSpec                                                *)

\* A blocked Read or Write returns once the context it was opened under is
\* done, with or without a peer.
CancelUnblocks ==
  \A h \in Handles : h \in done /\ pc[h] # "idle" ~> pc[h] = "idle"

\* Closing a handle returns the Read or Write blocked on it.
CloseUnblocks ==
  \A h \in Handles : h \in marked /\ pc[h] # "idle" ~> pc[h] = "idle"

\* When its last writer has closed, a reader that met it gets what is left
\* and then io.EOF, unless another writer attaches.
LastWriterUnblocks ==
  \A h \in Handles :
    writers = 0 /\ h \in met /\ pc[h] \in Reading \cup {"readWait"}
      ~> pc[h] = "idle" \/ writers > 0
=============================================================================
