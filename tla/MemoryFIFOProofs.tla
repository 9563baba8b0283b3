-------------------------- MODULE MemoryFIFOProofs ---------------------------
(***************************************************************************)
(* MemoryFIFO for any finite set of handles, any modes, capacity and data: *)
(* types, the counters, no lost wake-up, and the bounded FIFO channel.     *)
(***************************************************************************)
EXTENDS MemoryFIFO, SequenceTheorems, FiniteSetTheorems, TLAPS

-----------------------------------------------------------------------------
(* The inductive invariant                                                 *)

\* A Write in progress has bytes left; no Write goes past its slice.
CallInv ==
  \A h \in Handles : /\ pos[h] <= end[h]
                     /\ pc[h] \in Writing \cup {"writeWait"} => pos[h] < end[h]

\* Where a handle is in its life: in use only once opened, and detached only
\* by its own Close.
LifeInv ==
  \A h \in Handles : /\ pc[h] # "idle" => mode[h] # "none"
                     /\ mode[h] # "none" => h \in attached \/ h \in marked
                     /\ h \in marked \cup attached => mode[h] # "none"

SleepInv == ReaderSleepsOnlyIfBlocked /\ WriterSleepsOnlyIfBlocked

BoundInv == Len(buf) <= Capacity

\* The handles whose half of a kind is open.
OpenReaders == {h \in attached : CanRead(mode[h])}
OpenWriters == {h \in attached : CanWrite(mode[h])}

\* The counters count the handles that are attached.
CountInv == readers = Cardinality(OpenReaders) /\ writers = Cardinality(OpenWriters)

IndInv == TypeOK /\ CallInv /\ LifeInv /\ SleepInv /\ BoundInv

\* The amount WriteCopies appends.
Amount(h) == IF end[h] - pos[h] <= Room THEN end[h] - pos[h] ELSE Room
Chunk(h, k) == [i \in 1..k |-> <<h, pos[h] + i>>]

-----------------------------------------------------------------------------
\* What a scene allows is what the code allows.
LEMMA SceneFacts ==
  ASSUME TypeOK, NEW h \in Handles
  PROVE  scene.flags[h] \subseteq {"r", "w", "rw"} /\ scene.bytes[h] \in 0..MaxBytes
BY ScenesAssumption DEF TypeOK, SceneType

\* A broadcast keeps the types, leaves nobody asleep, and moves nobody out of
\* a call or from one call to the other.
LEMMA WokenFacts ==
  ASSUME TypeOK
  PROVE  /\ Woken \in [Handles -> CallStates]
         /\ \A h \in Handles :
              /\ Woken[h] \notin Waiting
              /\ Woken[h] = "idle" <=> pc[h] = "idle"
              /\ Woken[h] \in Writing <=> pc[h] \in Writing \cup {"writeWait"}
BY DEF TypeOK, Woken, CallStates, Waiting, Writing

\* What Write copies is between one byte and the free space, within its slice.
LEMMA AmountBounds ==
  ASSUME TypeOK, CallInv, NEW h \in Handles, pc[h] \in Writing, ~Blocked
  PROVE  /\ Amount(h) \in Nat
         /\ 1 <= Amount(h)
         /\ Amount(h) <= Capacity - Len(buf)
         /\ pos[h] + Amount(h) <= end[h]
         /\ Chunk(h, Amount(h)) \in [1..Amount(h) -> Bytes]
         /\ Chunk(h, Amount(h)) \in Seq(Bytes)
         /\ Len(Chunk(h, Amount(h))) = Amount(h)
<1>1. /\ pos[h] \in Nat /\ end[h] \in Nat /\ end[h] <= MaxBytes
      /\ pos[h] < end[h] /\ Len(buf) \in Nat /\ Capacity \in Nat /\ Len(buf) < Capacity
  BY CapacityAssumption, MaxBytesAssumption DEF TypeOK, CallInv, Blocked, Full
<1>2. /\ Amount(h) \in Nat /\ 1 <= Amount(h) /\ Amount(h) <= Capacity - Len(buf)
      /\ pos[h] + Amount(h) <= end[h]
  BY <1>1 DEF Amount, Room
<1> DEFINE k == Amount(h)
<1> HIDE DEF k
<1>3. \A i \in 1..k : <<h, pos[h] + i>> \in Bytes
  BY <1>1, <1>2, MaxBytesAssumption DEF Bytes, k
<1>4. Chunk(h, k) \in [1..k -> Bytes]
  BY <1>3 DEF Chunk
<1>5. Chunk(h, k) \in Seq(Bytes) /\ Len(Chunk(h, k)) = k
  BY <1>2, <1>4 DEF k
<1> QED
  BY <1>2, <1>4, <1>5 DEF k

\* What WriteCopies does, by its amount.
LEMMA CopyFacts ==
  ASSUME TypeOK, CallInv, BoundInv, NEW h \in Handles, WriteCopies(h)
  PROVE  \E k \in 1..(Capacity - Len(buf)) :
           /\ pos[h] + k <= end[h]
           /\ Chunk(h, k) \in [1..k -> Bytes] /\ Chunk(h, k) \in Seq(Bytes)
           /\ buf' = buf \o Chunk(h, k)
           /\ Len(buf') = Len(buf) + k /\ buf' \in Seq(Bytes)
           /\ pos' = [pos EXCEPT ![h] = pos[h] + k]
           /\ pc' = [Woken EXCEPT ![h] = IF pos[h] + k = end[h] THEN "idle" ELSE "writing"]
<1>1. pc[h] \in Writing /\ ~Blocked
  BY DEF WriteCopies
<1> DEFINE k == Amount(h)
<1>2. /\ k \in Nat /\ 1 <= k /\ k <= Capacity - Len(buf) /\ pos[h] + k <= end[h]
      /\ Chunk(h, k) \in [1..k -> Bytes] /\ Chunk(h, k) \in Seq(Bytes) /\ Len(Chunk(h, k)) = k
  BY <1>1, AmountBounds
<1>3. /\ buf' = buf \o Chunk(h, k)
      /\ pos' = [pos EXCEPT ![h] = pos[h] + k]
      /\ pc' = [Woken EXCEPT ![h] = IF pos[h] + k = end[h] THEN "idle" ELSE "writing"]
  BY DEF WriteCopies, Amount, Chunk, TypeOK
<1> HIDE DEF k
<1>4. buf \in Seq(Bytes) /\ Len(buf) \in Nat
  BY DEF TypeOK
<1>5. Len(buf') = Len(buf) + k /\ buf' \in Seq(Bytes)
  BY <1>2, <1>3, <1>4, ConcatProperties
<1>6. k \in 1..(Capacity - Len(buf))
  BY <1>2, <1>4, CapacityAssumption
<1> QED
  BY <1>2, <1>3, <1>5, <1>6

\* What ReadReturns does to the data.
LEMMA TakeFacts ==
  ASSUME TypeOK, NEW h \in Handles, ReadReturns(h)
  PROVE  /\ buf' \in Seq(Bytes) /\ got' \in Seq(Bytes) /\ Len(buf') <= Len(buf)
         /\ pc' = [Woken EXCEPT ![h] = "idle"]
<1>1. PICK n \in 1..Len(buf) : got' = got \o SubSeq(buf, 1, n) /\ buf' = SubSeq(buf, n + 1, Len(buf))
  BY DEF ReadReturns, Rest
<1>2. /\ SubSeq(buf, 1, n) \in Seq(Bytes) /\ SubSeq(buf, n + 1, Len(buf)) \in Seq(Bytes)
      /\ Len(SubSeq(buf, n + 1, Len(buf))) <= Len(buf)
  BY <1>1 DEF TypeOK
<1>3. got' \in Seq(Bytes)
  BY <1>1, <1>2 DEF TypeOK
<1> QED
  BY <1>1, <1>2, <1>3 DEF ReadReturns

-----------------------------------------------------------------------------
\* Every step keeps the types, the slices of the calls in progress and the
\* order of a handle's life.
LEMMA TypeStep == IndInv /\ [Next]_vars => TypeOK' /\ CallInv' /\ LifeInv' /\ BoundInv'
<1> SUFFICES ASSUME IndInv, [Next]_vars PROVE TypeOK' /\ CallInv' /\ LifeInv' /\ BoundInv'
  OBVIOUS
<1> USE CapacityAssumption, MaxBytesAssumption
<1> scene' = scene
  BY DEF Next, SameScene, vars
<1>0. TypeOK /\ CallInv /\ LifeInv /\ BoundInv
  BY DEF IndInv
<1>w. /\ Woken \in [Handles -> CallStates]
      /\ \A h \in Handles :
           /\ Woken[h] = "idle" <=> pc[h] = "idle"
           /\ Woken[h] # "writeWait"
           /\ Woken[h] \in Writing <=> pc[h] \in Writing \cup {"writeWait"}
  BY <1>0, WokenFacts DEF Waiting
<1> USE DEF LifeInv, BoundInv, CallInv
<1>1. ASSUME NEW h \in Handles, Open(h) PROVE TypeOK' /\ CallInv' /\ LifeInv' /\ BoundInv'
  <2>1. PICK m \in scene.flags[h] :
          /\ mode' = [mode EXCEPT ![h] = m]
          /\ readers' = readers + Bit(CanRead(m))
          /\ writers' = writers + Bit(CanWrite(m))
          /\ epoch' = [epoch EXCEPT
               !["reader"] = @ + Bit(CanRead(m) /\ readers = 0),
               !["writer"] = @ + Bit(CanWrite(m))]
          /\ mark' = [mark EXCEPT
               ![h]["writer"] = IF CanRead(m) THEN epoch["writer"] ELSE @,
               ![h]["reader"] = IF CanWrite(m) THEN epoch'["reader"] ELSE @]
          /\ saw' = [saw EXCEPT
               ![h]["writer"] = CanRead(m) /\ epoch["writer"] > 0,
               ![h]["reader"] = CanWrite(m) /\ readers' > 0]
    BY <1>1 DEF Open
  <2>2. m \in Modes
    BY <1>0, SceneFacts DEF Modes
  <2>3. readers' \in Nat /\ writers' \in Nat
    BY <1>0, <2>1 DEF TypeOK, Bit
  <2>4. epoch' \in [Ends -> Nat]
    BY <1>0, <2>1 DEF TypeOK, Bit, Ends
  <2>5. mark' \in [Handles -> [Ends -> Nat]]
    BY <1>0, <2>1, <2>4 DEF TypeOK, Ends
  <2>6. saw' \in [Handles -> [Ends -> BOOLEAN]]
    BY <1>0, <2>1 DEF TypeOK, Ends
  <2>7. mode' \in [Handles -> Modes \cup {"none"}]
    BY <1>0, <2>1, <2>2 DEF TypeOK
  <2>8. /\ attached' = attached \cup {h} /\ wake' \subseteq Handles /\ pc' = Woken
        /\ met' \subseteq Handles /\ UNCHANGED <<buf, marked, done, pos, end, got, eof>>
    BY <1>0, <1>1 DEF Open, TypeOK, Met
  <2>9. TypeOK'
    BY <1>0, <1>w, <2>3, <2>4, <2>5, <2>6, <2>7, <2>8 DEF TypeOK
  <2>10. LifeInv'
    BY <1>0, <1>w, <2>1, <2>2, <2>8 DEF TypeOK, Modes
  <2>11. CallInv'
    BY <1>0, <1>w, <2>8
  <2> QED BY <1>0, <2>8, <2>9, <2>10, <2>11
<1>2. ASSUME NEW h \in Handles, ReadCall(h) PROVE TypeOK' /\ CallInv' /\ LifeInv' /\ BoundInv'
  BY <1>0, <1>2 DEF ReadCall, TypeOK, CallStates, Writing, CanRead, fifoVars, fileVars, ctxVars, dataVars
<1>3. ASSUME NEW h \in Handles, ReadReturns(h) PROVE TypeOK' /\ CallInv' /\ LifeInv' /\ BoundInv'
  <2>1. /\ buf' \in Seq(Bytes) /\ got' \in Seq(Bytes) /\ Len(buf') <= Len(buf)
        /\ pc' = [Woken EXCEPT ![h] = "idle"]
    BY <1>0, <1>3, TakeFacts
  <2>2. /\ saw' = [saw EXCEPT ![h]["writer"] = TRUE]
        /\ UNCHANGED <<readers, writers, epoch, mode, marked, attached, mark, done, wake, pos, end, eof, met>>
    BY <1>3 DEF ReadReturns, ctxVars
  <2>3. saw' \in [Handles -> [Ends -> BOOLEAN]]
    BY <1>0, <2>2 DEF TypeOK, Ends
  <2>4. TypeOK'
    BY <1>0, <1>w, <2>1, <2>2, <2>3 DEF TypeOK, CallStates
  <2>5. CallInv' /\ LifeInv'
    BY <1>0, <1>w, <2>1, <2>2 DEF Writing
  <2>6. BoundInv'
    BY <1>0, <2>1, <2>4 DEF TypeOK
  <2> QED BY <2>4, <2>5, <2>6
<1>4. ASSUME NEW h \in Handles, ReadEOF(h) \/ ReadFails(h) \/ ReadWaits(h)
      PROVE  TypeOK' /\ CallInv' /\ LifeInv' /\ BoundInv'
  <2>1. /\ pc' = [pc EXCEPT ![h] = "idle"] \/ pc' = [pc EXCEPT ![h] = "readWait"]
        /\ pc[h] # "idle"
        /\ saw' \in {saw, [saw EXCEPT ![h]["writer"] = @ \/ writers > 0]}
        /\ eof' \in {eof, eof \cup {h}}
        /\ UNCHANGED <<buf, readers, writers, epoch, mode, marked, attached, mark, done, wake, pos, end, got, met>>
    BY <1>4 DEF ReadEOF, ReadFails, ReadWaits, Reading, fifoVars, fileVars, ctxVars, dataVars
  <2>2. saw' \in [Handles -> [Ends -> BOOLEAN]]
    <3>1. saw \in [Handles -> [Ends -> BOOLEAN]]
      BY <1>0 DEF TypeOK
    <3>2. [saw EXCEPT ![h]["writer"] = @ \/ writers > 0] \in [Handles -> [Ends -> BOOLEAN]]
      BY <3>1 DEF Ends
    <3> QED BY <2>1, <3>1, <3>2
  <2>3. TypeOK'
    BY <1>0, <2>1, <2>2 DEF TypeOK, CallStates
  <2>4. \A g \in Handles : /\ pc'[g] # "idle" => pc[g] # "idle"
                           /\ pc'[g] \in Writing \cup {"writeWait"} => pc'[g] = pc[g]
    BY <1>0, <2>1 DEF TypeOK, Writing
  <2>5. CallInv'
    BY <1>0, <2>1, <2>4
  <2>6. LifeInv' /\ BoundInv'
    BY <1>0, <2>1, <2>4
  <2> QED BY <2>3, <2>5, <2>6
<1>5. ASSUME NEW h \in Handles, WriteCall(h) PROVE TypeOK' /\ CallInv' /\ LifeInv' /\ BoundInv'
  BY <1>0, <1>5, SceneFacts DEF WriteCall, TypeOK, CallStates, Writing, CanWrite, fifoVars, fileVars, ctxVars
<1>6. ASSUME NEW h \in Handles, WriteCopies(h) PROVE TypeOK' /\ CallInv' /\ LifeInv' /\ BoundInv'
  <2>1. PICK k \in 1..(Capacity - Len(buf)) :
           /\ pos[h] + k <= end[h]
           /\ Len(buf') = Len(buf) + k /\ buf' \in Seq(Bytes)
           /\ pos' = [pos EXCEPT ![h] = pos[h] + k]
           /\ pc' = [Woken EXCEPT ![h] = IF pos[h] + k = end[h] THEN "idle" ELSE "writing"]
    BY <1>0, <1>6, CopyFacts
  <2>2. /\ saw' = [saw EXCEPT ![h]["reader"] = TRUE]
        /\ mark' = [mark EXCEPT ![h]["reader"] = epoch["reader"]]
        /\ pc[h] \in Writing
        /\ UNCHANGED <<readers, writers, epoch, mode, marked, attached, done, wake, end, got, eof, met>>
    BY <1>6 DEF WriteCopies, ctxVars
  <2>3. saw' \in [Handles -> [Ends -> BOOLEAN]] /\ mark' \in [Handles -> [Ends -> Nat]]
    BY <1>0, <2>2 DEF TypeOK, Ends
  <2>4. pos[h] + k \in 0..MaxBytes /\ pos[h] \in Nat /\ end[h] \in Nat
    BY <1>0, <2>1 DEF TypeOK
  <2>5. TypeOK'
    BY <1>0, <1>w, <2>1, <2>2, <2>3, <2>4 DEF TypeOK, CallStates
  <2>6. CallInv'
    BY <1>0, <1>w, <2>1, <2>2, <2>4 DEF TypeOK, Writing
  <2>7. LifeInv'
    BY <1>0, <1>w, <2>1, <2>2 DEF Writing
  <2>8. BoundInv'
    BY <1>0, <2>1 DEF TypeOK
  <2> QED BY <2>5, <2>6, <2>7, <2>8
<1>7. ASSUME NEW h \in Handles, WriteFails(h) \/ WriteWaits(h)
      PROVE  TypeOK' /\ CallInv' /\ LifeInv' /\ BoundInv'
  <2>1. CASE WriteFails(h)
    BY <1>0, <2>1 DEF WriteFails, TypeOK, CallStates, Writing, fifoVars, fileVars, ctxVars
  <2>2. CASE WriteWaits(h)
    BY <1>0, <2>2 DEF WriteWaits, TypeOK, CallStates, Writing, fifoVars, fileVars, ctxVars, dataVars
  <2> QED BY <1>7, <2>1, <2>2
<1>8. ASSUME NEW h \in Handles, CloseMark(h) PROVE TypeOK' /\ CallInv' /\ LifeInv' /\ BoundInv'
  BY <1>0, <1>8 DEF CloseMark, TypeOK, fifoVars, ctxVars, dataVars
<1>9. ASSUME NEW h \in Handles, CloseDetach(h) PROVE TypeOK' /\ CallInv' /\ LifeInv' /\ BoundInv'
  <2>1. /\ attached' = attached \ {h} /\ h \in marked /\ pc' = Woken
        /\ UNCHANGED <<buf, epoch, mode, marked, saw, mark, done, wake, pos, end, got, eof, met>>
    BY <1>9 DEF CloseDetach, ctxVars, dataVars
  <2>2. readers' \in Nat /\ writers' \in Nat
    BY <1>0, <1>9 DEF CloseDetach, TypeOK, Bit
  <2>3. TypeOK'
    BY <1>0, <1>w, <2>1, <2>2 DEF TypeOK
  <2> QED BY <1>0, <1>w, <2>1, <2>3
<1>10. ASSUME NEW h \in Handles, Cancel(h) PROVE TypeOK' /\ CallInv' /\ LifeInv' /\ BoundInv'
  BY <1>0, <1>10 DEF Cancel, TypeOK, fifoVars, fileVars, dataVars
<1>11. ASSUME NEW h \in Handles, Wake(h) PROVE TypeOK' /\ CallInv' /\ LifeInv' /\ BoundInv'
  <2>1. pc' = Woken /\ wake' \subseteq wake
        /\ UNCHANGED <<buf, readers, writers, epoch, mode, marked, attached, saw, mark, done,
                       pos, end, got, eof, met>>
    BY <1>11 DEF Wake, fifoVars, fileVars, dataVars
  <2>2. TypeOK'
    BY <1>0, <1>w, <2>1 DEF TypeOK
  <2> QED BY <1>0, <1>w, <2>1, <2>2
<1>12. CASE UNCHANGED vars
  BY <1>0, <1>12 DEF vars, fifoVars, fileVars, ctxVars, dataVars, TypeOK
<1> QED
  BY <1>1, <1>2, <1>3, <1>4, <1>5, <1>6, <1>7, <1>8, <1>9, <1>10, <1>11, <1>12
     DEF Next, ReadStep, WriteStep

-----------------------------------------------------------------------------
\* Every step keeps the sleepers' conditions: whatever changes them is followed
\* by a broadcast in the same critical section.
LEMMA SleepStep == IndInv /\ [Next]_vars => SleepInv'
<1> SUFFICES ASSUME IndInv, [Next]_vars PROVE SleepInv'
  OBVIOUS
<1>0. TypeOK /\ LifeInv /\ SleepInv
  BY DEF IndInv
<1>w. \A h \in Handles : Woken[h] # "readWait" /\ Woken[h] # "writeWait"
  BY <1>0, WokenFacts DEF Waiting
<1> USE DEF SleepInv, ReaderSleepsOnlyIfBlocked, WriterSleepsOnlyIfBlocked
<1>1. ASSUME pc' = Woken PROVE SleepInv'
  BY <1>w, <1>1
<1>2. ASSUME NEW h \in Handles, NEW c, pc' = [Woken EXCEPT ![h] = c], c \notin Waiting PROVE SleepInv'
  <2>1. \A g \in Handles : pc'[g] \notin Waiting
    BY <1>0, <1>w, <1>2, WokenFacts DEF Waiting
  <2> QED BY <2>1 DEF Waiting
<1>3. ASSUME NEW h \in Handles, Open(h) \/ CloseDetach(h) \/ Wake(h) PROVE SleepInv'
  BY <1>1, <1>3 DEF Open, CloseDetach, Wake
<1>4. ASSUME NEW h \in Handles, ReadReturns(h) PROVE SleepInv'
  <2>1. pc' = [Woken EXCEPT ![h] = "idle"] /\ "idle" \notin Waiting
    BY <1>4 DEF ReadReturns, Waiting
  <2> QED BY <1>2, <2>1
<1>5. ASSUME NEW h \in Handles, WriteCopies(h) PROVE SleepInv'
  <2>1. \E k : pc' = [Woken EXCEPT ![h] = IF pos[h] + k = end[h] THEN "idle" ELSE "writing"]
    BY <1>0, <1>5, CopyFacts DEF IndInv
  <2>2. \A k : (IF pos[h] + k = end[h] THEN "idle" ELSE "writing") \notin Waiting
    BY DEF Waiting
  <2> QED BY <1>2, <2>1, <2>2
<1>6. ASSUME NEW h \in Handles, ReadCall(h) \/ WriteCall(h) \/ ReadEOF(h) \/ WriteFails(h)
      PROVE  SleepInv'
  <2>1. /\ \E c \in {"idle", "reading", "writing"} : pc' = [pc EXCEPT ![h] = c]
        /\ UNCHANGED <<buf, readers, writers, epoch, marked, attached, saw, mark, done, wake>>
    BY <1>6 DEF ReadCall, WriteCall, ReadEOF, WriteFails, fifoVars, fileVars, ctxVars
  <2>2. \A g \in Handles : pc'[g] \in Waiting => pc'[g] = pc[g]
    BY <1>0, <2>1 DEF TypeOK, Waiting
  <2> QED BY <1>0, <2>1, <2>2 DEF Waiting, WriterLeft, ReaderLeft, Blocked, Full
<1>7. ASSUME NEW h \in Handles, ReadFails(h) \/ ReadWaits(h) PROVE SleepInv'
  <2>1. /\ saw' \in {saw, [saw EXCEPT ![h]["writer"] = @ \/ writers > 0]}
        /\ UNCHANGED <<buf, readers, writers, epoch, marked, attached, mark, done, wake>>
    BY <1>7 DEF ReadFails, ReadWaits, fifoVars, ctxVars
  <2>2. \A g \in Handles : (WriterLeft(g)' => WriterLeft(g)) /\ (ReaderLeft(g)' => ReaderLeft(g))
    <3>1. ASSUME NEW g \in Handles
          PROVE  /\ saw'[g]["reader"] = saw[g]["reader"]
                 /\ saw'[g]["writer"] => saw[g]["writer"] \/ writers > 0
      <4>1. saw \in [Handles -> [{"reader", "writer"} -> BOOLEAN]]
        BY <1>0 DEF TypeOK, Ends
      <4>2. CASE saw' = saw
        BY <4>2
      <4>3. CASE saw' = [saw EXCEPT ![h]["writer"] = @ \/ writers > 0] /\ g = h
        BY <4>1, <4>3
      <4>4. CASE saw' = [saw EXCEPT ![h]["writer"] = @ \/ writers > 0] /\ g # h
        BY <4>1, <4>4
      <4> QED BY <2>1, <4>2, <4>3, <4>4
    <3>2. writers \in Nat
      BY <1>0 DEF TypeOK
    <3> QED BY <2>1, <3>1, <3>2 DEF WriterLeft, ReaderLeft
  <2>3. \/ /\ pc' = [pc EXCEPT ![h] = "idle"]
        \/ /\ pc' = [pc EXCEPT ![h] = "readWait"]
           /\ buf = <<>> /\ h \notin marked /\ ~WriterLeft(h) /\ h \notin done
    BY <1>7 DEF ReadFails, ReadWaits
  <2>4. ASSUME NEW g \in Handles, pc'[g] = "readWait"
        PROVE  /\ buf = <<>> /\ ~WriterLeft(g)
               /\ g \in marked => g \in attached
               /\ g \in done => g \in wake \/ g \in marked
    BY <1>0, <2>3, <2>4 DEF TypeOK
  <2>5. ASSUME NEW g \in Handles, pc'[g] = "writeWait" PROVE pc[g] = "writeWait"
    BY <1>0, <2>3, <2>5 DEF TypeOK
  <2> QED BY <1>0, <2>1, <2>2, <2>4, <2>5 DEF Blocked, Full
<1>8. ASSUME NEW h \in Handles, WriteWaits(h) PROVE SleepInv'
  <2>1. /\ pc' = [pc EXCEPT ![h] = "writeWait"]
        /\ Blocked /\ h \notin marked /\ ~ReaderLeft(h) /\ h \notin done
        /\ UNCHANGED <<buf, readers, writers, epoch, marked, attached, saw, mark, done, wake>>
    BY <1>8 DEF WriteWaits, fifoVars, fileVars, ctxVars
  <2>2. \A g \in Handles : /\ pc'[g] = "readWait" => pc[g] = "readWait"
                           /\ pc'[g] = "writeWait" => pc[g] = "writeWait" \/ g = h
    BY <1>0, <2>1 DEF TypeOK
  <2> QED BY <1>0, <2>1, <2>2 DEF WriterLeft, ReaderLeft, Blocked, Full
<1>9. ASSUME NEW h \in Handles, CloseMark(h) PROVE SleepInv'
  <2>1. /\ marked' = marked \cup {h} /\ h \in attached
        /\ UNCHANGED <<buf, readers, writers, epoch, attached, saw, mark, pc, done, wake>>
    BY <1>9 DEF CloseMark, fifoVars, ctxVars
  <2> QED BY <1>0, <2>1 DEF WriterLeft, ReaderLeft, Blocked, Full
<1>10. ASSUME NEW h \in Handles, Cancel(h) PROVE SleepInv'
  <2>1. /\ done' = done \cup {h}
        /\ wake' = IF h \in attached \ marked THEN wake \cup {h} ELSE wake
        /\ UNCHANGED <<buf, readers, writers, epoch, marked, attached, saw, mark, pc>>
    BY <1>10 DEF Cancel, fifoVars, fileVars
  <2>2. pc[h] \in Waiting => h \in attached \/ h \in marked
    BY <1>0 DEF LifeInv, Waiting
  <2> QED BY <1>0, <2>1, <2>2 DEF WriterLeft, ReaderLeft, Blocked, Full, Waiting
<1>11. CASE UNCHANGED vars
  BY <1>0, <1>11 DEF vars, fifoVars, fileVars, ctxVars, WriterLeft, ReaderLeft, Blocked, Full
<1> QED
  BY <1>3, <1>4, <1>5, <1>6, <1>7, <1>8, <1>9, <1>10, <1>11 DEF Next, ReadStep, WriteStep

-----------------------------------------------------------------------------
\* The invariant holds initially.
LEMMA IndInvInit == Init => IndInv
<1> SUFFICES ASSUME Init PROVE IndInv
  OBVIOUS
<1> USE CapacityAssumption, MaxBytesAssumption DEF Init
<1>1. buf \in Seq(Bytes) /\ got \in Seq(Bytes) /\ Len(buf) = 0
  BY EmptySeq
<1>2. TypeOK
  BY <1>1 DEF TypeOK, Ends, CallStates
<1>3. CallInv /\ LifeInv /\ SleepInv
  BY DEF CallInv, LifeInv, SleepInv, ReaderSleepsOnlyIfBlocked, WriterSleepsOnlyIfBlocked, Writing
<1>4. BoundInv
  BY <1>1 DEF BoundInv
<1> QED BY <1>2, <1>3, <1>4 DEF IndInv

\* The inductive invariant of the FIFO.
THEOREM FIFOInvariant == Spec => []IndInv
<1>1. IndInv /\ [Next]_vars => IndInv'
  BY TypeStep, SleepStep DEF IndInv
<1> QED BY IndInvInit, <1>1, PTL DEF Spec

\* Every variable of the FIFO keeps its type; in particular no counter of
\* readers or writers goes below zero.
THEOREM TypeCorrect == Spec => []TypeOK
BY FIFOInvariant, PTL DEF IndInv

\* Nobody sleeps in Read who could return: no broadcast of a Write, an Open, a
\* Close or a context is missed.
THEOREM ReadersNotForgotten == Spec => []ReaderSleepsOnlyIfBlocked
BY FIFOInvariant, PTL DEF IndInv, SleepInv

\* Nobody sleeps in Write who could go on or fail.
THEOREM WritersNotForgotten == Spec => []WriterSleepsOnlyIfBlocked
BY FIFOInvariant, PTL DEF IndInv, SleepInv

\* For any handles and modes the FIFO is a bounded first-in first-out channel.
THEOREM FIFOIsChannel == Spec => ImplementsChannel
<1>1. Init => Channel!ChannelInit
  BY DEF Init, Channel!ChannelInit
<1>2. IndInv /\ [Next]_vars => [Channel!ChannelNext]_(Channel!channelVars)
  <2> SUFFICES ASSUME IndInv, [Next]_vars
               PROVE  Channel!ChannelNext \/ UNCHANGED <<buf, got>>
    BY DEF Channel!channelVars
  <2>0. TypeOK /\ CallInv /\ BoundInv
    BY DEF IndInv
  <2>1. ASSUME NEW h \in Handles, WriteCopies(h) PROVE Channel!Put
    <3>1. PICK k \in 1..(Capacity - Len(buf)) :
            Chunk(h, k) \in [1..k -> Bytes] /\ buf' = buf \o Chunk(h, k)
      BY <2>0, <2>1, CopyFacts
    <3>2. UNCHANGED got
      BY <2>1 DEF WriteCopies
    <3> QED BY <3>1, <3>2 DEF Channel!Put
  <2>2. ASSUME NEW h \in Handles, ReadReturns(h) PROVE Channel!Take
    BY <2>2 DEF ReadReturns, Rest, Channel!Take
  <2>3. ASSUME NEW h \in Handles,
               \/ Open(h) \/ ReadCall(h) \/ ReadEOF(h) \/ ReadFails(h) \/ ReadWaits(h)
               \/ WriteCall(h) \/ WriteFails(h) \/ WriteWaits(h)
               \/ CloseMark(h) \/ CloseDetach(h) \/ Cancel(h) \/ Wake(h)
        PROVE  UNCHANGED <<buf, got>>
    BY <2>3 DEF Open, ReadCall, ReadEOF, ReadFails, ReadWaits, WriteCall, WriteFails, WriteWaits,
                CloseMark, CloseDetach, Cancel, Wake, fifoVars, dataVars
  <2>4. CASE UNCHANGED vars
    BY <2>4 DEF vars, fifoVars, dataVars
  <2> QED
    BY <2>1, <2>2, <2>3, <2>4 DEF Next, ReadStep, WriteStep, Channel!ChannelNext
<1> QED
  BY <1>1, <1>2, FIFOInvariant, PTL DEF Spec, ImplementsChannel, Channel!ChannelSpec
-----------------------------------------------------------------------------
\* Open and the locked half of Close are the only steps that change who is
\* attached, and they change the counters accordingly.
LEMMA CountStep == IndInv /\ CountInv /\ [Next]_vars => CountInv'
<1> SUFFICES ASSUME IndInv, CountInv, [Next]_vars PROVE CountInv'
  OBVIOUS
<1>0. TypeOK /\ LifeInv
  BY DEF IndInv
<1>f. /\ IsFiniteSet(OpenReaders) /\ IsFiniteSet(OpenWriters)
      /\ Cardinality(OpenReaders) \in Nat /\ Cardinality(OpenWriters) \in Nat
  <2>1. OpenReaders \subseteq Handles /\ OpenWriters \subseteq Handles
    BY <1>0 DEF OpenReaders, OpenWriters, TypeOK
  <2>2. IsFiniteSet(OpenReaders) /\ IsFiniteSet(OpenWriters)
    BY <2>1, HandlesFinite, FS_Subset
  <2> QED BY <2>2, FS_CardinalityType
<1>1. ASSUME UNCHANGED <<readers, writers, mode, attached>> PROVE CountInv'
  BY <1>1 DEF CountInv, OpenReaders, OpenWriters
<1>2. ASSUME NEW h \in Handles, Open(h) PROVE CountInv'
  <2>1. PICK m \in scene.flags[h] : /\ mode' = [mode EXCEPT ![h] = m]
                              /\ readers' = readers + Bit(CanRead(m))
                              /\ writers' = writers + Bit(CanWrite(m))
    BY <1>2 DEF Open
  <2>2. attached' = attached \cup {h} /\ h \notin attached
    BY <1>0, <1>2 DEF Open, LifeInv
  <2>3. /\ OpenReaders' = IF CanRead(m) THEN OpenReaders \cup {h} ELSE OpenReaders
        /\ OpenWriters' = IF CanWrite(m) THEN OpenWriters \cup {h} ELSE OpenWriters
        /\ h \notin OpenReaders /\ h \notin OpenWriters
    BY <1>0, <2>1, <2>2 DEF OpenReaders, OpenWriters, TypeOK
  <2>4. /\ Cardinality(OpenReaders \cup {h}) = Cardinality(OpenReaders) + 1
        /\ Cardinality(OpenWriters \cup {h}) = Cardinality(OpenWriters) + 1
    BY <1>f, <2>3, FS_AddElement
  <2>5. readers' = Cardinality(OpenReaders')
    BY <1>f, <2>1, <2>3, <2>4 DEF CountInv, Bit
  <2>6. writers' = Cardinality(OpenWriters')
    BY <1>f, <2>1, <2>3, <2>4 DEF CountInv, Bit
  <2> QED BY <2>5, <2>6 DEF CountInv
<1>3. ASSUME NEW h \in Handles, CloseDetach(h) PROVE CountInv'
  <2>1. /\ attached' = attached \ {h} /\ h \in attached /\ mode' = mode
        /\ readers' = readers - Bit(CanRead(mode[h]) /\ readers > 0)
        /\ writers' = writers - Bit(CanWrite(mode[h]) /\ writers > 0)
    BY <1>3 DEF CloseDetach
  <2>2. /\ OpenReaders' = IF CanRead(mode[h]) THEN OpenReaders \ {h} ELSE OpenReaders
        /\ OpenWriters' = IF CanWrite(mode[h]) THEN OpenWriters \ {h} ELSE OpenWriters
        /\ CanRead(mode[h]) => h \in OpenReaders
        /\ CanWrite(mode[h]) => h \in OpenWriters
    BY <2>1 DEF OpenReaders, OpenWriters
  <2>3. /\ h \in OpenReaders => Cardinality(OpenReaders \ {h}) = Cardinality(OpenReaders) - 1
        /\ h \in OpenWriters => Cardinality(OpenWriters \ {h}) = Cardinality(OpenWriters) - 1
        /\ h \in OpenReaders => Cardinality(OpenReaders \ {h}) \in Nat
        /\ h \in OpenWriters => Cardinality(OpenWriters \ {h}) \in Nat
    BY <1>f, FS_RemoveElement, FS_CardinalityType
  <2>4. readers' = Cardinality(OpenReaders')
    BY <1>f, <2>1, <2>2, <2>3 DEF CountInv, Bit
  <2>5. writers' = Cardinality(OpenWriters')
    BY <1>f, <2>1, <2>2, <2>3 DEF CountInv, Bit
  <2> QED BY <2>4, <2>5 DEF CountInv
<1>4. ASSUME NEW h \in Handles,
             \/ ReadCall(h) \/ ReadReturns(h) \/ ReadEOF(h) \/ ReadFails(h) \/ ReadWaits(h)
             \/ WriteCall(h) \/ WriteCopies(h) \/ WriteFails(h) \/ WriteWaits(h)
             \/ CloseMark(h) \/ Cancel(h) \/ Wake(h)
      PROVE  UNCHANGED <<readers, writers, mode, attached>>
  BY <1>4 DEF ReadCall, ReadReturns, ReadEOF, ReadFails, ReadWaits, WriteCall, WriteCopies, WriteFails,
              WriteWaits, CloseMark, Cancel, Wake, fifoVars, fileVars
<1>5. CASE UNCHANGED vars
  BY <1>1, <1>5 DEF vars, fifoVars, fileVars
<1> QED BY <1>1, <1>2, <1>3, <1>4, <1>5 DEF Next, ReadStep, WriteStep

\* The counters of readers and writers are those of the handles attached, so
\* that Close's guards against going below zero never apply.
THEOREM CountersMatch == Spec => []CountInv
<1>1. Init => CountInv
  BY FS_EmptySet DEF Init, CountInv, OpenReaders, OpenWriters
<1> QED BY <1>1, CountStep, FIFOInvariant, PTL DEF Spec
=============================================================================
