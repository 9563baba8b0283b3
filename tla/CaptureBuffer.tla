--------------------------- MODULE CaptureBuffer ----------------------------
(***************************************************************************)
(* The buffer that captures one output stream of an execution              *)
(* (internal/runtime/buffer.go): at most Limit bytes in memory and, if the *)
(* caller gave a directory, the overflow in a spill file of at most        *)
(* SpillMax bytes.  A method holds the buffer's mutex, so it is one step.  *)
(* The i-th byte of the stream is the number i.                            *)
(***************************************************************************)
EXTENDS Naturals, Sequences

CONSTANTS
  Limit,     \* limit; 0 keeps everything in memory
  SpillMax,  \* spillMax
  SpillDir   \* whether there is a directory for a spill file

VARIABLE b   \* the captureBuffer, with three histories: sent, the number of bytes
             \* it was given; disk, what is in the file at its spillPath; and
             \* stray, whether a file stayed behind that it could not remove

Empty ==
  [buf |-> <<>>, truncated |-> FALSE, sent |-> 0, disk |-> <<>>, stray |-> FALSE,
   spillPath |-> FALSE, spillFile |-> FALSE, spillDone |-> FALSE, spillCut |-> FALSE]

Least(x, y) == IF x <= y THEN x ELSE y

UpTo(n) == [i \in 1..n |-> i]

TypeOK ==
  /\ b.sent \in Nat
  /\ b.truncated \in BOOLEAN /\ b.spillCut \in BOOLEAN /\ b.spillDone \in BOOLEAN
  /\ b.spillPath \in BOOLEAN /\ b.spillFile \in BOOLEAN /\ b.stray \in BOOLEAN
  /\ Limit > 0 => Len(b.buf) <= Limit
  /\ Len(b.disk) <= SpillMax

-----------------------------------------------------------------------------
\* Mutant of Abandon: the incomplete file is kept and reported.
AbandonKeeps(c, left) == [c EXCEPT !.spillDone = TRUE, !.spillFile = FALSE]

\* abandonSpillLocked closes the file, forgets it and removes it, without a look
\* at whether that failed and the file is left.
Abandon(c, left) ==
  [c EXCEPT !.spillDone = TRUE, !.spillFile = FALSE, !.spillPath = FALSE,
            !.disk = <<>>, !.stray = left]

\* Mutant of Room: what is in the file is not counted.
RoomOfAll(c) == SpillMax

\* The room left in the spill file.
Room(c) == SpillMax - Len(c.disk)

\* The outcomes of writing p to the open spill file: complete up to the room
\* there is, or part of it followed by an error.
ToFile(c, p) ==
  LET n   == Least(Len(p), Room(c))
      cut == Len(p) > Room(c)
      d   == [c EXCEPT !.spillDone = @ \/ cut, !.spillCut = @ \/ cut]
  IN {[d EXCEPT !.disk = @ \o SubSeq(p, 1, n)]}
       \cup UNION {{Abandon([d EXCEPT !.disk = @ \o SubSeq(p, 1, k)], left) : left \in BOOLEAN} :
                     k \in 0..n}

\* spillLocked; creating the file may fail.
Spill(c, p) ==
  IF ~SpillDir \/ c.spillDone THEN {c}
  ELSE IF c.spillFile THEN ToFile(c, p)
  ELSE {[c EXCEPT !.spillDone = TRUE]}
         \cup ToFile([c EXCEPT !.spillFile = TRUE, !.spillPath = TRUE], p)

\* The outcomes of writing n bytes: what fits goes to memory, the rest to the
\* spill file.  The caller is told that all were written.
Written(c, n) ==
  LET keep == IF Limit = 0 THEN n ELSE Least(n, Limit - Len(c.buf))
      next == [i \in 1..n |-> c.sent + i]
      d    == [c EXCEPT !.sent = @ + n, !.buf = @ \o SubSeq(next, 1, keep)]
  IN IF keep = n THEN {d}
     ELSE Spill([d EXCEPT !.truncated = TRUE], SubSeq(next, keep + 1, n))

\* The outcomes of Close; closing the file may fail.
Closed(c) ==
  LET d == [c EXCEPT !.spillFile = FALSE, !.spillDone = TRUE]
  IN {d} \cup (IF c.spillFile THEN {Abandon(d, left) : left \in BOOLEAN} ELSE {})

\* SpillTruncated
SpillTruncated(c) == c.spillCut /\ c.spillPath

Init == b = Empty
Write(n) == b' \in Written(b, n)
Close == b' \in Closed(b)
=============================================================================
