----------------------------- MODULE PipeStorage -----------------------------
(***************************************************************************)
(* How the interpreter pipe stores its unread bytes                        *)
(* (internal/shell/interp/virtual_pipe.go): a slice with two positions that *)
(* is allocated when needed, compacted, grown, and given back to a pool.   *)
(* Everything happens under the pipe's mutex, so an action is one call of  *)
(* the locked helpers.  VirtualPipe works with the sequence of unread      *)
(* bytes; this module shows that the slice holds that sequence.            *)
(*                                                                         *)
(* A byte is its number in the order of writing.  A slice from the pool    *)
(* holds what its last user left there: Junk.                              *)
(***************************************************************************)
EXTENDS Naturals, Sequences

CONSTANTS
  MaxBufSize,  \* bound: the largest size newVirtualPipeSize is called with
  Buckets,     \* virtualPipeBufferBuckets
  MinAlloc,    \* minVirtualPipeAllocSize
  MaxBytes     \* bound: bytes ever written

ASSUME MaxBufSizeAssumption == MaxBufSize \in Nat
ASSUME BucketsAssumption == Buckets \subseteq Nat \ {0}
ASSUME MinAllocAssumption == MinAlloc \in Nat \ {0}
ASSUME MaxBytesAssumption == MaxBytes \in Nat

VARIABLES
  bufSize,   \* virtualPipe.bufSize
  cells,     \* virtualPipe.buf, <<>> when it is nil
  readPos, writePos,
  closed, wrClosed,
  written,   \* history: how many bytes have been written
  got        \* history: the bytes returned by Read

vars == <<bufSize, cells, readPos, writePos, closed, wrClosed, written, got>>

Junk == 0
Bytes == 1..MaxBytes

TypeOK ==
  /\ bufSize \in 1..MaxBufSize
  /\ cells \in Seq(Bytes \cup {Junk})
  /\ readPos \in Nat /\ writePos \in Nat
  /\ closed \in BOOLEAN /\ wrClosed \in BOOLEAN
  /\ written \in 0..MaxBytes
  /\ got \in Seq(Bytes)

Init ==
  /\ bufSize \in 1..MaxBufSize
  /\ cells = <<>>
  /\ readPos = 0 /\ writePos = 0
  /\ closed = FALSE /\ wrClosed = FALSE
  /\ written = 0
  /\ got = <<>>

-----------------------------------------------------------------------------
(* A layout is what the helpers work on: a slice and its two positions.    *)

Layout(c, r, w) == [cells |-> c, readPos |-> r, writePos |-> w]
Now == Layout(cells, readPos, writePos)
Nil == Layout(<<>>, 0, 0)

\* unreadLen
UnreadLen(l) == l.writePos - l.readPos

\* p.buf[p.readPos:p.writePos]
Unread(l) == SubSeq(l.cells, l.readPos + 1, l.writePos)

\* copy(dst, src) at the start of dst
CopyInto(dst, src) ==
  [i \in 1..Len(dst) |-> IF i <= Len(src) THEN src[i] ELSE dst[i]]

\* A slice of n cells, fresh or from the pool.
Borrow(n) == [i \in 1..n |-> Junk]

Least(S) == CHOOSE n \in S : \A m \in S : n <= m

\* pooledCapacityFor: the buckets that would do, if the pipe uses the pool.
PooledCapacities(needed) ==
  IF bufSize \in Buckets THEN {n \in Buckets : needed <= n /\ n <= bufSize} ELSE {}

\* The sizes nextBufferCapacity's loop can stop at when it doubles n.
Doublings(n, needed) == {m \in needed..bufSize : \E k \in 0..bufSize : m = n * 2^k}

\* nextBufferCapacity, for 0 < needed <= bufSize
NextCapacity(l, needed) ==
  LET first == IF l.cells # <<>> THEN Len(l.cells)
               ELSE IF needed > MinAlloc THEN needed
               ELSE IF MinAlloc < bufSize THEN MinAlloc ELSE bufSize
  IN  CASE PooledCapacities(needed) # {}      -> Least(PooledCapacities(needed))
        [] PooledCapacities(needed) = {} /\ Doublings(first, needed) # {}
                                              -> Least(Doublings(first, needed))
        [] OTHER                              -> bufSize

\* compactBufferLocked
Compact(l) == Layout(CopyInto(l.cells, Unread(l)), 0, UnreadLen(l))

\* growBufferLocked
Grow(l, n) == Layout(CopyInto(Borrow(n), Unread(l)), 0, UnreadLen(l))

Fits(l, k) == Len(l.cells) - l.writePos >= k

\* Mutant of EnsureCapacity: the unread bytes are forgotten in the new size.
EnsureCapacityForNew(k) ==
  CASE cells = <<>>                       -> Grow(Now, NextCapacity(Now, k))
    [] cells # <<>> /\ Fits(Now, k)       -> Now
    [] cells # <<>> /\ ~Fits(Now, k) /\ Fits(Compact(Now), k) -> Compact(Now)
    [] OTHER                              -> Grow(Compact(Now), NextCapacity(Now, k))

\* ensureWriteCapacityLocked
EnsureCapacity(k) ==
  CASE cells = <<>>                       -> Grow(Now, NextCapacity(Now, k))
    [] cells # <<>> /\ Fits(Now, k)       -> Now
    [] cells # <<>> /\ ~Fits(Now, k) /\ Fits(Compact(Now), k) -> Compact(Now)
    [] OTHER -> Grow(Compact(Now), NextCapacity(Compact(Now), UnreadLen(Now) + k))

\* Mutant of AfterRead: of the two positions only the read position goes back.
AfterReadHalf(l) ==
  CASE UnreadLen(l) > 0                          -> l
    [] UnreadLen(l) = 0 /\ (closed \/ wrClosed)  -> Nil
    [] OTHER                                     -> Layout(l.cells, 0, l.writePos)

\* resetOrReleaseEmptyBufferLocked
AfterRead(l) ==
  CASE UnreadLen(l) > 0                          -> l
    [] UnreadLen(l) = 0 /\ (closed \/ wrClosed)  -> Nil
    [] OTHER                                     -> Layout(l.cells, 0, 0)

Become(l) ==
  /\ cells' = l.cells
  /\ readPos' = l.readPos
  /\ writePos' = l.writePos

-----------------------------------------------------------------------------
\* One round of Write's loop copies k bytes.  It runs even after Close when
\* the writer was waiting (see VirtualPipe), so wrClosed is no guard.
WriteRound(k) ==
  /\ ~closed
  /\ k <= bufSize - UnreadLen(Now)
  /\ written + k <= MaxBytes
  /\ LET l == EnsureCapacity(k)
     IN  Become(Layout(
           [i \in 1..Len(l.cells) |->
              IF l.writePos < i /\ i <= l.writePos + k
              THEN written + i - l.writePos ELSE l.cells[i]],
           l.readPos, l.writePos + k))
  /\ written' = written + k
  /\ UNCHANGED <<bufSize, closed, wrClosed, got>>

\* Read copies n bytes out.
ReadRound(n) ==
  /\ ~closed
  /\ n <= UnreadLen(Now)
  /\ got' = got \o SubSeq(cells, readPos + 1, readPos + n)
  /\ Become(AfterRead(Layout(cells, readPos + n, writePos)))
  /\ UNCHANGED <<bufSize, closed, wrClosed, written>>

\* Close of the write end.
CloseWrite ==
  /\ ~wrClosed
  /\ wrClosed' = TRUE
  /\ Become(IF UnreadLen(Now) = 0 THEN Nil ELSE Now)
  /\ UNCHANGED <<bufSize, closed, written, got>>

\* Close of the read end, or of the write end with an error.
CloseAll ==
  /\ ~closed
  /\ closed' = TRUE
  /\ wrClosed' \in {wrClosed, TRUE}
  /\ Become(Nil)
  /\ UNCHANGED <<bufSize, written, got>>

Next ==
  \/ \E k \in 1..MaxBytes : WriteRound(k) \/ ReadRound(k)
  \/ CloseWrite \/ CloseAll

Spec == Init /\ [][Next]_vars

-----------------------------------------------------------------------------
\* The positions stay inside the slice and the slice within bufSize, so no
\* copy in Read or Write can go out of range, however often the slice is
\* reset, compacted, grown and released.
InBounds ==
  /\ readPos <= writePos
  /\ writePos <= Len(cells)
  /\ Len(cells) <= bufSize

\* A drained pipe whose writer has gone keeps no memory: its slice went back
\* to the pool.
ReleasedAtEnd == closed \/ (wrClosed /\ readPos = writePos) => cells = <<>>

Channel == INSTANCE ByteChannel WITH
             Capacity <- MaxBufSize, queue <- Unread(Now), taken <- got,
             writable <- TRUE, readable <- ~closed

\* The slice implements the sequence of unread bytes that VirtualPipe works
\* with: every byte comes out once and in order, whatever was moved.
HoldsTheQueue == Channel!ChannelSpec
=============================================================================
