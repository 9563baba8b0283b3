-------------------------- MODULE PipeStorageProofs --------------------------
(***************************************************************************)
(* Proofs about PipeStorage: for every buffer size, bucket list and first  *)
(* allocation the slice stays in range and holds the queue of unread bytes.*)
(***************************************************************************)
EXTENDS PipeStorage, SequenceTheorems, WellFoundedInduction, TLAPS

\* A non-empty set of naturals has a least element, which Least finds.
LEMMA LeastMember ==
  ASSUME NEW S, S \subseteq Nat, S # {}
  PROVE  Least(S) \in S /\ \A m \in S : Least(S) <= m
<1> DEFINE Below == {ss \in Nat \X Nat : ss[1] < ss[2]}
<1>1. IsWellFoundedOn(Below, Nat)
  BY NatLessThanWellFounded, Zenon DEF OpToRel
<1>2. \E n \in S : \A m \in S : ~(<<m, n>> \in Below)
  <2> HIDE DEF Below
  <2> QED
    BY <1>1, WFMin
<1>3. \E n \in S : \A m \in S : n <= m
  <2>1. PICK n \in S : \A m \in S : ~(<<m, n>> \in Below)
    BY <1>2
  <2>2. ASSUME NEW m \in S PROVE ~(m < n)
    <3>1. m \in Nat /\ n \in Nat /\ ~(<<m, n>> \in Below)
      BY <2>1
    <3>2. <<m, n>> \in Nat \X Nat /\ <<m, n>>[1] = m /\ <<m, n>>[2] = n
      BY <3>1
    <3> QED
      BY <3>1, <3>2, Zenon
  <2> QED
    BY <2>1, <2>2
<1> QED
  BY <1>3 DEF Least

-----------------------------------------------------------------------------
Cells == Bytes \cup {Junk}

\* A layout in range for a pipe of b bytes, with no junk among the unread.
Good(l, b) ==
  /\ l.cells \in Seq(Cells)
  /\ l.readPos \in Nat /\ l.writePos \in Nat
  /\ l.readPos <= l.writePos
  /\ l.writePos <= Len(l.cells)
  /\ Len(l.cells) <= b
  /\ \A i \in (l.readPos + 1)..l.writePos : l.cells[i] \in Bytes

IndInv ==
  /\ TypeOK
  /\ Good(Now, bufSize)
  /\ ReleasedAtEnd

\* The unread bytes as a sequence.
LEMMA UnreadFacts ==
  ASSUME NEW l, NEW b \in Nat, Good(l, b)
  PROVE  /\ UnreadLen(l) \in Nat /\ UnreadLen(l) <= b
         /\ Unread(l) \in Seq(Bytes)
         /\ Len(Unread(l)) = UnreadLen(l)
         /\ \A i \in 1..UnreadLen(l) : Unread(l)[i] = l.cells[l.readPos + i]
<1>1. /\ l.readPos + 1 \in Int /\ l.writePos \in Int /\ Len(l.cells) \in Nat
      /\ \A i \in (l.readPos + 1)..l.writePos : l.cells[i] \in Bytes
  BY DEF Good
<1>2. /\ Unread(l) \in Seq(Bytes)
      /\ Len(Unread(l)) = IF l.readPos + 1 <= l.writePos THEN l.writePos - (l.readPos + 1) + 1 ELSE 0
      /\ \A i \in 1..(l.writePos - (l.readPos + 1) + 1) :
           Unread(l)[i] = l.cells[(l.readPos + 1) + i - 1]
  <2> DEFINE m == l.readPos + 1
             n == l.writePos
             s == l.cells
  <2>1. m \in Int /\ n \in Int /\ s \in Seq(Cells)
    BY <1>1 DEF Good
  <2>2. \A i \in m..n : s[i] \in Bytes
    BY <1>1
  <2>3. Unread(l) = SubSeq(s, m, n)
    BY DEF Unread
  <2> HIDE DEF m, n, s
  <2>4. /\ SubSeq(s, m, n) \in Seq(Bytes)
        /\ Len(SubSeq(s, m, n)) = IF m <= n THEN n - m + 1 ELSE 0
        /\ \A i \in 1..(n - m + 1) : SubSeq(s, m, n)[i] = s[m + i - 1]
    BY <2>1, <2>2, SubSeqProperties
  <2> QED
    BY <2>3, <2>4 DEF m, n, s
<1>3. UnreadLen(l) \in Nat /\ UnreadLen(l) <= b /\ UnreadLen(l) = l.writePos - (l.readPos + 1) + 1
  BY DEF Good, UnreadLen
<1>4. Len(Unread(l)) = UnreadLen(l)
  BY <1>2, <1>3 DEF Good, UnreadLen
<1>5. ASSUME NEW i \in 1..UnreadLen(l) PROVE Unread(l)[i] = l.cells[l.readPos + i]
  <2>1. (l.readPos + 1) + i - 1 = l.readPos + i
    BY <1>1, <1>3 DEF Good
  <2> QED
    BY <1>2, <1>3, <2>1
<1> QED
  BY <1>2, <1>3, <1>4, <1>5

\* What copy does to a slice.
LEMMA CopyFacts ==
  ASSUME NEW dst \in Seq(Cells), NEW src \in Seq(Bytes), Len(src) <= Len(dst)
  PROVE  /\ CopyInto(dst, src) \in Seq(Cells)
         /\ Len(CopyInto(dst, src)) = Len(dst)
         /\ \A i \in 1..Len(src) : CopyInto(dst, src)[i] = src[i]
<1>1. \A i \in 1..Len(dst) : (IF i <= Len(src) THEN src[i] ELSE dst[i]) \in Cells
  BY DEF Cells
<1>2. CopyInto(dst, src) \in [1..Len(dst) -> Cells]
  BY <1>1 DEF CopyInto
<1>3. Len(dst) \in Nat /\ Len(src) \in Nat
  OBVIOUS
<1>4. CopyInto(dst, src) \in Seq(Cells) /\ Len(CopyInto(dst, src)) = Len(dst)
  BY <1>2, <1>3
<1> QED
  BY <1>3, <1>4 DEF CopyInto

\* A layout that starts with the unread bytes of l holds the same bytes.
LEMMA MovedFacts ==
  ASSUME NEW l, NEW b \in Nat, Good(l, b),
         NEW dst \in Seq(Cells), UnreadLen(l) <= Len(dst), Len(dst) <= b
  PROVE  LET m == Layout(CopyInto(dst, Unread(l)), 0, UnreadLen(l))
         IN  /\ Good(m, b)
             /\ Unread(m) = Unread(l)
             /\ Len(m.cells) = Len(dst)
             /\ m.writePos = UnreadLen(l)
<1> DEFINE c == CopyInto(dst, Unread(l))
           m == Layout(c, 0, UnreadLen(l))
<1>1. /\ UnreadLen(l) \in Nat /\ UnreadLen(l) <= b
      /\ Unread(l) \in Seq(Bytes) /\ Len(Unread(l)) = UnreadLen(l)
  BY UnreadFacts
<1>2. /\ c \in Seq(Cells) /\ Len(c) = Len(dst)
      /\ \A i \in 1..UnreadLen(l) : c[i] = Unread(l)[i]
  BY <1>1, CopyFacts
<1> HIDE DEF c
<1>3. m.cells = c /\ m.readPos = 0 /\ m.writePos = UnreadLen(l)
  BY DEF Layout
<1>4. \A i \in 1..UnreadLen(l) : c[i] \in Bytes
  BY <1>1, <1>2
<1> HIDE DEF m
<1>5. Good(m, b)
  BY <1>1, <1>2, <1>3, <1>4 DEF Good
<1>6. /\ Unread(m) \in Seq(Bytes) /\ Len(Unread(m)) = UnreadLen(m)
      /\ \A i \in 1..UnreadLen(m) : Unread(m)[i] = m.cells[m.readPos + i]
  BY <1>5, UnreadFacts
<1>7. UnreadLen(m) = UnreadLen(l)
  BY <1>1, <1>3 DEF UnreadLen
<1>8. \A i \in 1..UnreadLen(l) : Unread(m)[i] = Unread(l)[i]
  BY <1>1, <1>2, <1>3, <1>6, <1>7
<1>9. Unread(m) = Unread(l)
  BY <1>1, <1>6, <1>7, <1>8, SeqEqual
<1> QED
  BY <1>2, <1>3, <1>5, <1>9 DEF c, m

\* compactBufferLocked moves the unread bytes to the front and loses none.
LEMMA CompactFacts ==
  ASSUME NEW l, NEW b \in Nat, Good(l, b)
  PROVE  /\ Good(Compact(l), b)
         /\ Unread(Compact(l)) = Unread(l)
         /\ Len(Compact(l).cells) = Len(l.cells)
         /\ Compact(l).writePos = UnreadLen(l)
<1>1. l.cells \in Seq(Cells) /\ UnreadLen(l) <= Len(l.cells) /\ Len(l.cells) <= b
  BY DEF Good, UnreadLen
<1> QED
  BY <1>1, MovedFacts DEF Compact

\* growBufferLocked moves them to a slice of n cells.
LEMMA GrowFacts ==
  ASSUME NEW l, NEW b \in Nat, Good(l, b), NEW n \in Nat, UnreadLen(l) <= n, n <= b
  PROVE  /\ Good(Grow(l, n), b)
         /\ Unread(Grow(l, n)) = Unread(l)
         /\ Len(Grow(l, n).cells) = n
         /\ Grow(l, n).writePos = UnreadLen(l)
<1>1. Borrow(n) \in Seq(Cells) /\ Len(Borrow(n)) = n
  BY DEF Borrow, Cells
<1> QED
  BY <1>1, MovedFacts DEF Grow

\* nextBufferCapacity returns at least what is needed and at most bufSize.
LEMMA CapacityFacts ==
  ASSUME TypeOK, NEW l, NEW needed \in 1..bufSize
  PROVE  NextCapacity(l, needed) \in needed..bufSize
<1>0. bufSize \in Nat /\ needed \in Nat /\ needed <= bufSize
  BY MaxBufSizeAssumption DEF TypeOK
<1>1. PooledCapacities(needed) \subseteq needed..bufSize
  <2> SUFFICES ASSUME NEW n \in PooledCapacities(needed) PROVE n \in needed..bufSize
    OBVIOUS
  <2>1. n \in Buckets /\ needed <= n /\ n <= bufSize
    BY DEF PooledCapacities
  <2>2. n \in Nat
    BY <2>1, BucketsAssumption
  <2> QED
    BY <1>0, <2>1, <2>2
<1>2. \A n : Doublings(n, needed) \subseteq needed..bufSize
  BY DEF Doublings
<1>3. ASSUME NEW S, S \subseteq needed..bufSize, S # {} PROVE Least(S) \in needed..bufSize
  <2>1. S \subseteq Nat
    BY <1>0, <1>3
  <2> QED
    BY <1>3, <2>1, LeastMember
<1>4. bufSize \in needed..bufSize
  BY <1>0
<1> DEFINE first == IF l.cells # <<>> THEN Len(l.cells)
                    ELSE IF needed > MinAlloc THEN needed
                    ELSE IF MinAlloc < bufSize THEN MinAlloc ELSE bufSize
<1>5. NextCapacity(l, needed) =
        CASE PooledCapacities(needed) # {} -> Least(PooledCapacities(needed))
          [] PooledCapacities(needed) = {} /\ Doublings(first, needed) # {}
                                           -> Least(Doublings(first, needed))
          [] OTHER                         -> bufSize
  BY DEF NextCapacity
<1> HIDE DEF first
<1>6. CASE PooledCapacities(needed) # {}
  BY <1>1, <1>3, <1>5, <1>6
<1>7. CASE PooledCapacities(needed) = {} /\ Doublings(first, needed) # {}
  <2>1. NextCapacity(l, needed) = Least(Doublings(first, needed))
    BY <1>5, <1>7
  <2> QED
    BY <1>2, <1>3, <1>7, <2>1
<1>8. CASE PooledCapacities(needed) = {} /\ Doublings(first, needed) = {}
  BY <1>4, <1>5, <1>8
<1> QED
  BY <1>6, <1>7, <1>8

\* ensureWriteCapacityLocked makes room for k bytes behind the unread ones.
LEMMA EnsureFacts ==
  ASSUME TypeOK, Good(Now, bufSize), NEW k \in Nat, 1 <= k, k <= bufSize - UnreadLen(Now)
  PROVE  /\ Good(EnsureCapacity(k), bufSize)
         /\ Unread(EnsureCapacity(k)) = Unread(Now)
         /\ EnsureCapacity(k).writePos + k <= Len(EnsureCapacity(k).cells)
<1>0. bufSize \in Nat
  BY MaxBufSizeAssumption DEF TypeOK
<1>1. UnreadLen(Now) \in Nat /\ UnreadLen(Now) <= bufSize
  BY <1>0, UnreadFacts
<1>2. Now.cells = cells /\ Now.readPos = readPos /\ Now.writePos = writePos
  BY DEF Now, Layout
<1>3. CASE cells = <<>>
  <2>1. UnreadLen(Now) = 0
    BY <1>2, <1>3 DEF Good, UnreadLen
  <2>2. NextCapacity(Now, k) \in k..bufSize
    BY <1>0, <2>1, CapacityFacts
  <2> DEFINE n == NextCapacity(Now, k)
  <2>3. n \in Nat /\ k <= n /\ n <= bufSize
    BY <1>0, <2>2
  <2>4. EnsureCapacity(k) = Grow(Now, n)
    BY <1>3 DEF EnsureCapacity
  <2> HIDE DEF n
  <2>5. /\ Good(Grow(Now, n), bufSize) /\ Unread(Grow(Now, n)) = Unread(Now)
        /\ Len(Grow(Now, n).cells) = n /\ Grow(Now, n).writePos = UnreadLen(Now)
    BY <1>0, <2>1, <2>3, GrowFacts
  <2> QED
    BY <2>1, <2>3, <2>4, <2>5
<1>4. CASE cells # <<>> /\ Fits(Now, k)
  <2>1. EnsureCapacity(k) = Now
    BY <1>4 DEF EnsureCapacity
  <2> QED
    BY <1>4, <2>1 DEF Fits, Good
<1>5. /\ Good(Compact(Now), bufSize) /\ Unread(Compact(Now)) = Unread(Now)
      /\ Compact(Now).writePos = UnreadLen(Now)
  BY <1>0, CompactFacts
<1>6. CASE cells # <<>> /\ ~Fits(Now, k) /\ Fits(Compact(Now), k)
  <2>1. EnsureCapacity(k) = Compact(Now)
    BY <1>6 DEF EnsureCapacity
  <2> QED
    BY <1>5, <1>6, <2>1 DEF Fits, Good
<1>7. CASE cells # <<>> /\ ~Fits(Now, k) /\ ~Fits(Compact(Now), k)
  <2> DEFINE m == Compact(Now)
             n == NextCapacity(m, UnreadLen(Now) + k)
  <2>1. EnsureCapacity(k) = Grow(m, n)
    BY <1>7 DEF EnsureCapacity
  <2>2. UnreadLen(Now) + k \in 1..bufSize
    BY <1>0, <1>1
  <2>3. n \in Nat /\ UnreadLen(Now) + k <= n /\ n <= bufSize
    BY <1>0, <1>1, <2>2, CapacityFacts
  <2>4. UnreadLen(m) = UnreadLen(Now)
    BY <1>0, <1>5, UnreadFacts
  <2> HIDE DEF m, n
  <2>5. /\ Good(Grow(m, n), bufSize) /\ Unread(Grow(m, n)) = Unread(m)
        /\ Len(Grow(m, n).cells) = n /\ Grow(m, n).writePos = UnreadLen(m)
    <3>1. Good(m, bufSize) /\ UnreadLen(m) <= n
      BY <1>1, <1>5, <2>3, <2>4 DEF m
    <3> QED
      BY <1>0, <2>3, <3>1, GrowFacts
  <2>6. Unread(m) = Unread(Now)
    BY <1>5 DEF m
  <2> QED
    BY <1>1, <2>1, <2>3, <2>4, <2>5, <2>6
<1> QED
  BY <1>3, <1>4, <1>6, <1>7

-----------------------------------------------------------------------------
\* One round of Write appends k new bytes to the unread ones, in range.
LEMMA WriteRoundFacts ==
  ASSUME IndInv, NEW k \in 1..MaxBytes, WriteRound(k)
  PROVE  /\ TypeOK'
         /\ Good(Now, bufSize)'
         /\ Unread(Now)' = Unread(Now) \o [i \in 1..k |-> written + i]
         /\ [i \in 1..k |-> written + i] \in [1..k -> Bytes]
         /\ UnreadLen(Now) + k <= bufSize
         /\ readPos' # writePos'
<1> DEFINE l == EnsureCapacity(k)
           new == [i \in 1..k |-> written + i]
           c == [i \in 1..Len(l.cells) |->
                   IF l.writePos < i /\ i <= l.writePos + k
                   THEN written + i - l.writePos ELSE l.cells[i]]
<1>0. TypeOK /\ Good(Now, bufSize) /\ bufSize \in Nat /\ MaxBytes \in Nat
      /\ k \in Nat /\ 1 <= k /\ written \in Nat
  BY MaxBufSizeAssumption, MaxBytesAssumption DEF IndInv, TypeOK
<1>1. k <= bufSize - UnreadLen(Now) /\ written + k <= MaxBytes
  BY DEF WriteRound
<1>2. /\ UnreadLen(Now) \in Nat /\ Unread(Now) \in Seq(Bytes)
      /\ Len(Unread(Now)) = UnreadLen(Now)
  BY <1>0, UnreadFacts
<1>3. /\ Good(l, bufSize) /\ Unread(l) = Unread(Now)
      /\ l.writePos + k <= Len(l.cells)
  BY <1>0, <1>1, EnsureFacts
<1>4. /\ cells' = c /\ readPos' = l.readPos /\ writePos' = l.writePos + k
      /\ written' = written + k /\ UNCHANGED <<bufSize, closed, wrClosed, got>>
  BY DEF WriteRound, Become, Layout
<1> HIDE DEF l
<1>5. /\ UnreadLen(l) = UnreadLen(Now)
      /\ \A i \in 1..UnreadLen(l) : Unread(l)[i] = l.cells[l.readPos + i]
  BY <1>0, <1>2, <1>3, UnreadFacts
<1>6. /\ l.cells \in Seq(Cells) /\ Len(l.cells) \in Nat
      /\ l.readPos \in Nat /\ l.writePos \in Nat /\ l.readPos <= l.writePos
      /\ Len(l.cells) <= bufSize
      /\ \A i \in (l.readPos + 1)..l.writePos : l.cells[i] \in Bytes
      /\ UnreadLen(l) = l.writePos - l.readPos
  BY <1>3 DEF Good, UnreadLen
<1>7. \A i \in (l.writePos + 1)..(l.writePos + k) : written + i - l.writePos \in Bytes
  BY <1>0, <1>1, <1>6, SMTT(30) DEF Bytes
<1>8. c \in [1..Len(l.cells) -> Cells]
  <2>1. \A i \in 1..Len(l.cells) : l.cells[i] \in Cells
    BY <1>6
  <2>2. ASSUME NEW i \in 1..Len(l.cells)
        PROVE (IF l.writePos < i /\ i <= l.writePos + k
               THEN written + i - l.writePos ELSE l.cells[i]) \in Cells
    BY <1>0, <1>6, <1>7, <2>1 DEF Cells
  <2> QED
    BY <2>2
<1>9. c \in Seq(Cells) /\ Len(c) = Len(l.cells)
  BY <1>6, <1>8
<1>10. \A i \in (l.readPos + 1)..l.writePos : c[i] = l.cells[i]
  BY <1>3, <1>6, <1>0
<1>11. \A i \in (l.writePos + 1)..(l.writePos + k) : c[i] = written + i - l.writePos
  BY <1>3, <1>6, <1>0
<1> HIDE DEF c
<1>12. ASSUME NEW i \in (l.readPos + 1)..(l.writePos + k) PROVE c[i] \in Bytes
  <2>1. CASE i <= l.writePos
    <3>1. i \in (l.readPos + 1)..l.writePos
      BY <1>0, <1>6, <2>1
    <3> QED
      BY <1>6, <1>10, <3>1
  <2>2. CASE ~(i <= l.writePos)
    <3>1. i \in (l.writePos + 1)..(l.writePos + k)
      BY <1>0, <1>6, <2>2
    <3> QED
      BY <1>7, <1>11, <3>1
  <2> QED
    BY <2>1, <2>2
<1> DEFINE m == Layout(c, l.readPos, l.writePos + k)
<1>13. m.cells = c /\ m.readPos = l.readPos /\ m.writePos = l.writePos + k
  BY DEF Layout
<1>14. Now' = m
  BY <1>4 DEF Now, Layout
<1> HIDE DEF m
<1>15. Good(m, bufSize)
  BY <1>0, <1>3, <1>6, <1>9, <1>12, <1>13 DEF Good
<1>16. /\ Unread(m) \in Seq(Bytes) /\ Len(Unread(m)) = UnreadLen(m)
       /\ \A i \in 1..UnreadLen(m) : Unread(m)[i] = m.cells[m.readPos + i]
       /\ UnreadLen(m) = UnreadLen(Now) + k
  <2>1. UnreadLen(m) = (l.writePos + k) - l.readPos
    BY <1>13 DEF UnreadLen
  <2>2. UnreadLen(m) = UnreadLen(Now) + k
    BY <1>0, <1>5, <1>6, <2>1
  <2> QED
    BY <1>0, <1>15, <2>2, UnreadFacts
<1>17. new \in [1..k -> Bytes]
  BY <1>0, <1>1 DEF Bytes
<1>18. new \in Seq(Bytes) /\ Len(new) = k
  BY <1>0, <1>17
<1>19. \A i \in 1..k : new[i] = written + i
  OBVIOUS
<1> HIDE DEF new
<1>20. /\ Unread(Now) \o new \in Seq(Bytes)
       /\ Len(Unread(Now) \o new) = UnreadLen(Now) + k
       /\ \A i \in 1..(UnreadLen(Now) + k) : (Unread(Now) \o new)[i] =
            IF i <= UnreadLen(Now) THEN Unread(Now)[i] ELSE new[i - UnreadLen(Now)]
  <2> DEFINE q == Unread(Now)
  <2>1. q \in Seq(Bytes) /\ new \in Seq(Bytes) /\ Len(q) = UnreadLen(Now) /\ Len(new) = k
    BY <1>2, <1>18
  <2> HIDE DEF q
  <2>2. /\ q \o new \in Seq(Bytes)
        /\ Len(q \o new) = Len(q) + Len(new)
        /\ \A i \in 1..(Len(q) + Len(new)) : (q \o new)[i] =
             IF i <= Len(q) THEN q[i] ELSE new[i - Len(q)]
    BY <2>1, ConcatProperties
  <2> QED
    BY <2>1, <2>2 DEF q
<1>21. ASSUME NEW i \in 1..(UnreadLen(Now) + k)
       PROVE  Unread(m)[i] = (Unread(Now) \o new)[i]
  <2>1. Unread(m)[i] = c[l.readPos + i]
    BY <1>13, <1>16
  <2>2. CASE i <= UnreadLen(Now)
    <3>1. i \in 1..UnreadLen(l) /\ l.readPos + i \in (l.readPos + 1)..l.writePos
      BY <1>0, <1>2, <1>5, <1>6, <2>2
    <3>2. c[l.readPos + i] = Unread(Now)[i]
      BY <1>3, <1>5, <1>10, <3>1
    <3> QED
      BY <1>20, <2>1, <2>2, <3>2
  <2>3. CASE ~(i <= UnreadLen(Now))
    <3>1. /\ l.readPos + i \in (l.writePos + 1)..(l.writePos + k)
          /\ i - UnreadLen(Now) \in 1..k
          /\ written + (l.readPos + i) - l.writePos = written + (i - UnreadLen(Now))
      <4> DEFINE r == l.readPos
                 w == l.writePos
                 u == UnreadLen(Now)
      <4>1. /\ r \in Nat /\ w \in Nat /\ u \in Nat /\ k \in Nat /\ written \in Nat
            /\ u = w - r /\ i \in 1..(u + k) /\ ~(i <= u)
        BY <1>0, <1>2, <1>5, <1>6, <2>3
      <4> HIDE DEF r, w, u
      <4>2. r + i \in (w + 1)..(w + k)
        BY ONLY <4>1
      <4>3. i - u \in 1..k
        BY ONLY <4>1
      <4>4. written + (r + i) - w = written + (i - u)
        BY ONLY <4>1
      <4> QED
        BY <4>2, <4>3, <4>4 DEF r, w, u
    <3>2. c[l.readPos + i] = new[i - UnreadLen(Now)]
      BY <1>11, <1>19, <3>1
    <3> QED
      BY <1>20, <2>1, <2>3, <3>2
  <2> QED
    BY <2>2, <2>3
<1>22. Unread(m) = Unread(Now) \o new
  BY <1>16, <1>20, <1>21, SeqEqual
<1>23. Unread(Now)' = Unread(m) /\ Good(Now, bufSize)'
  BY <1>4, <1>14, <1>15 DEF Unread, Good
<1>24. TypeOK'
  BY <1>0, <1>1, <1>4, <1>6, <1>9 DEF TypeOK, Cells
<1>25. UnreadLen(Now) + k <= bufSize /\ readPos' # writePos'
  BY <1>0, <1>1, <1>2, <1>4, <1>6
<1> QED
  BY <1>17, <1>22, <1>23, <1>24, <1>25 DEF new

\* One round of Read takes the first n unread bytes and leaves the others.
LEMMA ReadRoundFacts ==
  ASSUME IndInv, NEW n \in 1..MaxBytes, ReadRound(n)
  PROVE  /\ TypeOK'
         /\ Good(Now, bufSize)'
         /\ n \in 1..Len(Unread(Now))
         /\ got' = got \o SubSeq(Unread(Now), 1, n)
         /\ Unread(Now)' = SubSeq(Unread(Now), n + 1, Len(Unread(Now)))
         /\ ReleasedAtEnd'
<1> DEFINE u == UnreadLen(Now)
           l == Layout(cells, readPos + n, writePos)
<1>0. TypeOK /\ Good(Now, bufSize) /\ bufSize \in Nat /\ n \in Nat /\ 1 <= n
  BY MaxBufSizeAssumption, MaxBytesAssumption DEF IndInv, TypeOK
<1>1. /\ u \in Nat /\ Unread(Now) \in Seq(Bytes) /\ Len(Unread(Now)) = u
      /\ \A i \in 1..u : Unread(Now)[i] = cells[readPos + i]
  BY <1>0, UnreadFacts DEF Now, Layout
<1>2. n <= u /\ ~closed /\ UNCHANGED <<bufSize, closed, wrClosed, written>>
      /\ got' = got \o SubSeq(cells, readPos + 1, readPos + n)
      /\ cells' = AfterRead(l).cells /\ readPos' = AfterRead(l).readPos
      /\ writePos' = AfterRead(l).writePos
  BY DEF ReadRound, Become
<1>3. /\ cells \in Seq(Cells) /\ Len(cells) \in Nat /\ readPos \in Nat /\ writePos \in Nat
      /\ readPos <= writePos /\ writePos <= Len(cells) /\ Len(cells) <= bufSize
      /\ \A i \in (readPos + 1)..writePos : cells[i] \in Bytes
      /\ u = writePos - readPos
  BY <1>0 DEF Good, Now, Layout, UnreadLen
<1>4. l.cells = cells /\ l.readPos = readPos + n /\ l.writePos = writePos
  BY DEF Layout
<1> HIDE DEF l, u
<1>5. Good(l, bufSize) /\ UnreadLen(l) = u - n
  BY <1>0, <1>1, <1>2, <1>3, <1>4 DEF Good, UnreadLen
<1>6. /\ Unread(l) \in Seq(Bytes) /\ Len(Unread(l)) = u - n
      /\ \A i \in 1..(u - n) : Unread(l)[i] = cells[readPos + n + i]
  BY <1>0, <1>4, <1>5, UnreadFacts
<1>7. SubSeq(cells, readPos + 1, readPos + n) = SubSeq(Unread(Now), 1, n)
  <2>1. \A i \in (readPos + 1)..(readPos + n) : cells[i] \in Bytes
    BY <1>0, <1>1, <1>2, <1>3
  <2>2. /\ SubSeq(cells, readPos + 1, readPos + n) \in Seq(Bytes)
        /\ Len(SubSeq(cells, readPos + 1, readPos + n)) = n
        /\ \A i \in 1..n : SubSeq(cells, readPos + 1, readPos + n)[i] = cells[readPos + i]
    <3> DEFINE t == SubSeq(cells, readPos + 1, readPos + n)
    <3>1. /\ t \in Seq(Bytes)
          /\ Len(t) = IF readPos + 1 <= readPos + n THEN (readPos + n) - (readPos + 1) + 1 ELSE 0
          /\ \A i \in 1..((readPos + n) - (readPos + 1) + 1) : t[i] = cells[(readPos + 1) + i - 1]
      <4>1. readPos + 1 \in Int /\ readPos + n \in Int
        BY <1>0, <1>3
      <4> QED
        BY <2>1, <4>1, SubSeqProperties
    <3> HIDE DEF t
    <3>2. (readPos + n) - (readPos + 1) + 1 = n /\ readPos + 1 <= readPos + n
      BY <1>0, <1>3
    <3>3. \A i \in 1..n : (readPos + 1) + i - 1 = readPos + i
      BY <1>0, <1>3
    <3> QED
      BY <3>1, <3>2, <3>3 DEF t
  <2>3. \A i \in 1..n : Unread(Now)[i] \in Bytes
    BY <1>0, <1>1, <1>2
  <2>4. /\ SubSeq(Unread(Now), 1, n) \in Seq(Bytes)
        /\ Len(SubSeq(Unread(Now), 1, n)) = n
        /\ \A i \in 1..n : SubSeq(Unread(Now), 1, n)[i] = Unread(Now)[i]
    BY <1>0, <2>3, SubSeqProperties
  <2>5. \A i \in 1..n : Unread(Now)[i] = cells[readPos + i]
    BY <1>0, <1>1, <1>2
  <2> QED
    BY <2>2, <2>4, <2>5, SeqEqual
<1>8. Unread(l) = SubSeq(Unread(Now), n + 1, u)
  <2>1. \A i \in (n + 1)..u : Unread(Now)[i] \in Bytes
    BY <1>0, <1>1, <1>2
  <2>2. /\ SubSeq(Unread(Now), n + 1, u) \in Seq(Bytes)
        /\ Len(SubSeq(Unread(Now), n + 1, u)) = u - n
        /\ \A i \in 1..(u - n) : SubSeq(Unread(Now), n + 1, u)[i] = Unread(Now)[n + i]
    BY <1>0, <1>1, <1>2, <2>1, SubSeqProperties
  <2>3. \A i \in 1..(u - n) : Unread(Now)[n + i] = cells[readPos + n + i]
    BY <1>0, <1>1, <1>2, <1>3
  <2> QED
    BY <1>6, <2>2, <2>3, SeqEqual
<1>9. /\ Good(AfterRead(l), bufSize) /\ Unread(AfterRead(l)) = Unread(l)
      /\ wrClosed /\ AfterRead(l).readPos = AfterRead(l).writePos => AfterRead(l).cells = <<>>
  <2>1. CASE UnreadLen(l) > 0
    <3>1. AfterRead(l) = l
      BY <2>1 DEF AfterRead
    <3>2. l.readPos # l.writePos
      BY <1>0, <1>3, <1>4, <2>1 DEF UnreadLen
    <3> QED
      BY <1>5, <3>1, <3>2
  <2>2. CASE UnreadLen(l) = 0
    <3>1. Unread(l) = <<>>
      BY <1>5, <1>6, <2>2
    <3>2. AfterRead(l) = IF closed \/ wrClosed THEN Nil ELSE Layout(l.cells, 0, 0)
      BY <2>2 DEF AfterRead
    <3>3. Good(Nil, bufSize) /\ Good(Layout(l.cells, 0, 0), bufSize)
      BY <1>0, <1>3, <1>4 DEF Good, Nil, Layout
    <3>4. Unread(Nil) = <<>> /\ Unread(Layout(l.cells, 0, 0)) = <<>>
      BY <1>0, SubSeqEmpty DEF Unread, Nil, Layout
    <3>5. Nil.cells = <<>>
      BY DEF Nil, Layout
    <3> QED
      BY <3>1, <3>2, <3>3, <3>4, <3>5
  <2> QED
    BY <1>1, <1>2, <1>5, <2>1, <2>2
<1>10. Now' = Layout(AfterRead(l).cells, AfterRead(l).readPos, AfterRead(l).writePos)
  BY <1>2 DEF Now, Layout
<1>11. Unread(Now)' = Unread(AfterRead(l)) /\ Good(Now, bufSize)'
  BY <1>2, <1>9, <1>10 DEF Unread, Good, Layout
<1>12. got' = got \o SubSeq(Unread(Now), 1, n) /\ SubSeq(Unread(Now), 1, n) \in Seq(Bytes)
  <2>1. \A i \in 1..n : Unread(Now)[i] \in Bytes
    BY <1>0, <1>1, <1>2
  <2>2. SubSeq(Unread(Now), 1, n) \in Seq(Bytes)
    BY <1>0, <2>1, SubSeqProperties
  <2> QED
    BY <1>2, <1>7, <2>2
<1>13. TypeOK'
  <2>1. got \in Seq(Bytes) /\ SubSeq(Unread(Now), 1, n) \in Seq(Bytes)
    BY <1>0, <1>12 DEF TypeOK
  <2>2. got' \in Seq(Bytes)
    BY <1>12, <2>1, ConcatProperties
  <2>3. cells' \in Seq(Cells) /\ readPos' \in Nat /\ writePos' \in Nat
    BY <1>2, <1>9 DEF Good
  <2> QED
    BY <1>0, <1>2, <2>2, <2>3 DEF TypeOK, Cells
<1>14. ReleasedAtEnd'
  BY <1>2, <1>9 DEF ReleasedAtEnd
<1>15. n \in 1..Len(Unread(Now))
  BY <1>0, <1>1, <1>2
<1>16. Unread(Now)' = SubSeq(Unread(Now), n + 1, Len(Unread(Now)))
  BY <1>1, <1>8, <1>9, <1>11
<1> QED
  BY <1>11, <1>12, <1>13, <1>14, <1>15, <1>16

-----------------------------------------------------------------------------
\* Closing leaves the unread bytes alone or discards them with the slice.
LEMMA CloseFacts ==
  ASSUME IndInv, CloseWrite \/ CloseAll
  PROVE  /\ IndInv'
         /\ CloseWrite => Unread(Now)' = Unread(Now)
         /\ CloseAll => Unread(Now)' = <<>>
<1>0. TypeOK /\ Good(Now, bufSize) /\ bufSize \in Nat
  BY MaxBufSizeAssumption DEF IndInv, TypeOK
<1>1. Nil.cells = <<>> /\ Nil.readPos = 0 /\ Nil.writePos = 0 /\ Unread(Nil) = <<>>
  BY SubSeqEmpty DEF Nil, Layout, Unread
<1>2. Good(Nil, bufSize)
  BY <1>0, <1>1 DEF Good
<1>3. ASSUME Become(Nil), bufSize' = bufSize, written' = written, got' = got,
             closed' \in BOOLEAN, wrClosed' \in BOOLEAN
      PROVE  IndInv' /\ Unread(Now)' = <<>>
  <2>1. cells' = <<>> /\ readPos' = 0 /\ writePos' = 0
    BY <1>1, <1>3 DEF Become
  <2>2. Now' = Nil
    BY <2>1 DEF Now, Nil, Layout
  <2>3. Good(Now, bufSize)' /\ Unread(Now)' = <<>>
    BY <1>1, <1>2, <1>3, <2>2 DEF Good, Unread
  <2>4. TypeOK' /\ ReleasedAtEnd'
    BY <1>0, <1>3, <2>1 DEF TypeOK, ReleasedAtEnd
  <2> QED
    BY <2>3, <2>4 DEF IndInv
<1>4. CASE CloseAll
  <2>1. IndInv' /\ Unread(Now)' = <<>>
    BY <1>0, <1>3, <1>4 DEF CloseAll, TypeOK
  <2>2. CASE CloseWrite
    BY <1>4, <2>2 DEF CloseAll, CloseWrite
  <2> QED
    BY <2>1, <2>2
<1>5. CASE CloseWrite
  <2>0. ~CloseAll
    BY <1>5, <1>0 DEF CloseAll, CloseWrite
  <2>1. CASE UnreadLen(Now) = 0
    <3>1. Become(Nil)
      BY <1>5, <2>1 DEF CloseWrite
    <3>2. Unread(Now) = <<>>
      BY <1>0, <2>1, UnreadFacts, EmptySeq
    <3> QED
      BY <1>0, <1>3, <1>5, <2>0, <3>1, <3>2 DEF CloseWrite, TypeOK
  <2>2. CASE UnreadLen(Now) # 0
    <3>1. Become(Now) /\ UNCHANGED <<bufSize, closed, written, got>> /\ wrClosed' = TRUE
      BY <1>5, <2>2 DEF CloseWrite
    <3>2. UNCHANGED <<cells, readPos, writePos>>
      BY <3>1 DEF Become, Now, Layout
    <3>3. Now' = Now
      BY <3>2 DEF Now, Layout
    <3>4. readPos # writePos /\ (closed => cells = <<>>)
      BY <1>0, <2>2 DEF UnreadLen, Now, Layout, TypeOK, IndInv, ReleasedAtEnd
    <3>5. TypeOK' /\ ReleasedAtEnd'
      BY <1>0, <3>1, <3>2, <3>4 DEF TypeOK, ReleasedAtEnd
    <3>6. Good(Now, bufSize)' /\ Unread(Now)' = Unread(Now)
      BY <1>0, <3>1, <3>3 DEF Good, Unread
    <3> QED
      BY <2>0, <3>5, <3>6 DEF IndInv
  <2> QED
    BY <2>1, <2>2
<1> QED
  BY <1>4, <1>5

\* The inductive invariant of the slice.
THEOREM StorageInvariant == Spec => []IndInv
<1>1. Init => IndInv
  <2> SUFFICES ASSUME Init PROVE IndInv
    OBVIOUS
  <2>1. Now.cells = <<>> /\ Now.readPos = 0 /\ Now.writePos = 0
    BY DEF Init, Now, Layout
  <2>2. bufSize \in Nat /\ MaxBytes \in Nat
    BY MaxBufSizeAssumption, MaxBytesAssumption DEF Init
  <2>3. TypeOK
    <3>1. 0 \in 0..MaxBytes /\ <<>> \in Seq(Bytes) /\ <<>> \in Seq(Bytes \cup {Junk})
      BY <2>2
    <3> QED
      BY <3>1 DEF Init, TypeOK
  <2>4. Good(Now, bufSize)
    BY <2>1, <2>2 DEF Good
  <2> QED
    BY <2>3, <2>4 DEF Init, IndInv, ReleasedAtEnd
<1>2. IndInv /\ [Next]_vars => IndInv'
  <2> SUFFICES ASSUME IndInv, [Next]_vars PROVE IndInv'
    OBVIOUS
  <2>1. ASSUME NEW k \in 1..MaxBytes, WriteRound(k) PROVE IndInv'
    <3>1. TypeOK' /\ Good(Now, bufSize)' /\ readPos' # writePos'
      BY <2>1, WriteRoundFacts
    <3>2. ReleasedAtEnd'
      BY <2>1, <3>1 DEF WriteRound, ReleasedAtEnd
    <3> QED
      BY <3>1, <3>2 DEF IndInv
  <2>2. ASSUME NEW n \in 1..MaxBytes, ReadRound(n) PROVE IndInv'
    BY <2>2, ReadRoundFacts DEF IndInv
  <2>3. CASE CloseWrite \/ CloseAll
    BY <2>3, CloseFacts
  <2>4. CASE UNCHANGED vars
    <3>1. Now' = Now /\ bufSize' = bufSize
      BY <2>4 DEF vars, Now, Layout
    <3>2. Good(Now, bufSize)'
      BY <3>1 DEF IndInv, Good
    <3> QED
      BY <2>4, <3>2 DEF vars, IndInv, TypeOK, ReleasedAtEnd
  <2> QED
    BY <2>1, <2>2, <2>3, <2>4 DEF Next
<1> QED
  BY <1>1, <1>2, PTL DEF Spec

\* Whatever the sizes, no copy of Read or Write goes out of the slice, and a
\* drained pipe without a writer keeps no memory.
THEOREM StorageInBounds == Spec => [](TypeOK /\ InBounds /\ ReleasedAtEnd)
<1>1. IndInv => TypeOK /\ InBounds /\ ReleasedAtEnd
  BY DEF IndInv, Good, Now, Layout, InBounds
<1> QED
  BY <1>1, StorageInvariant, PTL

\* Whatever is reset, compacted, grown and released, the slice holds the
\* queue of unread bytes: it implements a first-in first-out channel.
THEOREM StorageIsQueue == Spec => HoldsTheQueue
<1>1. Init => Channel!ChannelInit
  <2>1. Init => Unread(Now) = <<>>
    BY SubSeqEmpty DEF Init, Unread, Now, Layout
  <2> QED
    BY <2>1 DEF Init, Channel!ChannelInit
<1>2. IndInv /\ [Next]_vars => [Channel!ChannelNext]_(Channel!channelVars)
  <2> SUFFICES ASSUME IndInv, [Next]_vars
               PROVE  Channel!ChannelNext \/ UNCHANGED <<Unread(Now), got, closed>>
    BY DEF Channel!channelVars
  <2>0. TypeOK /\ Good(Now, bufSize) /\ bufSize \in Nat /\ bufSize <= MaxBufSize
        /\ MaxBufSize \in Nat /\ MaxBytes \in Nat
    BY MaxBufSizeAssumption, MaxBytesAssumption DEF IndInv, TypeOK
  <2>1. ASSUME NEW k \in 1..MaxBytes, WriteRound(k) PROVE Channel!Put
    <3> DEFINE new == [i \in 1..k |-> written + i]
    <3>1. /\ Unread(Now)' = Unread(Now) \o new
          /\ new \in [1..k -> Bytes]
          /\ UnreadLen(Now) + k <= bufSize
      BY <2>1, WriteRoundFacts
    <3> HIDE DEF new
    <3>2. UnreadLen(Now) \in Nat /\ Len(Unread(Now)) = UnreadLen(Now)
      BY <2>0, UnreadFacts
    <3>3. k \in 1..(MaxBufSize - Len(Unread(Now)))
      BY <2>0, <3>1, <3>2
    <3>4. ~closed /\ UNCHANGED <<closed, got>>
      BY <2>1 DEF WriteRound
    <3> QED
      BY <3>1, <3>3, <3>4 DEF Channel!Put
  <2>2. ASSUME NEW n \in 1..MaxBytes, ReadRound(n) PROVE Channel!Take
    <3>1. /\ n \in 1..Len(Unread(Now))
          /\ got' = got \o SubSeq(Unread(Now), 1, n)
          /\ Unread(Now)' = SubSeq(Unread(Now), n + 1, Len(Unread(Now)))
      BY <2>2, ReadRoundFacts
    <3>2. ~closed /\ UNCHANGED closed
      BY <2>2 DEF ReadRound
    <3> QED
      BY <3>1, <3>2 DEF Channel!Take
  <2>3. CASE CloseWrite
    BY <2>3, CloseFacts DEF CloseWrite
  <2>4. CASE CloseAll
    <3>1. Unread(Now)' = <<>>
      BY <2>4, CloseFacts
    <3> QED
      BY <2>4, <3>1 DEF CloseAll, Channel!Discard, Channel!ChannelNext
  <2>5. CASE UNCHANGED vars
    BY <2>5 DEF vars, Unread, Now, Layout
  <2> QED
    BY <2>1, <2>2, <2>3, <2>4, <2>5 DEF Next, Channel!ChannelNext
<1> QED
  BY <1>1, <1>2, StorageInvariant, PTL DEF Spec, HoldsTheQueue, Channel!ChannelSpec
=============================================================================
