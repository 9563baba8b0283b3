-------------------------- MODULE OverlayFSProofs --------------------------
(***************************************************************************)
(* Rename, and the theorems about the specification of OverlayFS: its      *)
(* layers stay well formed, listings show the merged view, every operation *)
(* acts on the view as on one tree, and the overlay implements FileTree.   *)
(***************************************************************************)
EXTENDS OverlayViewProofs

-----------------------------------------------------------------------------
\* Rename.  Two paths neither of which is under the other.
Apart(a, b) == ~Under(a, b) /\ ~Under(b, a)

\* Under is transitive.
LEMMA UnderTrans ==
  ASSUME NEW a, NEW b \in Path, NEW x \in Path, Under(a, b), Under(b, x)
  PROVE  Under(a, x)
BY AncestorTrans DEF Under

\* Two paths above one path are on one line.
LEMMA UnderLine ==
  ASSUME NEW a \in Path, NEW b \in Path, NEW x \in Path, Under(a, x), Under(b, x)
  PROVE  Under(a, b) \/ Under(b, a)
BY AncestorsOnLine DEF Under

\* What is below one of two paths that are apart is apart from the other.
LEMMA ApartBelow ==
  ASSUME NEW a \in Path, NEW b \in Path, NEW x \in Path, Apart(a, b), Under(a, x)
  PROVE  Apart(x, b) /\ Apart(b, x)
BY UnderTrans, UnderLine DEF Apart

\* The path of q after src became dst.
LEMMA MovedPath ==
  ASSUME NEW src \in Path, NEW dst \in Path, src # <<>>, dst # <<>>, NEW q \in Path, Under(src, q)
  PROVE  LET x == T!Moved(q, src, dst) IN
         x \in Path /\ Under(dst, x) /\ T!Moved(x, dst, src) = q
<1> DEFINE x == Along(dst, q, Len(src), Len(q))
           y == Along(src, x, Len(dst), Len(x))
<1>1. /\ Len(src) \in Nat /\ Len(src) >= 1 /\ Len(dst) \in Nat /\ Len(dst) >= 1 /\ Len(q) \in Nat
      /\ Len(src) <= Len(q) /\ \A i \in 1..Len(src) : src[i] = q[i]
  <2>1. CASE q = src
    BY <2>1, NonEmptyPath
  <2>2. CASE src \in Ancestors(q)
    BY <2>2, NonEmptyPath, AncestorOf
  <2> QED BY <2>1, <2>2 DEF Under
<1>2. IsAlong(x, dst, q, Len(src), Len(q))
  BY <1>1, AlongAt
<1> HIDE DEF x
<1>3. PICK n \in Nat : n = Len(q) - Len(src)
  <2>1. Len(q) - Len(src) \in Nat
    BY <1>1
  <2> QED BY <2>1
<1>4. /\ x \in Path /\ Len(x) = Len(dst) + n /\ \A i \in 1..Len(dst) : x[i] = dst[i]
      /\ \A i \in 1..n : x[Len(dst) + i] = q[Len(src) + i]
  BY <1>2, <1>3 DEF IsAlong
<1>5. Len(x) \in Nat /\ Len(dst) <= Len(x)
  BY <1>1, <1>4
<1>6. IsAlong(y, src, x, Len(dst), Len(x))
  BY <1>1, <1>4, <1>5, AlongAt
<1> HIDE DEF y
<1>7. Len(x) - Len(dst) = n
  BY <1>1, <1>4
<1>8. /\ y \in Path /\ Len(y) = Len(src) + n /\ \A i \in 1..Len(src) : y[i] = src[i]
      /\ \A i \in 1..n : y[Len(src) + i] = x[Len(dst) + i]
  BY <1>6, <1>7 DEF IsAlong
<1>9. Len(y) = Len(q)
  BY <1>1, <1>3, <1>8
<1>10. ASSUME NEW i \in 1..Len(q) PROVE y[i] = q[i]
  <2>1. CASE i <= Len(src)
    BY <1>1, <1>8, <2>1
  <2>2. CASE i > Len(src)
    <3>1. i - Len(src) \in 1..n /\ Len(src) + (i - Len(src)) = i
      BY <1>1, <1>3, <2>2
    <3>2. PICK d \in 1..n : i = Len(src) + d
      BY <3>1
    <3>3. y[Len(src) + d] = x[Len(dst) + d] /\ x[Len(dst) + d] = q[Len(src) + d]
      BY <1>4, <1>8
    <3> QED BY <3>2, <3>3
  <2> QED BY <1>1, <2>1, <2>2
<1>11. y = q
  BY <1>8, <1>9, <1>10, SeqEqual DEF Path
<1>12. Under(dst, x)
  <2>1. CASE n = 0
    <3>1. Len(x) = Len(dst)
      BY <1>1, <1>4, <2>1
    <3> QED BY <1>4, <3>1, SeqEqual DEF Under, Path
  <2>2. CASE n > 0
    <3>1. Len(dst) < Len(x)
      BY <1>1, <1>4, <2>2
    <3> QED BY <1>1, <1>4, <3>1, AncestorOf DEF Under
  <2> QED BY <2>1, <2>2
<1> QED BY <1>4, <1>11, <1>12, Zenon DEF T!Moved, Along, x, y

\* The source moves to the destination.
LEMMA MovedSelf ==
  ASSUME NEW src \in Path, NEW dst \in Path
  PROVE  T!Moved(src, src, dst) = dst
<1>1. Len(src) \in Nat /\ Len(src) <= Len(src)
  BY DEF Path
<1>2. Along(dst, src, Len(src), Len(src)) = dst
  BY <1>1, AlongStart
<1> QED BY <1>2, Zenon DEF T!Moved, Along

\* A child of what is moved moves with it.
LEMMA MovedChild ==
  ASSUME NEW src \in Path, NEW dst \in Path, NEW a \in Path, Under(src, a), NEW n \in STRING
  PROVE  T!Moved(Append(a, n), src, dst) = Append(T!Moved(a, src, dst), n)
<1> DEFINE c == Append(a, n)
<1>1. /\ Len(src) \in Nat /\ Len(a) \in Nat /\ Len(src) <= Len(a)
  <2>1. CASE a = src
    BY <2>1, NonEmptyPath
  <2>2. CASE src \in Ancestors(a)
    BY <2>2, NonEmptyPath, AncestorOf
  <2> QED BY <2>1, <2>2 DEF Under
<1>2. c \in Path /\ Len(c) = Len(a) + 1 /\ c[Len(a) + 1] = n /\ \A i \in 1..Len(a) : c[i] = a[i]
  <2>1. a \in Seq(STRING)
    BY DEF Path
  <2>2. c \in Seq(STRING)
    BY <2>1, AppendProperties
  <2>3. Len(c) = Len(a) + 1
    BY <2>1, AppendProperties
  <2>4. c[Len(a) + 1] = n
    BY <2>1, AppendProperties
  <2>5. \A i \in 1..Len(a) : c[i] = a[i]
    BY <2>1, AppendProperties
  <2> QED BY <2>2, <2>3, <2>4, <2>5 DEF Path
<1> HIDE DEF c
<1>3. Along(dst, c, Len(src), Len(a) + 1) = Append(Along(dst, c, Len(src), Len(a)), c[Len(a) + 1])
  <2>1. Len(a) < Len(c)
    BY <1>1, <1>2
  <2> QED BY <1>1, <1>2, <2>1, AlongNext, ZenonT(40)
<1>4. SubSeq(c, Len(src) + 1, Len(a)) = SubSeq(a, Len(src) + 1, Len(a))
  BY <1>1, <1>2 DEF Path
<1>5. Along(dst, c, Len(src), Len(a)) = Along(dst, a, Len(src), Len(a))
  BY <1>4 DEF Along
<1>6. Along(dst, c, Len(src), Len(c)) = Append(Along(dst, a, Len(src), Len(a)), n)
  BY <1>2, <1>3, <1>5
<1> QED BY <1>6, Zenon DEF T!Moved, Along, c

\* SetToSeq lists every element of a finite set once.
LEMMA SetToSeqLists ==
  ASSUME NEW S, IsFiniteSet(S)
  PROVE  LET f == SX!SetToSeq(S) IN
         /\ f \in Seq(S) /\ \A x \in S : \E i \in 1..Len(f) : f[i] = x
         /\ \A i, j \in 1..Len(f) : f[i] = f[j] => i = j
<1> DEFINE n == Cardinality(S)
           f == SX!SetToSeq(S)
<1>1. n \in Nat /\ ExistsBijection(1..n, S)
  BY FS_CardinalityType
<1> HIDE DEF n
<1>2. PICK g : g \in Bijection(1..n, S)
  BY <1>1 DEF ExistsBijection
<1>3. g \in [1..n -> S] /\ SX!IsInjective(g)
  BY <1>2 DEF Bijection, Injection, IsInjective, SX!IsInjective
<1>0. SX!Cardinality(S) = n
  BY Zenon DEF SX!Cardinality, Cardinality, n
<1>4. f \in [1..n -> S] /\ SX!IsInjective(f)
  BY <1>0, <1>3, Zenon DEF SX!SetToSeq
<1> HIDE DEF f
<1>5. f \in Injection(1..n, S)
  BY <1>4 DEF Injection, IsInjective, SX!IsInjective
<1>6. IsFiniteSet(1..n) /\ Cardinality(1..n) = n
  BY <1>1, FS_Interval
<1>7. f \in Surjection(1..n, S)
  BY <1>5, <1>6, FS_Injection DEF n
<1>8. \A x \in S : \E i \in 1..n : f[i] = x
  BY <1>7 DEF Surjection
<1>9. f \in Seq(S) /\ Len(f) = n
  BY <1>1, <1>4
<1>10. \A i, j \in 1..n : f[i] = f[j] => i = j
  BY <1>4 DEF SX!IsInjective
<1> QED BY <1>8, <1>9, <1>10 DEF f

-----------------------------------------------------------------------------
\* One step of a move.

\* A directory made in the upper tree where the view has nothing.
LEMMA AddDir ==
  ASSUME NEW s, NEW q, FreeAt(s, q, s.tomb), NEW attr \in {"seed", "edited", "new"}
  PROVE  LET z == WithUpper(s, T!Put(s.upper, q, T!Dir(attr))) IN
         WellFormed(z) /\ Merged(z) = T!Put(Merged(s), q, T!Dir(attr))
<1> DEFINE node == T!Dir(attr)
           t == s.upper
           u == T!Put(t, q, node)
           z == WithUpper(s, u)
           m == Merged(s)
           c == T!Put(m, q, node)
           v == Visible(s)
           w == Visible(z)
<1>1. WellFormed(s) /\ q \in Path /\ q # <<>> /\ q \notin DOMAIN v /\ DirsTo(t, q)
  BY DEF FreeAt
<1>2. t \in [DOMAIN t -> T!Node] /\ DOMAIN t \subseteq Path /\ IsFiniteSet(DOMAIN t) /\ s.tomb \subseteq Path
      /\ Plain(t) /\ Numbered(t)
  BY <1>1 DEF WellFormed, StateOK
<1>3. q \notin DOMAIN t /\ \A x \in DOMAIN t : ~Under(q, x)
  BY <1>1, VisibleAt, NothingUnder
<1>4. \A x \in DOMAIN m : ~Under(q, x)
  <2>1. \A x \in DOMAIN m : x # q /\ DirsTo(v, x)
    BY <1>1, MergedAt
  <2> QED BY <1>1, <2>1 DEF DirsTo, Under, T!IsDir
<1>5. ASSUME NEW x \in DOMAIN Lower, Under(q, x) PROVE isHidden(s, x)
  <2>1. q \in DOMAIN Lower /\ x \in Path
    BY <1>5, LowerTree DEF Under, DirsTo, T!IsDir
  <2>2. isHidden(s, q)
    BY <1>1, <2>1, VisibleAt
  <2> QED BY <1>1, <1>5, <2>1, <2>2, HiddenBelow DEF Under
<1>6. DOMAIN u = DOMAIN t \cup {q} /\ u = [x \in DOMAIN u |-> u[x]] /\ u[q] = node
      /\ \A x \in DOMAIN t : u[x] = t[x]
  BY <1>3 DEF T!Put
<1>7. Under(q, q) /\ q \notin DOMAIN m
  BY <1>4 DEF Under
<1>8. DOMAIN c = DOMAIN m \cup {q} /\ c = [x \in DOMAIN c |-> c[x]] /\ c[q] = node
      /\ \A x \in DOMAIN m : c[x] = m[x]
  BY <1>7 DEF T!Put
<1>9. node \in T!Node /\ node.kind = "dir" /\ node.attr = attr
  BY DirNode
<1>10. z.upper = u /\ z.tomb = s.tomb /\ z = Layers(z.upper, z.tomb)
  BY LayersAre DEF WithUpper
<1>11. node = T!Dir(node.attr)
  BY <1>9
<1> HIDE DEF u, c, z, node
<1>12. StateOK(z)
  <2>1. IsFiniteSet(DOMAIN t \cup {q})
    BY <1>2, FS_AddElement
  <2>2. u \in [DOMAIN u -> T!Node] /\ DOMAIN u \subseteq Path
    BY <1>1, <1>2, <1>6, <1>9
  <2> QED BY <1>2, <1>6, <1>10, <2>1, <2>2 DEF StateOK
<1>13. \A x : isHidden(z, x) <=> isHidden(s, x)
  BY <1>10 DEF isHidden
<1>14. DirsTo(u, q)
  BY <1>1, <1>6 DEF DirsTo, T!IsDir
<1>15. WellFormed(z)
  <2>1. Rooted(z)
    BY <1>1, <1>6, <1>10 DEF WellFormed, Rooted, T!IsDir
  <2>2. Closed(z)
    <3>1. \A x \in DOMAIN t : DirsTo(u, x)
      BY <1>1, <1>6 DEF WellFormed, Closed, DirsTo, T!IsDir
    <3> QED BY <1>6, <1>10, <1>14, <3>1 DEF Closed
  <2>3. Shadows(z)
    <3> SUFFICES ASSUME NEW x \in DOMAIN Lower, T!IsDir(u, x), Lower[x].kind # "dir" PROVE isHidden(s, x)
      BY <1>10, <1>13 DEF Shadows
    <3>1. CASE x = q
      BY <1>5, <1>7, <3>1
    <3>2. CASE x \in DOMAIN t
      BY <1>1, <1>6, <3>2 DEF WellFormed, Shadows, T!IsDir
    <3> QED BY <1>6, <3>1, <3>2 DEF T!IsDir
  <2>4. Plain(u)
    BY <1>2, <1>6, <1>11 DEF Plain
  <2>5. Numbered(u)
    <3>1. ASSUME NEW x \in DOMAIN u, u[x].kind # "dir" PROVE x \in DOMAIN t /\ T!Links(u, x) = T!Links(t, x)
      <4>1. x \in DOMAIN t /\ u[x] = t[x]
        BY <1>6, <1>9, <3>1
      <4> QED BY <1>6, <1>9, <3>1, <4>1 DEF T!Links
    <3> QED BY <1>2, <1>6, <3>1 DEF Numbered
  <2> QED BY <1>10, <1>12, <2>1, <2>2, <2>3, <2>4, <2>5 DEF WellFormed
<1>16. ASSUME NEW x \in Path, ~Under(q, x)
       PROVE  /\ x \in DOMAIN w <=> x \in DOMAIN v
              /\ x \in DOMAIN v => w[x] = v[x]
              /\ T!IsDir(w, x) <=> T!IsDir(v, x)
  <2>1. x \in DOMAIN u <=> x \in DOMAIN t
    BY <1>6, <1>7, <1>16
  <2> QED BY <1>6, <1>10, <1>13, <2>1, VisibleAt DEF T!IsDir
<1>17. ASSUME NEW x \in Path, Under(q, x)
       PROVE  (x \in DOMAIN w <=> x = q) /\ (x = q => w[x] = node)
  BY <1>3, <1>5, <1>6, <1>10, <1>13, <1>17, VisibleAt
<1>18. DirsTo(w, q)
  BY <1>10, <1>14, VisibleAt DEF DirsTo, T!IsDir
<1>19. \A x \in Path : ~Under(q, x) => (DirsTo(w, x) <=> DirsTo(v, x))
  BY <1>1, <1>16, DirsOutside DEF Under
<1>20. DOMAIN m \subseteq Path
  BY <1>1, MergedTree DEF WellFormed
<1>21. \A x \in Path : x \in DOMAIN c <=> x \in DOMAIN w /\ DirsTo(w, x)
  BY <1>4, <1>7, <1>8, <1>16, <1>17, <1>18, <1>19, MergedAt
<1>22. \A x \in DOMAIN c : c[x] = w[x]
  BY <1>1, <1>4, <1>7, <1>8, <1>16, <1>17, <1>20, MergedAt
<1>23. DOMAIN c \subseteq Path
  BY <1>1, <1>8, <1>20
<1>24. Merged(z) = c
  BY <1>8, <1>12, <1>21, <1>22, <1>23, MergedIs
<1> QED BY <1>15, <1>24 DEF c, u, z, node

\* A leaf of the view is numbered by a path of the upper tree if it is there, and
\* by its own path if it is not.
ViewNumbered(t, u) ==
  \A x \in DOMAIN t : t[x].kind # "dir" => IF x \in DOMAIN u THEN t[x].ino \in DOMAIN u ELSE t[x].ino = x

\* The view is numbered that way.
LEMMA ViewNumbers ==
  ASSUME NEW s, WellFormed(s)
  PROVE  ViewNumbered(Merged(s), s.upper)
<1> DEFINE t == Merged(s)
           u == s.upper
<1>1. /\ \A x \in DOMAIN u : x \in DOMAIN t /\ t[x] = u[x]
      /\ \A x \in DOMAIN t : t[x].kind # "dir" /\ x \notin DOMAIN u => t[x].ino = x
  BY ViewOverlaid DEF Overlaid
<1>2. \A x \in DOMAIN u : u[x].kind # "dir" => u[x].ino \in DOMAIN u
  BY OwnNumber DEF WellFormed
<1> QED BY <1>1, <1>2 DEF ViewNumbered

\* What a tree t becomes when a is moved to b, up to the numbers of its inodes.
\* A directory is left behind at a, and anything may turn up where a leaf was.
SameNode(a, b) == a.kind = b.kind /\ a.attr = b.attr /\ a.target = b.target

\* The path that x had before a was moved to b.
Before(x, a, b) == IF x = b THEN a ELSE x

\* The paths of one inode are those that were, with b for a.
SameLinks(t, u, a, b) ==
  \A x, y \in (DOMAIN t \ {a}) \cup {b} :
    u[x].kind # "dir" /\ u[y].kind # "dir"
      => (u[x].ino = u[y].ino <=> t[Before(x, a, b)].ino = t[Before(y, a, b)].ino)

\* The tree u is t with a moved to b.
StepTo(t, u, a, b) ==
  /\ b \in DOMAIN u /\ SameNode(t[a], u[b])
  /\ \A x \in DOMAIN t : x # a => x \in DOMAIN u /\ SameNode(t[x], u[x])
  /\ \A x \in DOMAIN u : x \in DOMAIN t \/ x = b \/ (Under(a, x) /\ t[a].kind # "dir")
  /\ SameLinks(t, u, a, b)

\* The upper tree loses no directory and has nothing new but b.
UpperStep(s, z, b) ==
  /\ WellFormed(z) /\ z.tomb = s.tomb
  /\ \A x \in DOMAIN z.upper : x = b \/ (x \in DOMAIN s.upper /\ z.upper[x].kind = s.upper[x].kind)
  /\ \A x \in DOMAIN s.upper : s.upper[x].kind = "dir" => T!IsDir(z.upper, x)

\* moveMerged of a directory: it is made at its new place and stays at the old one.
LEMMA MovesDir ==
  ASSUME NEW s, NEW b, FreeAt(s, b, s.tomb), NEW a, T!IsDir(Merged(s), a)
  PROVE  LET z == WithUpper(s, T!Put(s.upper, b, T!Dir(Merged(s)[a].attr))) IN
         UpperStep(s, z, b) /\ StepTo(Merged(s), Merged(z), a, b) /\ T!IsDir(z.upper, b)
         /\ T!IsDir(Merged(z), a)
<1> DEFINE t == Merged(s)
           attr == t[a].attr
           node == T!Dir(attr)
           z == WithUpper(s, T!Put(s.upper, b, node))
           u == T!Put(t, b, node)
<1>1. WellFormed(s) /\ b \notin DOMAIN Visible(s) /\ b \notin DOMAIN s.upper /\ b \notin DOMAIN t
  BY VisibleAt, MergedAt DEF FreeAt
<1>2. t[a] \in T!Node /\ a \in DOMAIN t /\ t[a].kind = "dir"
  BY <1>1, MergedTree DEF TreeOK, T!IsDir, WellFormed
<1>3. attr \in {"seed", "edited", "new"}
  BY <1>2, NodeFields
<1>4. WellFormed(z) /\ Merged(z) = u
  BY <1>3, AddDir
<1>5. z.upper = T!Put(s.upper, b, node) /\ z.tomb = s.tomb
  BY LayersAre DEF WithUpper
<1>6. DOMAIN u = DOMAIN t \cup {b} /\ u[b] = node /\ \A x \in DOMAIN t : u[x] = t[x]
  BY <1>1 DEF T!Put
<1>7. DOMAIN z.upper = DOMAIN s.upper \cup {b} /\ z.upper[b] = node /\ \A x \in DOMAIN s.upper : z.upper[x] = s.upper[x]
  BY <1>1, <1>5 DEF T!Put
<1>8. node.kind = "dir" /\ node.attr = attr /\ node.target = <<>>
  BY <1>3, DirNode
<1>9. t[a].target = <<>>
  <2>1. CASE a \in DOMAIN s.upper
    <3>1. t[a] = s.upper[a]
      BY <1>1, <2>1, UpperInView
    <3>2. s.upper[a] = T!Dir(s.upper[a].attr)
      BY <1>1, <1>2, <2>1, <3>1 DEF WellFormed, Plain
    <3> QED BY <1>8, <3>1, <3>2
  <2>2. CASE a \notin DOMAIN s.upper
    <3>1. a \in DOMAIN Lower /\ t[a] = Lower[a]
      BY <1>2, <2>2, MergedAt, VisibleAt
    <3>2. Lower[a] = T!Dir(Lower[a].attr)
      BY <1>2, <3>1, LowerNode
    <3> QED BY <1>8, <3>1, <3>2
  <2> QED BY <2>1, <2>2
<1> HIDE DEF z, node, u, attr
<1>10. UpperStep(s, z, b)
  BY <1>4, <1>5, <1>7 DEF UpperStep, T!IsDir
<1>11. SameLinks(t, u, a, b)
  BY <1>1, <1>6, <1>8 DEF SameLinks, Before
<1>12. StepTo(t, u, a, b)
  <2>1. SameNode(t[a], u[b])
    BY <1>2, <1>6, <1>8, <1>9 DEF SameNode, attr
  <2>2. \A x \in DOMAIN t : x \in DOMAIN u /\ SameNode(t[x], u[x])
    BY <1>6 DEF SameNode
  <2> QED BY <1>6, <1>11, <2>1, <2>2 DEF StepTo
<1>13. T!IsDir(z.upper, b)
  BY <1>7, <1>8 DEF T!IsDir
<1>14. T!IsDir(u, a)
  BY <1>2, <1>6 DEF T!IsDir
<1> QED BY <1>4, <1>10, <1>12, <1>13, <1>14 DEF z, node, attr

\* moveMerged of a leaf that only the lower tree has: it is copied up to its new place.
LEMMA MovesLower ==
  ASSUME NEW s, NEW b, FreeAt(s, b, s.tomb), NEW a \in DOMAIN Merged(s), a \notin DOMAIN s.upper,
         Merged(s)[a].kind # "dir"
  PROVE  LET z == CopyUpLowerEntry(s, a, b) IN
         UpperStep(s, z, b) /\ StepTo(Merged(s), Merged(z), a, b)
<1> DEFINE t == Merged(s)
           old == Lower[a]
           node == T!Leaf(old.kind, b, old.target, old.attr)
           z == Layers(T!Put(s.upper, b, node), s.tomb)
           u == T!Put(t, b, node)
<1>1. WellFormed(s) /\ b \in Path /\ b \notin DOMAIN Visible(s) /\ b \notin DOMAIN s.upper /\ b \notin DOMAIN t
  BY VisibleAt, MergedAt DEF FreeAt
<1>2. a \in DOMAIN Lower /\ t[a] = old /\ old \in T!Node /\ old.kind # "dir" /\ old.ino = a
  BY MergedAt, VisibleAt, LowerNode
<1>3. /\ old.kind \in {"file", "link", "fifo"} /\ old.attr \in {"seed", "edited", "new"}
      /\ old.target \in Path
  BY <1>2, NodeFields
<1>4. /\ node \in T!Node /\ node.kind = old.kind /\ node.attr = old.attr
      /\ node.target = old.target /\ node.ino = b
  BY <1>1, <1>3, LeafNode
<1>5. z = CopyUpLowerEntry(s, a, b)
  BY Zenon DEF CopyUpLowerEntry, WithUpper
<1>6. z.upper = T!Put(s.upper, b, node) /\ z.tomb = s.tomb
  BY LayersAre
<1> HIDE DEF node
<1>7. WellFormed(z) /\ Merged(z) = u
  BY <1>2, <1>4, PutLeaf
<1>8. DOMAIN u = DOMAIN t \cup {b} /\ u[b] = node /\ \A x \in DOMAIN t : u[x] = t[x]
  BY <1>1 DEF T!Put
<1>9. DOMAIN z.upper = DOMAIN s.upper \cup {b} /\ z.upper[b] = node /\ \A x \in DOMAIN s.upper : z.upper[x] = s.upper[x]
  BY <1>1, <1>6 DEF T!Put
<1> HIDE DEF z, u, old
<1>10. UpperStep(s, z, b)
  BY <1>6, <1>7, <1>9 DEF UpperStep, T!IsDir
<1>11. ASSUME NEW x \in DOMAIN t, x # a, t[x].kind # "dir" PROVE t[x].ino # a /\ t[x].ino # b
  <2>1. ViewNumbered(t, s.upper)
    BY <1>1, ViewNumbers
  <2>2. IF x \in DOMAIN s.upper THEN t[x].ino \in DOMAIN s.upper ELSE t[x].ino = x
    BY <1>11, <2>1 DEF ViewNumbered
  <2> QED BY <1>1, <1>11, <2>2
<1>12. SameLinks(t, u, a, b)
  <2> SUFFICES ASSUME NEW x \in (DOMAIN t \ {a}) \cup {b}, NEW y \in (DOMAIN t \ {a}) \cup {b},
                      u[x].kind # "dir", u[y].kind # "dir"
               PROVE  u[x].ino = u[y].ino <=> t[Before(x, a, b)].ino = t[Before(y, a, b)].ino
    BY DEF SameLinks
  <2>1. CASE x = b /\ y = b
    BY <2>1
  <2>2. CASE x = b /\ y # b
    BY <1>1, <1>2, <1>4, <1>8, <1>11, <2>2 DEF Before
  <2>3. CASE x # b /\ y = b
    BY <1>1, <1>2, <1>4, <1>8, <1>11, <2>3 DEF Before
  <2>4. CASE x # b /\ y # b
    BY <1>8, <2>4 DEF Before
  <2> QED BY <2>1, <2>2, <2>3, <2>4
<1>13. StepTo(t, u, a, b)
  <2>1. SameNode(t[a], u[b])
    BY <1>2, <1>4, <1>8 DEF SameNode
  <2>2. \A x \in DOMAIN t : x \in DOMAIN u /\ SameNode(t[x], u[x])
    BY <1>8 DEF SameNode
  <2> QED BY <1>8, <1>12, <2>1, <2>2 DEF StepTo
<1> QED BY <1>5, <1>7, <1>10, <1>13

\* Renumbering keeps which paths share an inode.
LEMMA CanonicalLinks ==
  ASSUME NEW t, t \in [DOMAIN t -> T!Node], DOMAIN t \subseteq Path,
         NEW x \in DOMAIN t, NEW y \in DOMAIN t, t[x].kind # "dir", t[y].kind # "dir"
  PROVE  T!Canonical(t)[x].ino = T!Canonical(t)[y].ino <=> t[x].ino = t[y].ino
<1> DEFINE u == T!Canonical(t)
<1>1. /\ u[x].ino = Chosen(T!Links(t, x)) /\ u[x].ino \in T!Links(t, x)
      /\ u[y].ino = Chosen(T!Links(t, y)) /\ u[y].ino \in T!Links(t, y)
  BY CanonicalShape
<1>2. /\ T!Links(t, x) = {z \in DOMAIN t : t[z].kind # "dir" /\ t[z].ino = t[x].ino}
      /\ T!Links(t, y) = {z \in DOMAIN t : t[z].kind # "dir" /\ t[z].ino = t[y].ino}
  BY DEF T!Links
<1> HIDE DEF u
<1>3. ASSUME t[x].ino = t[y].ino PROVE u[x].ino = u[y].ino
  <2>1. T!Links(t, x) = T!Links(t, y)
    BY <1>2, <1>3
  <2> QED BY <1>1, <2>1
<1>4. ASSUME u[x].ino = u[y].ino PROVE t[x].ino = t[y].ino
  BY <1>1, <1>2, <1>4
<1> QED BY <1>3, <1>4 DEF u

\* A leaf of the upper tree renamed there.
Renamed(u, a, b) == [x \in (DOMAIN u \ {a}) \cup {b} |-> IF x = b THEN u[a] ELSE u[x]]

\* The rename of one leaf in the upper tree.
LEMMA RenamesUpper ==
  ASSUME NEW s, NEW b, FreeAt(s, b, s.tomb), NEW a \in DOMAIN s.upper, s.upper[a].kind # "dir"
  PROVE  T!RenameIn(s.upper, a, b) = T!Outcome(TRUE, T!Canonical(Renamed(s.upper, a, b)))
<1> DEFINE u == s.upper
<1>1. WellFormed(s) /\ b \in Path /\ b # <<>> /\ b \notin DOMAIN u /\ DirsTo(u, b)
  BY VisibleAt DEF FreeAt
<1>2. a \in Path /\ a # <<>> /\ DirsTo(u, a) /\ DOMAIN u \subseteq Path
  BY <1>1 DEF WellFormed, StateOK, Rooted, Closed, T!IsDir
<1>3. PICK o : o = T!Walk(u, a, FALSE, FALSE)
  OBVIOUS
<1>4. PICK n : n = T!Walk(u, b, FALSE, TRUE)
  OBVIOUS
<1>5. o = T!Answer("found", a)
  BY <1>2, <1>3, WalkHere, Zenon
<1>6. n = T!Answer("absent", b)
  BY <1>1, <1>4, WalkHere, Zenon
<1>7. o.err = "found" /\ o.path = a /\ n.err = "absent" /\ n.path = b
  BY <1>5, <1>6 DEF T!Answer
<1>8. a \notin Ancestors(b)
  BY <1>1 DEF DirsTo, T!IsDir
<1>9. ~T!SX!IsStrictPrefix(a, b)
  <2>1. ~SX!IsPrefix(a, b)
    BY <1>1, <1>2, <1>8, PrefixIsAncestor
  <2> QED BY <2>1, PrefixSame DEF T!SX!IsStrictPrefix
<1>10. T!Subtree(u, a) = {a}
  <2>1. ASSUME NEW x \in DOMAIN u PROVE T!SX!IsPrefix(a, x) <=> x = a
    <3>1. x \in Path /\ DirsTo(u, x)
      BY <1>1, <1>2 DEF WellFormed, Closed
    <3>2. a \notin Ancestors(x)
      BY <3>1 DEF DirsTo, T!IsDir
    <3> QED BY <1>2, <3>1, <3>2, PrefixIsAncestor, PrefixSame
  <2> QED BY <2>1 DEF T!Subtree
<1>11. T!Moved(a, a, b) = b /\ T!Moved(b, b, a) = a
  BY <1>1, <1>2, MovedSelf
<1> DEFINE kept == DOMAIN u \ T!Subtree(u, a)
           moved == {T!Moved(q, a, b) : q \in T!Subtree(u, a)}
           r == [q \in kept \cup moved |-> IF q \in kept THEN u[q] ELSE u[T!Moved(q, b, a)]]
<1>12. kept = DOMAIN u \ {a} /\ moved = {b}
  BY <1>10, <1>11
<1>13. r = Renamed(u, a, b)
  <2> HIDE DEF kept, moved
  <2> QED BY <1>1, <1>11, <1>12 DEF Renamed
<1>14. T!RenameIn(u, a, b) = T!Outcome(TRUE, T!Canonical(r))
  <2> HIDE DEF u
  <2> QED BY <1>2, <1>3, <1>4, <1>7, <1>9, Zenon DEF T!RenameIn
<1> QED BY <1>13, <1>14

\* moveMerged of a leaf of the upper tree: it is renamed there.
LEMMA MovesUpper ==
  ASSUME NEW s, NEW b, FreeAt(s, b, s.tomb), NEW a \in DOMAIN s.upper, s.upper[a].kind # "dir"
  PROVE  LET z == WithUpper(s, T!Canonical(Renamed(s.upper, a, b))) IN
         UpperStep(s, z, b) /\ StepTo(Merged(s), Merged(z), a, b)
<1> DEFINE u == s.upper
           r == Renamed(u, a, b)
           k == T!Canonical(r)
           z == WithUpper(s, k)
           t == Merged(s)
           m == Merged(z)
           v == Visible(s)
           w == Visible(z)
<1>1. WellFormed(s) /\ b \in Path /\ b # <<>> /\ b \notin DOMAIN v /\ b \notin DOMAIN u /\ b \notin DOMAIN t
      /\ DirsTo(u, b)
  BY VisibleAt, MergedAt DEF FreeAt
<1>2. /\ u \in [DOMAIN u -> T!Node] /\ DOMAIN u \subseteq Path /\ IsFiniteSet(DOMAIN u) /\ s.tomb \subseteq Path
      /\ Plain(u) /\ Numbered(u)
  BY <1>1 DEF WellFormed, StateOK
<1>3. DOMAIN r = (DOMAIN u \ {a}) \cup {b} /\ r[b] = u[a] /\ \A x \in DOMAIN u : x # a => r[x] = u[x]
  BY <1>1 DEF Renamed
<1> HIDE DEF r
<1>4. r \in [DOMAIN r -> T!Node] /\ DOMAIN r \subseteq Path /\ Plain(r)
  <2>1. \A x \in DOMAIN r : r[x] \in T!Node
    BY <1>2, <1>3
  <2>2. r = [x \in DOMAIN r |-> r[x]]
    BY DEF r, Renamed
  <2>3. Plain(r)
    BY <1>2, <1>3 DEF Plain
  <2>4. DOMAIN r \subseteq Path
    BY <1>1, <1>2, <1>3
  <2> QED BY <2>1, <2>2, <2>3, <2>4
<1>5. /\ k \in [DOMAIN r -> T!Node] /\ Numbered(k) /\ Plain(k)
      /\ \A x \in DOMAIN r : k[x].kind = r[x].kind /\ k[x].attr = r[x].attr /\ k[x].target = r[x].target
  BY <1>4, CanonicalShape
<1>6. ASSUME NEW x \in DOMAIN r, NEW y \in DOMAIN r, r[x].kind # "dir", r[y].kind # "dir"
      PROVE  k[x].ino = k[y].ino <=> r[x].ino = r[y].ino
  BY <1>4, <1>6, CanonicalLinks
<1> HIDE DEF k
<1>7. DOMAIN k = (DOMAIN u \ {a}) \cup {b} /\ DOMAIN r = DOMAIN k
  BY <1>3, <1>5
<1>8. SameNode(u[a], k[b]) /\ \A x \in DOMAIN u : x # a => SameNode(u[x], k[x])
  BY <1>3, <1>5 DEF SameNode
<1>9. z.upper = k /\ z.tomb = s.tomb /\ z = Layers(z.upper, z.tomb)
  BY LayersAre DEF WithUpper
<1> HIDE DEF z
<1>10. \A x : isHidden(z, x) <=> isHidden(s, x)
  BY <1>9 DEF isHidden
<1>11. a # <<>>
  BY <1>1 DEF WellFormed, Rooted, T!IsDir
<1>12. \A x \in DOMAIN u : u[x].kind = "dir" => T!IsDir(k, x)
  BY <1>7, <1>8 DEF T!IsDir, SameNode
<1>13. \A x \in DOMAIN k : x = b \/ (x \in DOMAIN u /\ x # a /\ k[x].kind = u[x].kind)
  BY <1>7, <1>8 DEF SameNode
<1>14. k[b].kind # "dir" /\ b \in DOMAIN k
  BY <1>7, <1>8 DEF SameNode
<1>15. WellFormed(z)
  <2>1. StateOK(z)
    <3>1. IsFiniteSet(DOMAIN u \ {a})
      BY <1>2, FS_Difference
    <3>2. IsFiniteSet((DOMAIN u \ {a}) \cup {b})
      BY <3>1, FS_AddElement
    <3> QED BY <1>2, <1>4, <1>5, <1>7, <1>9, <3>2 DEF StateOK
  <2>2. Rooted(z)
    BY <1>1, <1>9, <1>12 DEF WellFormed, Rooted, T!IsDir
  <2>3. Closed(z)
    <3>1. DirsTo(k, b)
      BY <1>1, <1>12 DEF DirsTo, T!IsDir
    <3>2. \A x \in DOMAIN u : DirsTo(k, x)
      BY <1>1, <1>12 DEF WellFormed, Closed, DirsTo, T!IsDir
    <3> QED BY <1>7, <1>9, <3>1, <3>2 DEF Closed
  <2>4. Shadows(z)
    <3>1. \A x : T!IsDir(k, x) => T!IsDir(u, x)
      BY <1>13, <1>14 DEF T!IsDir
    <3> QED BY <1>1, <1>9, <1>10, <3>1 DEF WellFormed, Shadows
  <2> QED BY <1>5, <1>9, <2>1, <2>2, <2>3, <2>4 DEF WellFormed
<1>16. UpperStep(s, z, b)
  BY <1>9, <1>12, <1>13, <1>15 DEF UpperStep
<1>17. ASSUME NEW x, x # a, x # b
       PROVE  (x \in DOMAIN w <=> x \in DOMAIN v) /\ (x \in DOMAIN v => SameNode(v[x], w[x]))
  <2>1. x \in DOMAIN k <=> x \in DOMAIN u
    BY <1>7, <1>17
  <2>2. x \in DOMAIN w <=> x \in DOMAIN v
    BY <1>9, <1>10, <2>1, VisibleAt
  <2>3. CASE x \in DOMAIN u
    <3>1. w[x] = k[x] /\ v[x] = u[x]
      BY <1>9, <2>1, <2>3, VisibleAt
    <3> QED BY <1>8, <1>17, <2>2, <2>3, <3>1
  <2>4. CASE x \notin DOMAIN u
    <3>1. x \in DOMAIN v => w[x] = v[x]
      BY <1>9, <1>10, <2>1, <2>4, VisibleAt
    <3> QED BY <2>2, <3>1 DEF SameNode
  <2> QED BY <2>3, <2>4
<1>18. b \in DOMAIN w /\ w[b] = k[b] /\ a \in DOMAIN v /\ v[a] = u[a]
  BY <1>9, <1>14, VisibleAt
<1>19. \A x : T!IsDir(v, x) => T!IsDir(w, x)
  BY <1>1, <1>17, <1>18 DEF T!IsDir, SameNode
<1>20. \A x : T!IsDir(w, x) => x = a \/ T!IsDir(v, x)
  BY <1>14, <1>17, <1>18 DEF T!IsDir, SameNode
<1>21. b \in DOMAIN m /\ m[b] = k[b] /\ a \in DOMAIN t /\ t[a] = u[a]
  BY <1>1, <1>9, <1>14, <1>15, UpperInView
<1>22. ASSUME NEW x \in DOMAIN t, x # a PROVE x \in DOMAIN m /\ SameNode(t[x], m[x])
  <2>1. x \in DOMAIN v /\ t[x] = v[x] /\ DirsTo(v, x) /\ x # b
    BY <1>1, MergedAt
  <2>2. DirsTo(w, x)
    BY <1>19, <2>1 DEF DirsTo
  <2> QED BY <1>17, <1>22, <2>1, <2>2, MergedAt
<1>23. ASSUME NEW x \in DOMAIN m PROVE x \in DOMAIN t \/ x = b \/ (Under(a, x) /\ t[a].kind # "dir")
  <2> SUFFICES ASSUME x # b, ~Under(a, x) PROVE x \in DOMAIN t
    BY <1>21
  <2>1. x \in DOMAIN w /\ DirsTo(w, x) /\ x # a
    BY MergedAt DEF Under
  <2>2. DirsTo(v, x)
    BY <1>20, <2>1 DEF DirsTo, Under
  <2> QED BY <1>17, <2>1, <2>2, MergedAt
<1>24. SameLinks(t, m, a, b)
  <2> SUFFICES ASSUME NEW x \in (DOMAIN t \ {a}) \cup {b}, NEW y \in (DOMAIN t \ {a}) \cup {b},
                      m[x].kind # "dir", m[y].kind # "dir"
               PROVE  m[x].ino = m[y].ino <=> t[Before(x, a, b)].ino = t[Before(y, a, b)].ino
    BY DEF SameLinks
  <2>1. ViewNumbered(t, u) /\ ViewNumbered(m, k)
    BY <1>1, <1>9, <1>15, ViewNumbers
  <2>2. ASSUME NEW h \in (DOMAIN t \ {a}) \cup {b}, m[h].kind # "dir"
        PROVE  /\ h \in DOMAIN m
               /\ h \in DOMAIN k => /\ m[h] = k[h] /\ Before(h, a, b) \in DOMAIN u /\ r[h].kind # "dir"
                                    /\ t[Before(h, a, b)] = r[h] /\ m[h].ino \in DOMAIN k
                                    /\ t[Before(h, a, b)].ino \in DOMAIN u
               /\ h \notin DOMAIN k => h \notin DOMAIN u /\ m[h].ino = h /\ t[Before(h, a, b)].ino = h
    <3>1. h \in DOMAIN m
      BY <1>21, <1>22
    <3>2. CASE h = b
      <4>1. Before(h, a, b) = a /\ r[h] = u[a]
        BY <1>3, <3>2 DEF Before
      <4> QED BY <1>14, <1>21, <2>1, <3>1, <3>2, <4>1 DEF ViewNumbered
    <3>3. CASE h # b /\ h \in DOMAIN u
      <4>1. Before(h, a, b) = h /\ h \in DOMAIN t /\ h # a /\ h \in DOMAIN k
        BY <1>7, <3>3 DEF Before
      <4>2. r[h] = u[h] /\ t[h] = u[h] /\ m[h] = k[h]
        BY <1>1, <1>3, <1>9, <1>15, <3>3, <4>1, UpperInView
      <4>3. u[h].kind # "dir"
        BY <1>8, <2>2, <3>3, <4>1, <4>2 DEF SameNode
      <4> QED BY <2>1, <2>2, <3>1, <3>3, <4>1, <4>2, <4>3 DEF ViewNumbered
    <3>4. CASE h # b /\ h \notin DOMAIN u
      <4>1. Before(h, a, b) = h /\ h \in DOMAIN t /\ h # a /\ h \notin DOMAIN k
        BY <1>7, <2>2, <3>4 DEF Before
      <4>2. t[h].kind # "dir"
        BY <1>22, <2>2, <4>1 DEF SameNode
      <4> QED BY <2>1, <2>2, <3>1, <3>4, <4>1, <4>2 DEF ViewNumbered
    <3> QED BY <3>2, <3>3, <3>4
  <2>3. CASE x \in DOMAIN k /\ y \in DOMAIN k
    <3>1. r[x].kind # "dir" /\ r[y].kind # "dir" /\ x \in DOMAIN r /\ y \in DOMAIN r
      BY <1>7, <2>2, <2>3
    <3> QED BY <1>6, <2>2, <2>3, <3>1
  <2>4. CASE x \in DOMAIN k /\ y \notin DOMAIN k
    BY <2>2, <2>4
  <2>5. CASE x \notin DOMAIN k /\ y \in DOMAIN k
    BY <2>2, <2>5
  <2>6. CASE x \notin DOMAIN k /\ y \notin DOMAIN k
    BY <2>2, <2>6
  <2> QED BY <2>3, <2>4, <2>5, <2>6
<1>25. StepTo(t, m, a, b)
  <2>1. SameNode(t[a], m[b])
    BY <1>8, <1>21
  <2> QED BY <1>21, <1>22, <1>23, <1>24, <2>1 DEF StepTo
<1> QED BY <1>16, <1>25 DEF z, k, r

\* One call of moveMerged.
ChildMoves(a, b, names) == {[src |-> Append(a, n), dst |-> Append(b, n)] : n \in names}

\* What one call of moveMerged does: a is moved to b, and for a directory the calls
\* for its children in the view come next, unless it cannot be listed.
MovedOne(s, one, a, b) ==
  /\ UpperStep(s, one.s, b) /\ StepTo(Merged(s), Merged(one.s), a, b)
  /\ Merged(s)[a].kind # "dir" => one.ok = TRUE /\ one.below = <<>>
  /\ Merged(s)[a].kind = "dir" =>
       /\ T!IsDir(one.s.upper, b) /\ T!IsDir(Merged(one.s), a)
       /\ one.ok \in BOOLEAN /\ (~Obstructed(one.s, a) => one.ok)
       /\ one.ok => one.below = SX!SetToSeq(ChildMoves(a, b, ChildNames(Merged(one.s), a)))

\* Every call does that where the destination is free.
LEMMA MovesOne ==
  ASSUME NEW s, NEW b, FreeAt(s, b, s.tomb), NEW a \in DOMAIN Merged(s)
  PROVE  MovedOne(s, MoveOne(s, a, b), a, b)
<1> DEFINE t == Merged(s)
           node == Visible(s)[a]
           made == WithUpper(s, T!Put(s.upper, b, T!Dir(node.attr)))
           list == ReadDir(made, a)
           leaf == IF a \in DOMAIN s.upper THEN Upper(s, T!RenameIn(s.upper, a, b))
                   ELSE Done(CopyUpLowerEntry(s, a, b))
           one == MoveOne(s, a, b)
<1>1. WellFormed(s) /\ a \in Path /\ node = t[a] /\ a \in DOMAIN Visible(s)
  BY MergedAt, MergedTree DEF FreeAt, WellFormed
<1>2. one = IF node.kind = "dir"
            THEN [ok |-> list.ok, s |-> made, below |-> SX!SetToSeq(ChildMoves(a, b, list.names))]
            ELSE [ok |-> leaf.ok, s |-> leaf.s, below |-> <<>>]
  BY Zenon DEF MoveOne, ChildMoves
<1>3. CASE node.kind = "dir"
  <2>1. /\ UpperStep(s, made, b) /\ StepTo(t, Merged(made), a, b) /\ T!IsDir(made.upper, b)
        /\ T!IsDir(Merged(made), a)
    <3>1. T!IsDir(t, a)
      BY <1>1, <1>3 DEF T!IsDir
    <3> QED BY <1>1, <3>1, MovesDir
  <2> HIDE DEF made
  <2>2. WellFormed(made)
    BY <2>1 DEF UpperStep
  <2>3. list = ListAt(made, a)
    BY <2>1, <2>2, ReadDirHere
  <2>4. list.ok \in BOOLEAN
    BY <2>3 DEF ListAt
  <2>5. ~Obstructed(made, a) => list.ok
    BY <1>1, <2>1, <2>2, <2>3, ListAtSucceeds
  <2>6. list.ok => list = [ok |-> TRUE, names |-> ChildNames(Merged(made), a)]
    BY <1>1, <2>1, <2>2, <2>3, ListAtView
  <2> HIDE DEF list
  <2>7. list.ok => list.names = ChildNames(Merged(made), a)
    BY <2>6
  <2>8. one = [ok |-> list.ok, s |-> made, below |-> SX!SetToSeq(ChildMoves(a, b, list.names))]
    BY <1>2, <1>3
  <2> HIDE DEF one
  <2>9. one.ok = list.ok /\ one.s = made /\ one.below = SX!SetToSeq(ChildMoves(a, b, list.names))
    BY <2>8
  <2> QED BY <1>1, <1>3, <2>1, <2>4, <2>5, <2>7, <2>9 DEF MovedOne, one
<1>4. CASE node.kind # "dir" /\ a \in DOMAIN s.upper
  <2> DEFINE z == WithUpper(s, T!Canonical(Renamed(s.upper, a, b)))
             r == T!RenameIn(s.upper, a, b)
  <2>1. s.upper[a].kind # "dir"
    BY <1>4, VisibleAt
  <2>2. UpperStep(s, z, b) /\ StepTo(t, Merged(z), a, b)
    BY <1>4, <2>1, MovesUpper
  <2>3. r = T!Outcome(TRUE, T!Canonical(Renamed(s.upper, a, b)))
    BY <1>4, <2>1, RenamesUpper
  <2>4. r.ok = TRUE /\ r.t = T!Canonical(Renamed(s.upper, a, b))
    BY <2>3 DEF T!Outcome
  <2> HIDE DEF r
  <2>5. leaf = [ok |-> TRUE, s |-> z]
    BY <1>4, <2>4, Zenon DEF Upper, r
  <2>6. one = [ok |-> leaf.ok, s |-> leaf.s, below |-> <<>>]
    BY <1>2, <1>4
  <2> HIDE DEF z, one, leaf
  <2>7. one.ok = TRUE /\ one.s = z /\ one.below = <<>>
    BY <2>5, <2>6
  <2> QED BY <1>1, <1>4, <2>2, <2>7 DEF MovedOne, one
<1>5. CASE node.kind # "dir" /\ a \notin DOMAIN s.upper
  <2> DEFINE z == CopyUpLowerEntry(s, a, b)
  <2>1. UpperStep(s, z, b) /\ StepTo(t, Merged(z), a, b)
    BY <1>1, <1>5, MovesLower
  <2>2. leaf = [ok |-> TRUE, s |-> z]
    BY <1>5, Zenon DEF Done
  <2>3. one = [ok |-> leaf.ok, s |-> leaf.s, below |-> <<>>]
    BY <1>2, <1>5
  <2> HIDE DEF z, one, leaf
  <2>4. one.ok = TRUE /\ one.s = z /\ one.below = <<>>
    BY <2>2, <2>3
  <2> QED BY <1>1, <1>5, <2>1, <2>4 DEF MovedOne, one
<1> QED BY <1>3, <1>4, <1>5

\* The moves of a stack after its first one was replaced by others.
OnStack(S, below, mv, c) ==
  /\ c \in Seq(S) /\ Len(below) \in Nat /\ Len(mv) \in Nat /\ Len(c) = Len(below) + Len(mv) - 1
  /\ \A i \in 1..Len(c) :
       \/ i \in 1..Len(below) /\ c[i] = below[i]
       \/ \E j \in 2..Len(mv) : i = Len(below) + j - 1 /\ c[i] = mv[j]
  /\ \A i \in 1..Len(below) : i \in 1..Len(c) /\ c[i] = below[i]
  /\ \A j \in 2..Len(mv) : Len(below) + j - 1 \in 1..Len(c) /\ c[Len(below) + j - 1] = mv[j]

\* The moves below come first, then those that were behind the first one.
LEMMA StackIndex ==
  ASSUME NEW S, NEW below \in Seq(S), NEW mv \in Seq(S), mv # <<>>
  PROVE  OnStack(S, below, mv, below \o Tail(mv))
<1> DEFINE r == Tail(mv)
           c == below \o r
<1>1. Len(below) \in Nat /\ Len(mv) \in Nat /\ Len(mv) >= 1
  BY EmptySeq
<1>2. r \in Seq(S) /\ Len(r) = Len(mv) - 1 /\ \A i \in 1..(Len(mv) - 1) : r[i] = mv[i + 1]
  BY <1>1
<1> HIDE DEF r
<1>3. c \in Seq(S) /\ Len(c) = Len(below) + Len(r)
      /\ \A i \in 1..(Len(below) + Len(r)) : c[i] = IF i <= Len(below) THEN below[i] ELSE r[i - Len(below)]
  <2>1. c \in Seq(S)
    BY <1>2, ConcatProperties
  <2>2. Len(c) = Len(below) + Len(r)
    BY <1>2, ConcatProperties
  <2>3. \A i \in 1..(Len(below) + Len(r)) : c[i] = IF i <= Len(below) THEN below[i] ELSE r[i - Len(below)]
    BY <1>2, ConcatProperties
  <2> QED BY <2>1, <2>2, <2>3
<1> HIDE DEF c
<1>4. Len(c) = Len(below) + Len(mv) - 1
  BY <1>1, <1>2, <1>3
<1>5. ASSUME NEW i \in 1..Len(below) PROVE i \in 1..Len(c) /\ c[i] = below[i]
  BY <1>1, <1>2, <1>3
<1>6. ASSUME NEW j \in 2..Len(mv) PROVE Len(below) + j - 1 \in 1..Len(c) /\ c[Len(below) + j - 1] = mv[j]
  <2>0. Len(below) + j - 1 \in Nat
    BY <1>1
  <2>1. PICK i \in Nat : i = Len(below) + j - 1
    BY <2>0
  <2>2. i \in 1..Len(c) /\ i \in 1..(Len(below) + Len(r)) /\ ~(i <= Len(below)) /\ i - Len(below) = j - 1
    BY <1>1, <1>2, <1>3, <2>1
  <2>3. c[i] = r[j - 1]
    BY <1>3, <2>2
  <2>4. r[j - 1] = mv[j]
    <3>1. PICK h \in Nat : h = j - 1
      BY <1>1
    <3>2. h \in 1..(Len(mv) - 1) /\ h + 1 = j
      BY <1>1, <3>1
    <3>3. r[h] = mv[h + 1]
      BY <1>2, <3>2
    <3> QED BY <3>1, <3>2, <3>3
  <2> QED BY <2>1, <2>2, <2>3, <2>4
<1>7. ASSUME NEW i \in 1..Len(c), i \notin 1..Len(below)
      PROVE  \E j \in 2..Len(mv) : i = Len(below) + j - 1 /\ c[i] = mv[j]
  <2>1. PICK j \in Nat : j = i - Len(below) + 1
    BY <1>1, <1>4, <1>7
  <2>2. j \in 2..Len(mv) /\ i = Len(below) + j - 1
    BY <1>1, <1>4, <1>7, <2>1
  <2> QED BY <1>6, <2>2
<1>8. OnStack(S, below, mv, c)
  BY <1>1, <1>3, <1>4, <1>5, <1>6, <1>7 DEF OnStack
<1> QED BY <1>8 DEF c, r

\* The name after a on the way to q.
LEMMA ChildOn ==
  ASSUME NEW q \in Path, NEW a \in Ancestors(q)
  PROVE  \E n \in STRING : Under(Append(a, n), q)
<1>1. a \in Path /\ 1 <= Len(a) /\ Len(a) < Len(q) /\ \A i \in 1..Len(a) : a[i] = q[i]
  BY AncestorOf
<1>2. Len(a) \in Nat /\ Len(q) \in Nat /\ a \in Seq(STRING)
  BY <1>1 DEF Path
<1>3. Len(a) + 1 \in 1..Len(q)
  BY <1>1, <1>2
<1>11. q[Len(a) + 1] \in STRING
  BY <1>3, ElementOfSeq DEF Path
<1>4. PICK n \in STRING : n = q[Len(a) + 1]
  BY <1>11
<1> DEFINE c == Append(a, n)
<1>5. c \in Seq(STRING)
  BY <1>2, AppendProperties
<1>6. Len(c) = Len(a) + 1
  BY <1>2, AppendProperties
<1>7. c[Len(a) + 1] = n
  BY <1>2, AppendProperties
<1>8. \A i \in 1..Len(a) : c[i] = a[i]
  BY <1>2, AppendProperties
<1> HIDE DEF c
<1>9. ASSUME NEW i \in 1..Len(c) PROVE c[i] = q[i]
  <2>1. CASE i = Len(a) + 1
    BY <1>4, <1>7, <2>1
  <2>2. CASE i # Len(a) + 1
    <3>1. i \in 1..Len(a)
      BY <1>2, <1>6, <2>2
    <3> QED BY <1>1, <1>8, <3>1
  <2> QED BY <2>1, <2>2
<1>10. Under(c, q)
  <2>1. CASE Len(a) + 1 = Len(q)
    <3>1. Len(c) = Len(q)
      BY <1>6, <2>1
    <3> QED BY <1>5, <1>9, <3>1, SeqEqual DEF Under, Path
  <2>2. CASE Len(a) + 1 < Len(q)
    <3>1. 1 <= Len(c) /\ Len(c) < Len(q) /\ c \in Path
      BY <1>2, <1>5, <1>6, <2>2 DEF Path
    <3> QED BY <1>9, <3>1, AncestorOf DEF Under
  <2> QED BY <1>1, <1>2, <2>1, <2>2
<1> QED BY <1>10 DEF c

-----------------------------------------------------------------------------
\* How far a move has come.  A is the set of sources still to be moved; what is
\* under none of them is at its new place, and everything else of the view m the
\* move began with is where it was, up to the numbers of the inodes.
Waits(A, q) == \E e \in A : Under(e, q)

\* Where a path of m is now.
At(q, src, dst, A) == IF Under(src, q) /\ ~Waits(A, q) THEN T!Moved(q, src, dst) ELSE q

\* The paths of a move and the view m it began with.
Context(m, src, dst) ==
  /\ src \in Path /\ src # <<>> /\ dst \in Path /\ dst # <<>> /\ Apart(src, dst)
  /\ DOMAIN m \subseteq Path /\ \A q \in DOMAIN m : DirsTo(m, q)

\* Two paths share an inode now exactly if they did in m.
LinksKept(m, t, src, dst, A) ==
  \A q, r \in DOMAIN m :
    m[q].kind # "dir" /\ m[r].kind # "dir"
      => (m[q].ino = m[r].ino <=> t[At(q, src, dst, A)].ino = t[At(r, src, dst, A)].ino)

\* The view t has all of m, each path where it now is, and outside the source and the
\* waiting paths nothing else.
Tracks(m, t, src, dst, A) ==
  /\ \A q \in DOMAIN m : At(q, src, dst, A) \in DOMAIN t /\ SameNode(m[q], t[At(q, src, dst, A)])
  /\ LinksKept(m, t, src, dst, A)
  /\ \A x \in DOMAIN t : ~Under(src, x) => \E q \in DOMAIN m : x = At(q, src, dst, A)
  /\ \A x \in DOMAIN t : Waits(A, x) => x \in DOMAIN m

\* The sources are in the tree, under src, and apart from each other.
Sources(A, t, src) ==
  /\ \A e \in A : e \in DOMAIN t /\ e \in Path /\ Under(src, e)
  /\ \A e, g \in A : e # g => Apart(e, g)

\* The children of a.
Kids(t, a) == {Append(a, n) : n \in ChildNames(t, a)}

\* The sources after the first one, a, was moved.
SourcesAfter(A, B, t, u, a) ==
  \A e : e \in B <=> (e \in A /\ e # a) \/ (t[a].kind = "dir" /\ e \in Kids(u, a))

\* One call takes one path off the waiting ones and moves it to its new place.
LEMMA TracksStep ==
  ASSUME NEW m, NEW src, NEW dst, Context(m, src, dst), NEW t, NEW u, NEW A, Tracks(m, t, src, dst, A),
         Sources(A, t, src), NEW a \in A, NEW b, b = T!Moved(a, src, dst), b \notin DOMAIN t,
         StepTo(t, u, a, b), DOMAIN t \subseteq Path, DOMAIN u \subseteq Path, NEW B, SourcesAfter(A, B, t, u, a)
  PROVE  /\ Tracks(m, u, src, dst, B)
         /\ \A q \in DOMAIN m : Waits(B, q) <=> q # a /\ Waits(A, q)
<1>1. /\ src \in Path /\ src # <<>> /\ dst \in Path /\ dst # <<>> /\ Apart(src, dst)
      /\ DOMAIN m \subseteq Path /\ \A q \in DOMAIN m : DirsTo(m, q)
  BY DEF Context
<1>2. a \in DOMAIN t /\ a \in Path /\ Under(src, a) /\ \A e \in A : e \in Path /\ Under(src, e) /\ (e # a => Apart(e, a))
  BY DEF Sources
<1>3. b \in Path /\ Under(dst, b) /\ ~Under(src, b) /\ ~Under(dst, a)
  <2>1. b \in Path /\ Under(dst, b)
    BY <1>1, <1>2, MovedPath
  <2>2. ~Under(src, b)
    BY <1>1, <2>1, UnderLine DEF Apart
  <2>3. ~Under(dst, a)
    BY <1>1, <1>2, UnderLine DEF Apart
  <2> QED BY <2>1, <2>2, <2>3
<1>4. Under(a, a) /\ Waits(A, a)
  BY DEF Under, Waits
<1>5. a \in DOMAIN m /\ At(a, src, dst, A) = a /\ SameNode(m[a], t[a])
  BY <1>2, <1>4 DEF Tracks, At
<1>6. ASSUME NEW x \in Path, Waits(A, x) PROVE Under(src, x) /\ x # b
  <2>1. PICK e \in A : Under(e, x)
    BY <1>6 DEF Waits
  <2>2. Under(src, x)
    BY <1>2, <2>1, UnderTrans
  <2> QED BY <1>3, <2>2
<1>7. \A x \in DOMAIN t : x # a => x \in DOMAIN u /\ SameNode(t[x], u[x])
  BY DEF StepTo
<1>8. \A x \in DOMAIN u : x \in DOMAIN t \/ x = b \/ (Under(a, x) /\ t[a].kind # "dir")
  BY DEF StepTo
<1>9. ASSUME NEW e \in Kids(u, a), t[a].kind = "dir" PROVE e \in DOMAIN u /\ e \in Path /\ Under(a, e) /\ e # a
  <2>1. PICK n : n \in ChildNames(u, a) /\ e = Append(a, n)
    BY DEF Kids
  <2>2. n \in STRING /\ e \in DOMAIN u
    BY <1>2, <2>1, ChildName
  <2>3. e \in Path /\ e # <<>> /\ Ancestors(e) = Ancestors(a) \cup ({a} \ {<<>>})
    BY <1>2, <2>1, <2>2, AppendPath
  <2>4. a # <<>>
    BY <1>1, <1>2, AncestorsOfRoot DEF Under
  <2>5. a \in Ancestors(e)
    BY <2>3, <2>4
  <2>6. a # e
    BY <2>3, <2>5, AncestorOf
  <2> QED BY <2>2, <2>3, <2>5, <2>6 DEF Under
<1>10. ASSUME NEW q \in DOMAIN m PROVE Waits(B, q) <=> q # a /\ Waits(A, q)
  <2>1. q \in Path /\ DirsTo(m, q)
    BY <1>1
  <2>2. ASSUME Waits(B, q) PROVE q # a /\ Waits(A, q)
    <3>1. PICK e \in B : Under(e, q)
      BY <2>2 DEF Waits
    <3>2. CASE e \in A /\ e # a
      BY <1>2, <3>1, <3>2 DEF Waits, Apart
    <3>3. CASE t[a].kind = "dir" /\ e \in Kids(u, a)
      <4>1. e \in Path /\ Under(a, e) /\ e # a
        BY <1>9, <3>3
      <4>2. Under(a, q)
        BY <1>2, <2>1, <3>1, <4>1, UnderTrans
      <4>3. a \in Ancestors(e)
        BY <4>1 DEF Under
      <4>4. q # a
        <5>1. a \in Ancestors(q)
          BY <2>1, <3>1, <4>1, <4>3, AncestorTrans DEF Under
        <5> QED BY <2>1, <5>1, AncestorOf
      <4> QED BY <4>2, <4>4 DEF Waits
    <3> QED BY <3>1, <3>2, <3>3 DEF SourcesAfter
  <2>3. ASSUME q # a, Waits(A, q) PROVE Waits(B, q)
    <3>1. PICK e \in A : Under(e, q)
      BY <2>3 DEF Waits
    <3>2. CASE e # a
      <4>1. e \in B
        BY <3>1, <3>2 DEF SourcesAfter
      <4> QED BY <3>1, <4>1 DEF Waits
    <3>3. CASE e = a
      <4>1. a \in Ancestors(q)
        BY <2>3, <3>1, <3>3 DEF Under
      <4>2. PICK n \in STRING : Under(Append(a, n), q)
        BY <2>1, <4>1, ChildOn
      <4> DEFINE c == Append(a, n)
      <4>3. c \in Path /\ c # <<>> /\ Ancestors(c) = Ancestors(a) \cup ({a} \ {<<>>})
        BY <1>2, AppendPath
      <4>4. a # <<>>
        BY <1>1, <1>2, AncestorsOfRoot DEF Under
      <4> HIDE DEF c
      <4>5. a \in Ancestors(c) /\ Under(a, c) /\ c # a
        BY <4>3, <4>4, AncestorOf DEF Under
      <4>6. c \in DOMAIN m
        BY <2>1, <4>2 DEF Under, DirsTo, T!IsDir, c
      <4>7. m[a].kind = "dir"
        BY <1>1, <4>5, <4>6 DEF DirsTo, T!IsDir
      <4>8. t[a].kind = "dir"
        BY <1>5, <4>7 DEF SameNode
      <4>9. At(c, src, dst, A) = c
        BY <4>5 DEF At, Waits
      <4>10. c \in DOMAIN t
        BY <4>6, <4>9 DEF Tracks
      <4>11. c \in DOMAIN u
        BY <1>7, <4>5, <4>10
      <4>12. n \in ChildNames(u, a)
        BY <1>2, <4>11, ChildName DEF c
      <4>13. c \in Kids(u, a)
        BY <4>12 DEF Kids, c
      <4>14. c \in B
        BY <4>8, <4>13 DEF SourcesAfter
      <4> QED BY <4>2, <4>14 DEF Waits, c
    <3> QED BY <3>2, <3>3
  <2> QED BY <2>2, <2>3
<1>11. At(a, src, dst, B) = b
  BY <1>2, <1>5, <1>10 DEF At
<1>12. \A q \in DOMAIN m : q # a => At(q, src, dst, B) = At(q, src, dst, A)
  BY <1>10 DEF At
<1>13. ASSUME NEW q \in DOMAIN m, q # a
       PROVE  LET x == At(q, src, dst, A) IN x \in DOMAIN t /\ x # a /\ x # b /\ SameNode(m[q], t[x])
  <2> DEFINE x == At(q, src, dst, A)
  <2>1. x \in DOMAIN t /\ SameNode(m[q], t[x])
    BY DEF Tracks
  <2>2. x # a
    <3>1. CASE x = q
      BY <1>13, <3>1
    <3>2. CASE x # q
      <4>1. Under(src, q) /\ x = T!Moved(q, src, dst)
        BY <3>2 DEF At
      <4>2. Under(dst, x)
        BY <1>1, <4>1, MovedPath
      <4> QED BY <1>3, <4>2
    <3> QED BY <3>1, <3>2
  <2> QED BY <2>1, <2>2
<1>14. \A q \in DOMAIN m : At(q, src, dst, B) \in DOMAIN u /\ SameNode(m[q], u[At(q, src, dst, B)])
  <2>1. b \in DOMAIN u /\ SameNode(t[a], u[b])
    BY DEF StepTo
  <2>2. ASSUME NEW q \in DOMAIN m PROVE At(q, src, dst, B) \in DOMAIN u /\ SameNode(m[q], u[At(q, src, dst, B)])
    <3>1. CASE q = a
      BY <1>5, <1>11, <2>1, <3>1 DEF SameNode
    <3>2. CASE q # a
      BY <1>7, <1>12, <1>13, <3>2 DEF SameNode
    <3> QED BY <3>1, <3>2
  <2> QED BY <2>2
<1>15. ASSUME NEW q \in DOMAIN m
       PROVE  LET y == At(q, src, dst, B) IN
              y \in (DOMAIN t \ {a}) \cup {b} /\ Before(y, a, b) = At(q, src, dst, A)
  <2>1. CASE q = a
    BY <1>5, <1>11, <2>1 DEF Before
  <2>2. CASE q # a
    BY <1>12, <1>13, <2>2 DEF Before
  <2> QED BY <2>1, <2>2
<1>16. LinksKept(m, u, src, dst, B)
  <2> SUFFICES ASSUME NEW q \in DOMAIN m, NEW r \in DOMAIN m, m[q].kind # "dir", m[r].kind # "dir"
               PROVE  m[q].ino = m[r].ino <=> u[At(q, src, dst, B)].ino = u[At(r, src, dst, B)].ino
    BY DEF LinksKept
  <2> DEFINE x == At(q, src, dst, B)
             y == At(r, src, dst, B)
  <2>1. u[x].kind # "dir" /\ u[y].kind # "dir"
    BY <1>14 DEF SameNode
  <2>2. m[q].ino = m[r].ino <=> t[At(q, src, dst, A)].ino = t[At(r, src, dst, A)].ino
    BY DEF Tracks, LinksKept
  <2>3. /\ x \in (DOMAIN t \ {a}) \cup {b} /\ Before(x, a, b) = At(q, src, dst, A)
        /\ y \in (DOMAIN t \ {a}) \cup {b} /\ Before(y, a, b) = At(r, src, dst, A)
    BY <1>15
  <2> HIDE DEF x, y
  <2>4. u[x].ino = u[y].ino <=> t[Before(x, a, b)].ino = t[Before(y, a, b)].ino
    BY <2>1, <2>3 DEF StepTo, SameLinks
  <2> QED BY <2>2, <2>3, <2>4 DEF x, y
<1>17. ASSUME NEW x \in DOMAIN u, ~Under(src, x) PROVE \E q \in DOMAIN m : x = At(q, src, dst, B)
  <2>1. CASE x = b
    BY <1>5, <1>11, <2>1
  <2>2. CASE x \in DOMAIN t
    <3>1. PICK q \in DOMAIN m : x = At(q, src, dst, A)
      BY <1>17, <2>2 DEF Tracks
    <3>2. q # a
      BY <1>2, <1>5, <1>17, <3>1
    <3> QED BY <1>12, <3>1, <3>2
  <2>3. CASE Under(a, x)
    BY <1>2, <1>17, <2>3, UnderTrans
  <2> QED BY <1>8, <2>1, <2>2, <2>3
<1>18. ASSUME NEW x \in DOMAIN u, Waits(B, x) PROVE x \in DOMAIN m
  <2>1. PICK e \in B : Under(e, x)
    BY <1>18 DEF Waits
  <2>2. CASE e \in A /\ e # a
    <3>1. Waits(A, x) /\ x # b
      BY <1>6, <2>1, <2>2 DEF Waits
    <3>2. ~Under(a, x)
      BY <1>2, <2>1, <2>2, UnderLine DEF Apart
    <3>3. x \in DOMAIN t
      BY <1>8, <3>1, <3>2
    <3> QED BY <3>1, <3>3 DEF Tracks
  <2>3. CASE t[a].kind = "dir" /\ e \in Kids(u, a)
    <3>1. e \in Path /\ Under(a, e)
      BY <1>9, <2>3
    <3>2. Under(a, x)
      BY <1>2, <2>1, <3>1, UnderTrans
    <3>3. Waits(A, x) /\ x # b
      BY <1>6, <3>2 DEF Waits
    <3>4. x \in DOMAIN t
      BY <1>8, <2>3, <3>3
    <3> QED BY <3>3, <3>4 DEF Tracks
  <2> QED BY <2>1, <2>2, <2>3 DEF SourcesAfter
<1> QED BY <1>10, <1>14, <1>16, <1>17, <1>18 DEF Tracks

-----------------------------------------------------------------------------
\* The stack of moveMerged: every move on it is still to be made, from a path of
\* the view to the path its source has under dst, where nothing is yet, and no
\* two sources are on one line.
Move == [src : Path, dst : Path]

\* One move that is still to be made.
Pending(s, src, dst, e) ==
  /\ e \in Move /\ e.src \in DOMAIN Merged(s) /\ Under(src, e.src) /\ e.dst = T!Moved(e.src, src, dst)
  /\ e.dst \notin DOMAIN Visible(s) /\ DirsTo(s.upper, e.dst)

\* All of them.
Stack(s, src, dst, mv) ==
  /\ mv \in Seq(Move) /\ \A i \in 1..Len(mv) : Pending(s, src, dst, mv[i])
  /\ \A i, j \in 1..Len(mv) : i # j => Apart(mv[i].src, mv[j].src)

\* The sources on the stack.
Srcs(mv) == {mv[i].src : i \in 1..Len(mv)}

\* The tombstones decide alone what of the lower tree is hidden.
LEMMA SameTombs ==
  ASSUME NEW s, NEW z, z.tomb = s.tomb, NEW x
  PROVE  isHidden(z, x) <=> isHidden(s, x)
BY DEF isHidden

\* A move of another source leaves a move pending.
LEMMA StaysPending ==
  ASSUME NEW s, NEW z, NEW a, NEW b, NEW src, NEW dst, NEW e, UpperStep(s, z, b),
         StepTo(Merged(s), Merged(z), a, b), Pending(s, src, dst, e), e.src # a, e.dst # b
  PROVE  Pending(z, src, dst, e)
<1>1. e.src \in DOMAIN Merged(z)
  BY DEF StepTo, Pending
<1>2. e.dst \notin DOMAIN Visible(z)
  <2>1. e.dst \notin DOMAIN z.upper
    BY VisibleAt DEF UpperStep, Pending
  <2>2. ~(e.dst \in DOMAIN Lower /\ ~isHidden(z, e.dst))
    BY VisibleAt, SameTombs DEF UpperStep, Pending
  <2> QED BY <2>1, <2>2, VisibleAt
<1>3. DirsTo(z.upper, e.dst)
  BY DEF Pending, UpperStep, DirsTo, T!IsDir
<1> QED BY <1>1, <1>2, <1>3 DEF Pending

\* The moves of the children of a directory that was made at its new place.
LEMMA ChildPending ==
  ASSUME NEW s, WellFormed(s), NEW z, NEW a \in Path, NEW b \in Path, b # <<>>, NEW src \in Path, src # <<>>, NEW dst \in Path,
         UpperStep(s, z, b), Under(src, a), b = T!Moved(a, src, dst), T!IsDir(z.upper, b),
         b \notin DOMAIN Visible(s), DirsTo(s.upper, b), NEW n \in ChildNames(Merged(z), a)
  PROVE  Pending(z, src, dst, [src |-> Append(a, n), dst |-> Append(b, n)]) /\ n \in STRING
<1>1. WellFormed(z) /\ DOMAIN Merged(z) \subseteq Path
  BY MergedTree DEF UpperStep, WellFormed
<1>2. n \in STRING /\ Append(a, n) \in DOMAIN Merged(z)
  BY <1>1, ChildName
<1> DEFINE x == Append(a, n)
           y == Append(b, n)
<1>3. x \in Path /\ Ancestors(x) = Ancestors(a) \cup ({a} \ {<<>>})
  BY <1>2, AppendPath
<1>4. y \in Path /\ Ancestors(y) = Ancestors(b) \cup {b}
  BY <1>2, AppendPath
<1>5. y = T!Moved(x, src, dst)
  BY <1>2, MovedChild
<1>6. Under(src, x)
  BY <1>2, UnderAppend
<1> HIDE DEF x, y
<1>7. DirsTo(z.upper, y)
  BY <1>4 DEF UpperStep, DirsTo, T!IsDir
<1>8. y \notin DOMAIN z.upper
  <2>1. y # b
    BY <1>4, AncestorOf
  <2>2. ASSUME y \in DOMAIN s.upper PROVE FALSE
    <3>1. b \in DOMAIN s.upper
      BY <1>4, <2>2 DEF WellFormed, Closed, DirsTo, T!IsDir
    <3> QED BY <3>1, VisibleAt
  <2> QED BY <2>1, <2>2 DEF UpperStep
<1>9. ASSUME y \in DOMAIN Lower, ~isHidden(z, y) PROVE FALSE
  <2>1. b \in DOMAIN Lower
    BY <1>4, <1>9, LowerTree DEF DirsTo, T!IsDir
  <2>2. ~isHidden(z, b)
    BY <1>4, <1>9, HiddenBelow
  <2>3. ~isHidden(s, b)
    BY <2>2, SameTombs DEF UpperStep
  <2> QED BY <2>1, <2>3, VisibleAt
<1>10. y \notin DOMAIN Visible(z)
  BY <1>8, <1>9, VisibleAt
<1> DEFINE e == [src |-> x, dst |-> y]
<1>11. e \in Move /\ e.src = x /\ e.dst = y
  BY <1>3, <1>4 DEF Move
<1>12. Pending(z, src, dst, e)
  <2>1. x \in DOMAIN Merged(z)
    BY <1>2 DEF x
  <2> HIDE DEF e
  <2> QED BY <1>5, <1>6, <1>7, <1>10, <1>11, <2>1 DEF Pending
<1> QED BY <1>2, <1>12 DEF x, y

\* The view is finite.
LEMMA ViewFinite ==
  ASSUME NEW s, WellFormed(s)
  PROVE  IsFiniteSet(DOMAIN Merged(s))
<1>1. IsFiniteSet(DOMAIN Lower)
  BY PathsAssumption, FS_Subset
<1>2. IsFiniteSet(DOMAIN s.upper)
  BY DEF WellFormed, StateOK
<1>3. IsFiniteSet(DOMAIN s.upper \cup DOMAIN Lower)
  BY <1>1, <1>2, FS_Union
<1>4. DOMAIN Merged(s) \in SUBSET (DOMAIN s.upper \cup DOMAIN Lower)
  BY MergedAt, VisibleAt
<1> QED BY <1>3, <1>4, FS_Subset

\* A directory has finitely many children.
LEMMA ChildMovesFinite ==
  ASSUME NEW t, IsFiniteSet(DOMAIN t), NEW a, NEW b
  PROVE  IsFiniteSet(ChildMoves(a, b, ChildNames(t, a)))
<1> DEFINE C == T!Children(t, a)
           K == ChildMoves(a, b, ChildNames(t, a))
           mv(c) == [src |-> Append(a, SX!Last(c)), dst |-> Append(b, SX!Last(c))]
           f == [c \in C |-> mv(c)]
<1>1. C \in SUBSET DOMAIN t
  BY DEF T!Children
<1>2. IsFiniteSet(C)
  BY <1>1, FS_Subset
<1>3. \A k : k \in K <=> \E c \in C : k = mv(c)
  BY Zenon DEF ChildMoves, ChildNames
<1> HIDE DEF C, K, mv
<1>4. f \in Surjection(C, K)
  BY <1>3 DEF Surjection
<1> HIDE DEF f
<1>5. IsFiniteSet(K)
  BY <1>2, <1>4, FS_Surjection
<1> QED BY <1>5 DEF K

\* What one call of moveMerged puts on the stack.
Below(below, K) ==
  /\ below \in Seq(Move) /\ \A i \in 1..Len(below) : below[i] \in K
  /\ \A e \in K : \E i \in 1..Len(below) : below[i] = e
  /\ \A i, j \in 1..Len(below) : below[i] = below[j] => i = j

\* The calls that follow the move of a to b.
KidMoves(t, u, a, b) == IF t[a].kind = "dir" THEN ChildMoves(a, b, ChildNames(u, a)) ELSE {}

\* A call for a child.
LEMMA ChildMoveIs ==
  ASSUME NEW e, NEW a, NEW b, NEW names, e \in ChildMoves(a, b, names)
  PROVE  \E n \in names : e = [src |-> Append(a, n), dst |-> Append(b, n)]
                          /\ e.src = Append(a, n) /\ e.dst = Append(b, n)
BY DEF ChildMoves

\* moveMerged makes one call for each of them, in some order.
LEMMA BelowOne ==
  ASSUME NEW s, NEW one, NEW a, NEW b, MovedOne(s, one, a, b), one.ok,
         IsFiniteSet(DOMAIN Merged(one.s)), KidMoves(Merged(s), Merged(one.s), a, b) \subseteq Move
  PROVE  Below(one.below, KidMoves(Merged(s), Merged(one.s), a, b))
<1> DEFINE K == KidMoves(Merged(s), Merged(one.s), a, b)
           C == ChildMoves(a, b, ChildNames(Merged(one.s), a))
           f == SX!SetToSeq(K)
<1>1. CASE Merged(s)[a].kind = "dir"
  <2>1. K = C
    BY <1>1 DEF KidMoves
  <2>2. one.below = f
    BY <1>1, <2>1 DEF MovedOne
  <2>3. IsFiniteSet(K)
    BY <2>1, ChildMovesFinite
  <2> HIDE DEF K
  <2>4. f \in Seq(K) /\ (\A x \in K : \E i \in 1..Len(f) : f[i] = x)
        /\ \A i, j \in 1..Len(f) : f[i] = f[j] => i = j
    BY <2>3, SetToSeqLists
  <2> HIDE DEF f
  <2>5. f \in Seq(Move) /\ \A i \in 1..Len(f) : f[i] \in K
    BY <2>4 DEF K
  <2>6. Below(one.below, K)
    BY <2>2, <2>4, <2>5 DEF Below
  <2> QED BY <2>6 DEF K
<1>2. CASE Merged(s)[a].kind # "dir"
  <2>1. K = {} /\ one.below = <<>>
    BY <1>2 DEF KidMoves, MovedOne
  <2>2. <<>> \in Seq(Move) /\ Len(<<>>) = 0
    BY EmptySeq
  <2> HIDE DEF K
  <2>3. Below(one.below, K)
    BY <2>1, <2>2 DEF Below
  <2> QED BY <2>3 DEF K
<1> QED BY <1>1, <1>2

\* Sources of children are apart from everything apart from their directory, and
\* from each other.
LEMMA ChildApart ==
  ASSUME NEW a \in Path, a # <<>>, NEW n \in STRING
  PROVE  /\ \A x \in Path : Apart(x, a) => Apart(x, Append(a, n)) /\ Apart(Append(a, n), x)
         /\ \A k \in STRING : k # n => Apart(Append(a, n), Append(a, k))
<1>1. Append(a, n) \in Path /\ Under(a, Append(a, n))
  BY AppendPath DEF Under
<1>2. \A x \in Path : Apart(x, a) => Apart(x, Append(a, n)) /\ Apart(Append(a, n), x)
  BY <1>1, ApartBelow DEF Apart
<1>3. ASSUME NEW k \in STRING, k # n PROVE Apart(Append(a, n), Append(a, k))
  <2> DEFINE x == Append(a, n)
             y == Append(a, k)
  <2>1. x \in Path /\ y \in Path /\ Ancestors(x) = Ancestors(a) \cup {a} /\ Ancestors(y) = Ancestors(a) \cup {a}
    BY AppendPath
  <2>2. SX!Last(x) = n /\ SX!Last(y) = k
    BY AppendPath
  <2> HIDE DEF x, y
  <2>3. x # y
    BY <1>3, <2>2
  <2>4. x \notin Ancestors(y) /\ y \notin Ancestors(x)
    BY <2>1, AncestorOf
  <2> QED BY <2>3, <2>4 DEF Apart, Under, x, y
<1> QED BY <1>2, <1>3

\* One call of moveMerged keeps the stack.
LEMMA StackStep ==
  ASSUME NEW s, WellFormed(s), NEW src \in Path, src # <<>>, NEW dst \in Path, dst # <<>>,
         NEW mv, Stack(s, src, dst, mv), mv # <<>>, NEW a, NEW b, a = mv[1].src, b = mv[1].dst,
         NEW one, MovedOne(s, one, a, b), one.ok, NEW c, c = one.below \o Tail(mv)
  PROVE  /\ Stack(one.s, src, dst, c)
         /\ SourcesAfter(Srcs(mv), Srcs(c), Merged(s), Merged(one.s), a)
<1> DEFINE z == one.s
           below == one.below
           K == KidMoves(Merged(s), Merged(z), a, b)
<1>1. mv \in Seq(Move) /\ Len(mv) \in Nat /\ 1 \in 1..Len(mv)
  <2>1. mv \in Seq(Move)
    BY DEF Stack
  <2> QED BY <2>1, EmptySeq
<1>2. Pending(s, src, dst, mv[1])
  BY <1>1 DEF Stack
<1>3. a \in Path /\ b \in Path /\ a \in DOMAIN Merged(s) /\ Under(src, a) /\ b = T!Moved(a, src, dst)
      /\ b \notin DOMAIN Visible(s) /\ DirsTo(s.upper, b)
  BY <1>2 DEF Pending, Move
<1>4. a # <<>> /\ b # <<>>
  <2>1. Under(dst, b)
    BY <1>3, MovedPath
  <2> QED BY <1>3, <2>1, AncestorsOfRoot DEF Under
<1>5. UpperStep(s, z, b) /\ StepTo(Merged(s), Merged(z), a, b) /\ WellFormed(z)
  BY DEF MovedOne, UpperStep
<1>6. ASSUME NEW e \in K
      PROVE  \E n \in ChildNames(Merged(z), a) :
               /\ Merged(s)[a].kind = "dir" /\ n \in STRING
               /\ e.src = Append(a, n) /\ e.dst = Append(b, n) /\ Pending(z, src, dst, e)
               /\ e = [src |-> Append(a, n), dst |-> Append(b, n)]
  <2>1. Merged(s)[a].kind = "dir" /\ e \in ChildMoves(a, b, ChildNames(Merged(z), a))
    BY <1>6 DEF KidMoves
  <2>2. PICK n \in ChildNames(Merged(z), a) : e = [src |-> Append(a, n), dst |-> Append(b, n)]
                          /\ e.src = Append(a, n) /\ e.dst = Append(b, n)
    BY <2>1, ChildMoveIs
  <2>3. T!IsDir(z.upper, b)
    BY <2>1 DEF MovedOne
  <2>4. Pending(z, src, dst, e) /\ n \in STRING
    BY <1>3, <1>4, <1>5, <2>2, <2>3, ChildPending
  <2> QED BY <2>1, <2>2, <2>4
<1>7. Below(below, K)
  <2>1. K \subseteq Move
    BY <1>6 DEF Pending
  <2>2. IsFiniteSet(DOMAIN Merged(z))
    BY <1>5, ViewFinite
  <2> QED BY <2>1, <2>2, BelowOne
<1> HIDE DEF z, below, K
<1>8. below \in Seq(Move) /\ c = below \o Tail(mv)
  BY <1>7 DEF Below, below
<1>9. /\ c \in Seq(Move) /\ Len(below) \in Nat /\ Len(c) = Len(below) + Len(mv) - 1
      /\ \A i \in 1..Len(c) :
              \/ i \in 1..Len(below) /\ c[i] = below[i]
              \/ \E j \in 2..Len(mv) : i = Len(below) + j - 1 /\ c[i] = mv[j]
      /\ \A i \in 1..Len(below) : i \in 1..Len(c) /\ c[i] = below[i]
      /\ \A j \in 2..Len(mv) : Len(below) + j - 1 \in 1..Len(c) /\ c[Len(below) + j - 1] = mv[j]
  <2>1. OnStack(Move, below, mv, c)
    BY <1>1, <1>8, StackIndex
  <2> QED BY <2>1 DEF OnStack
<1>10. ASSUME NEW j \in 2..Len(mv)
       PROVE  /\ j \in 1..Len(mv) /\ mv[j] \in Move /\ mv[j].src \in Path /\ Apart(mv[j].src, a)
              /\ mv[j].src # a /\ Pending(z, src, dst, mv[j])
  <2>1. j \in 1..Len(mv) /\ j # 1
    BY <1>1
  <2>2. mv[j] \in Move
    BY <1>1, <2>1
  <2>3. mv[j].src \in Path
    BY <2>2 DEF Move
  <2>4. Apart(mv[j].src, a) /\ mv[j].src # a
    <3>1. Apart(mv[j].src, mv[1].src)
      BY <1>1, <2>1 DEF Stack
    <3> QED BY <3>1 DEF Apart, Under
  <2>5. Pending(s, src, dst, mv[j])
    BY <2>1 DEF Stack
  <2>6. mv[j].dst # b
    <3>1. T!Moved(b, dst, src) = a
      BY <1>3, MovedPath
    <3>2. Under(src, mv[j].src) /\ mv[j].dst = T!Moved(mv[j].src, src, dst)
      BY <2>5 DEF Pending
    <3>3. T!Moved(mv[j].dst, dst, src) = mv[j].src
      BY <2>3, <3>2, MovedPath
    <3> QED BY <2>4, <3>1, <3>3
  <2>7. Pending(z, src, dst, mv[j])
    BY <1>5, <2>4, <2>5, <2>6, StaysPending DEF z
  <2> QED BY <2>1, <2>2, <2>3, <2>4, <2>7
<1>11. ASSUME NEW i \in 1..Len(below) PROVE below[i] \in K
  BY <1>7 DEF Below
<1>12. ASSUME NEW i \in 1..Len(c) PROVE Pending(z, src, dst, c[i])
  <2>1. CASE i \in 1..Len(below) /\ c[i] = below[i]
    BY <1>6, <1>11, <2>1
  <2>2. CASE \E j \in 2..Len(mv) : i = Len(below) + j - 1 /\ c[i] = mv[j]
    BY <1>10, <2>2
  <2> QED BY <1>9, <2>1, <2>2
<1>13. ASSUME NEW i \in 1..Len(c), NEW j \in 1..Len(c), i # j PROVE Apart(c[i].src, c[j].src)
  <2>1. CASE i \in 1..Len(below) /\ c[i] = below[i] /\ j \in 1..Len(below) /\ c[j] = below[j]
    <3>1. PICK n \in STRING : c[i] = [src |-> Append(a, n), dst |-> Append(b, n)] /\ c[i].src = Append(a, n)
      BY <1>6, <1>11, <2>1
    <3>2. PICK k \in STRING : c[j] = [src |-> Append(a, k), dst |-> Append(b, k)] /\ c[j].src = Append(a, k)
      BY <1>6, <1>11, <2>1
    <3>3. c[i] # c[j]
      BY <1>7, <1>13, <2>1 DEF Below
    <3>4. n # k
      BY <3>1, <3>2, <3>3
    <3> QED BY <1>3, <1>4, <3>1, <3>2, <3>4, ChildApart
  <2>2. ASSUME NEW g \in 1..Len(below), NEW h \in 2..Len(mv)
        PROVE  Apart(below[g].src, mv[h].src) /\ Apart(mv[h].src, below[g].src)
    <3>1. PICK n \in STRING : below[g].src = Append(a, n)
      BY <1>6, <1>11
    <3>2. mv[h].src \in Path /\ Apart(mv[h].src, a)
      BY <1>10
    <3> QED BY <1>3, <1>4, <3>1, <3>2, ChildApart
  <2>3. ASSUME NEW g \in 2..Len(mv), NEW h \in 2..Len(mv), i = Len(below) + g - 1, j = Len(below) + h - 1,
               c[i] = mv[g], c[j] = mv[h]
        PROVE  Apart(c[i].src, c[j].src)
    <3>1. g # h
      BY <1>13, <2>3
    <3>2. g \in 1..Len(mv) /\ h \in 1..Len(mv)
      BY <1>10
    <3> QED BY <2>3, <3>1, <3>2 DEF Stack
  <2> QED BY <1>9, <2>1, <2>2, <2>3, ZenonT(40)
<1>14. Stack(z, src, dst, c)
  BY <1>9, <1>12, <1>13 DEF Stack
<1>15. ASSUME NEW e PROVE e \in Srcs(c) <=> (e \in Srcs(mv) /\ e # a) \/ (Merged(s)[a].kind = "dir" /\ e \in Kids(Merged(z), a))
  <2>1. ASSUME e \in Srcs(c)
        PROVE  (e \in Srcs(mv) /\ e # a) \/ (Merged(s)[a].kind = "dir" /\ e \in Kids(Merged(z), a))
    <3>1. PICK i \in 1..Len(c) : e = c[i].src
      BY <2>1 DEF Srcs
    <3>2. CASE i \in 1..Len(below) /\ c[i] = below[i]
      BY <1>6, <1>11, <3>1, <3>2 DEF Kids
    <3>3. CASE \E j \in 2..Len(mv) : i = Len(below) + j - 1 /\ c[i] = mv[j]
      BY <1>10, <3>1, <3>3 DEF Srcs
    <3> QED BY <1>9, <3>2, <3>3
  <2>2. ASSUME e \in Srcs(mv), e # a PROVE e \in Srcs(c)
    <3>1. PICK i \in 1..Len(mv) : e = mv[i].src
      BY <2>2 DEF Srcs
    <3>2. i # 1
      BY <2>2, <3>1
    <3>3. i \in 2..Len(mv)
      BY <1>1, <3>2
    <3>4. Len(below) + i - 1 \in 1..Len(c) /\ c[Len(below) + i - 1] = mv[i]
      BY <1>9, <3>3
    <3> QED BY <3>1, <3>4 DEF Srcs
  <2>3. ASSUME Merged(s)[a].kind = "dir", e \in Kids(Merged(z), a) PROVE e \in Srcs(c)
    <3>1. PICK n \in ChildNames(Merged(z), a) : e = Append(a, n)
      BY <2>3 DEF Kids
    <3> DEFINE k == [src |-> Append(a, n), dst |-> Append(b, n)]
    <3>2. k \in K /\ k.src = e
      BY <2>3, <3>1 DEF K, KidMoves, ChildMoves
    <3> HIDE DEF k
    <3>3. PICK i \in 1..Len(below) : below[i] = k
      BY <1>7, <3>2 DEF Below
    <3>4. i \in 1..Len(c) /\ c[i] = k
      BY <1>9, <3>3
    <3> QED BY <3>2, <3>4 DEF Srcs
  <2> QED BY <2>1, <2>2, <2>3
<1>16. SourcesAfter(Srcs(mv), Srcs(c), Merged(s), Merged(z), a)
  BY <1>15 DEF SourcesAfter
<1> QED BY <1>14, <1>16 DEF z

-----------------------------------------------------------------------------
\* The state a move from src to dst is in after some calls of moveMerged: what is
\* not yet moved waits under a source on the stack, and the upper tree has
\* nothing below src that it did not have at the start.
Going(s0, src, dst, c) ==
  /\ WellFormed(c.s) /\ c.s.tomb = s0.tomb /\ c.ok \in BOOLEAN
  /\ \A x \in DOMAIN c.s.upper :
       Under(src, x) => x \in DOMAIN s0.upper /\ c.s.upper[x].kind = s0.upper[x].kind
  /\ c.ok => /\ Stack(c.s, src, dst, c.moves)
             /\ Tracks(Merged(s0), Merged(c.s), src, dst, Srcs(c.moves))

\* Nothing at src or below it is obstructed.
Clear(s0, src) == \A x \in T!Subtree(Merged(s0), src) : ~Obstructed(s0, x)

\* The paths of m that wait.
Left(m, A) == {q \in DOMAIN m : Waits(A, q)}

\* A subtree in terms of Under.
LEMMA SubtreeUnder ==
  ASSUME NEW t, DOMAIN t \subseteq Path, NEW q \in Path, q # <<>>
  PROVE  \A x : x \in T!Subtree(t, q) <=> x \in DOMAIN t /\ Under(q, x)
BY UnderPrefix, PrefixSame DEF T!Subtree

\* The first move on the stack.
LEMMA HeadOfMoves ==
  ASSUME NEW mv \in Seq(Move), mv # <<>>
  PROVE  Head(mv) = mv[1] /\ 1 \in 1..Len(mv) /\ mv[1] \in Move
<1>1. 1 \in 1..Len(mv)
  BY EmptySeq
<1> QED BY <1>1

\* MoveNext, by cases.
LEMMA MoveNextIs ==
  ASSUME NEW c, NEW one, one = MoveOne(c.s, Head(c.moves).src, Head(c.moves).dst)
  PROVE  /\ c.moves = <<>> \/ ~c.ok => MoveNext(c) = c
         /\ c.moves # <<>> /\ c.ok =>
              /\ MoveNext(c).ok = one.ok /\ MoveNext(c).s = one.s
              /\ one.ok => MoveNext(c).moves = one.below \o Tail(c.moves)
BY DEF MoveNext, Continue

\* One call of moveMerged moves one path, and succeeds if the path is not
\* obstructed.
LEMMA GoesOn ==
  ASSUME NEW s0, WellFormed(s0), NEW src, NEW dst, Context(Merged(s0), src, dst),
         NEW c, Going(s0, src, dst, c), c.ok, c.moves # <<>>
  PROVE  LET d == MoveNext(c) IN
         /\ Going(s0, src, dst, d) /\ (Clear(s0, src) => d.ok)
         /\ d.ok => \E a \in Left(Merged(s0), Srcs(c.moves)) :
              Left(Merged(s0), Srcs(d.moves)) = Left(Merged(s0), Srcs(c.moves)) \ {a}
<1> DEFINE m == Merged(s0)
           mv == c.moves
           a == mv[1].src
           b == mv[1].dst
           one == MoveOne(c.s, a, b)
           z == one.s
           d == MoveNext(c)
<1>1. /\ src \in Path /\ src # <<>> /\ dst \in Path /\ dst # <<>> /\ Apart(src, dst)
      /\ DOMAIN m \subseteq Path
  BY DEF Context
<1>2. /\ WellFormed(c.s) /\ c.s.tomb = s0.tomb /\ Stack(c.s, src, dst, mv)
      /\ Tracks(m, Merged(c.s), src, dst, Srcs(mv))
  BY DEF Going
<1>3. mv \in Seq(Move) /\ Head(mv) = mv[1] /\ 1 \in 1..Len(mv) /\ mv[1] \in Move
  <2>1. mv \in Seq(Move)
    BY <1>2 DEF Stack
  <2> QED BY <2>1, HeadOfMoves
<1>4. Pending(c.s, src, dst, mv[1])
  BY <1>2, <1>3 DEF Stack
<1>5. /\ a \in Path /\ b \in Path /\ a \in DOMAIN Merged(c.s) /\ Under(src, a) /\ b = T!Moved(a, src, dst)
      /\ b \notin DOMAIN Visible(c.s) /\ DirsTo(c.s.upper, b)
  BY <1>4 DEF Pending, Move
<1>6. b # <<>> /\ Under(dst, b) /\ ~Under(src, b)
  <2>1. Under(dst, b)
    BY <1>1, <1>5, MovedPath
  <2>2. b # <<>>
    BY <1>1, <2>1, AncestorsOfRoot DEF Under
  <2>3. ~Under(src, b)
    BY <1>1, <1>5, <2>1, UnderLine DEF Apart
  <2> QED BY <2>1, <2>2, <2>3
<1>7. MovedOne(c.s, one, a, b)
  <2>1. FreeAt(c.s, b, c.s.tomb)
    BY <1>2, <1>5, <1>6 DEF FreeAt
  <2> QED BY <1>5, <2>1, MovesOne
<1>8. d.ok = one.ok /\ d.s = z /\ (one.ok => d.moves = one.below \o Tail(mv))
  BY <1>3, MoveNextIs
<1> HIDE DEF one, d, a, b, mv
<1>9. UpperStep(c.s, z, b) /\ StepTo(Merged(c.s), Merged(z), a, b) /\ WellFormed(z) /\ z.tomb = s0.tomb
  BY <1>2, <1>7 DEF MovedOne, UpperStep
<1>10. one.ok \in BOOLEAN
  BY <1>7 DEF MovedOne
<1>11. ASSUME NEW x \in DOMAIN z.upper, Under(src, x)
       PROVE  x \in DOMAIN s0.upper /\ z.upper[x].kind = s0.upper[x].kind
  BY <1>6, <1>9, <1>11 DEF Going, UpperStep
<1>12. a \in Srcs(mv) /\ Waits(Srcs(mv), a) /\ a \in DOMAIN m
  <2>1. a \in Srcs(mv)
    BY <1>3 DEF Srcs, a
  <2>2. Waits(Srcs(mv), a)
    BY <2>1 DEF Waits, Under
  <2> QED BY <1>2, <1>5, <2>1, <2>2 DEF Tracks
<1>13. ASSUME Clear(s0, src) PROVE one.ok
  <2>1. CASE Merged(c.s)[a].kind # "dir"
    BY <1>7, <2>1 DEF MovedOne
  <2>2. CASE Merged(c.s)[a].kind = "dir"
    <3>1. ~Obstructed(s0, a)
      <4>1. a \in T!Subtree(m, src)
        BY <1>1, <1>5, <1>12, SubtreeUnder
      <4> QED BY <1>13, <4>1 DEF Clear
    <3>2. ~Obstructed(z, a)
      BY <1>5, <1>9, <1>11, <3>1 DEF Obstructed
    <3> QED BY <1>7, <2>2, <3>2 DEF MovedOne
  <2> QED BY <2>1, <2>2
<1>14. ASSUME one.ok
       PROVE  /\ Stack(z, src, dst, d.moves) /\ Tracks(m, Merged(z), src, dst, Srcs(d.moves))
              /\ \A q \in DOMAIN m : Waits(Srcs(d.moves), q) <=> q # a /\ Waits(Srcs(mv), q)
  <2>1. PICK nx : nx = one.below \o Tail(mv)
    OBVIOUS
  <2>2. d.moves = nx
    BY <1>8, <1>14, <2>1
  <2>3. /\ Stack(one.s, src, dst, nx)
        /\ SourcesAfter(Srcs(mv), Srcs(nx), Merged(c.s), Merged(one.s), a)
    <3>1. a = mv[1].src /\ b = mv[1].dst /\ mv # <<>>
      BY DEF a, b, mv
    <3> QED BY <1>1, <1>2, <1>7, <1>14, <2>1, <3>1, StackStep
  <2>4. Sources(Srcs(mv), Merged(c.s), src)
    <3>1. \A i \in 1..Len(mv) : Pending(c.s, src, dst, mv[i]) /\ mv[i] \in Move
      BY <1>2, <1>3 DEF Stack
    <3>2. ASSUME NEW e \in Srcs(mv) PROVE e \in DOMAIN Merged(c.s) /\ e \in Path /\ Under(src, e)
      BY <3>1 DEF Srcs, Pending, Move
    <3>3. ASSUME NEW e \in Srcs(mv), NEW g \in Srcs(mv), e # g PROVE Apart(e, g)
      BY <1>2, <3>3 DEF Srcs, Stack
    <3> QED BY <3>2, <3>3 DEF Sources
  <2>5. b \notin DOMAIN Merged(c.s) /\ DOMAIN Merged(c.s) \subseteq Path /\ DOMAIN Merged(z) \subseteq Path
    BY <1>2, <1>5, <1>9, MergedAt, MergedTree DEF WellFormed
  <2>6. /\ Tracks(m, Merged(z), src, dst, Srcs(nx))
        /\ \A q \in DOMAIN m : Waits(Srcs(nx), q) <=> q # a /\ Waits(Srcs(mv), q)
    BY <1>2, <1>5, <1>9, <1>12, <2>3, <2>4, <2>5, TracksStep
  <2> QED BY <2>2, <2>3, <2>6
<1>15. Going(s0, src, dst, d)
  BY <1>8, <1>9, <1>10, <1>11, <1>14 DEF Going
<1>16. ASSUME d.ok
       PROVE  a \in Left(m, Srcs(mv)) /\ Left(m, Srcs(d.moves)) = Left(m, Srcs(mv)) \ {a}
  BY <1>8, <1>12, <1>14, <1>16 DEF Left
<1> QED BY <1>8, <1>13, <1>15, <1>16 DEF d, mv

\* The first call.
LEMMA MoveStarts ==
  ASSUME NEW s0, WellFormed(s0), NEW src, NEW dst, Context(Merged(s0), src, dst),
         src \in DOMAIN Merged(s0), dst \notin DOMAIN Visible(s0), DirsTo(s0.upper, dst),
         NEW c, c = [ok |-> TRUE, s |-> s0, moves |-> <<[src |-> src, dst |-> dst]>>]
  PROVE  /\ Going(s0, src, dst, c)
         /\ Left(Merged(s0), Srcs(c.moves)) = T!Subtree(Merged(s0), src)
<1> DEFINE m == Merged(s0)
           e == [src |-> src, dst |-> dst]
           mv == <<e>>
<1>1. /\ src \in Path /\ src # <<>> /\ dst \in Path /\ dst # <<>> /\ DOMAIN m \subseteq Path
  BY DEF Context
<1>2. e \in Move /\ e.src = src /\ e.dst = dst
  BY <1>1 DEF Move
<1> HIDE DEF e
<1>3. mv \in Seq(Move) /\ Len(mv) = 1 /\ mv[1] = e
  BY <1>2
<1>4. c.ok = TRUE /\ c.s = s0 /\ c.moves = mv
  BY DEF e
<1> HIDE DEF mv
<1>5. Pending(s0, src, dst, e)
  BY <1>1, <1>2, MovedSelf DEF Pending, Under
<1>6. Stack(s0, src, dst, mv)
  <2>1. \A i \in 1..Len(mv) : i = 1
    BY <1>3
  <2> QED BY <1>3, <1>5, <2>1 DEF Stack
<1>7. Srcs(mv) = {src}
  <2>1. \A i \in 1..Len(mv) : i = 1
    BY <1>3
  <2>2. 1 \in 1..Len(mv)
    BY <1>3
  <2> QED BY <1>2, <1>3, <2>1, <2>2 DEF Srcs
<1>8. \A q : Waits({src}, q) <=> Under(src, q)
  BY DEF Waits
<1>9. \A q : At(q, src, dst, {src}) = q
  BY <1>8 DEF At
<1>10. Tracks(m, m, src, dst, {src})
  <2>1. \A q \in DOMAIN m : SameNode(m[q], m[q])
    BY DEF SameNode
  <2>2. LinksKept(m, m, src, dst, {src})
    BY <1>9 DEF LinksKept
  <2> QED BY <1>9, <2>1, <2>2 DEF Tracks
<1>11. Left(m, {src}) = T!Subtree(m, src)
  BY <1>1, <1>8, SubtreeUnder DEF Left
<1>12. Going(s0, src, dst, c)
  BY <1>4, <1>6, <1>7, <1>10 DEF Going
<1> QED BY <1>4, <1>7, <1>11, <1>12

\* What is true of a move after n calls; the last call finds nothing left.
Counted(s0, src, dst, c, n, N) ==
  /\ Going(s0, src, dst, c) /\ (Clear(s0, src) => c.ok)
  /\ c.ok => /\ IsFiniteSet(Left(Merged(s0), Srcs(c.moves)))
             /\ Cardinality(Left(Merged(s0), Srcs(c.moves))) + n <= N

\* Every call leaves one path less.
LEMMA CountedNext ==
  ASSUME NEW s0, WellFormed(s0), NEW src, NEW dst, Context(Merged(s0), src, dst), NEW N \in Nat,
         NEW n \in Nat, n + 1 <= N, NEW c, Counted(s0, src, dst, c, n, N)
  PROVE  Counted(s0, src, dst, MoveNext(c), n + 1, N)
<1> DEFINE m == Merged(s0)
           L == Left(m, Srcs(c.moves))
           d == MoveNext(c)
<1>1. CASE ~c.ok
  <2>1. d = c
    BY <1>1, MoveNextIs
  <2> QED BY <1>1, <2>1 DEF Counted
<1>2. CASE c.ok /\ c.moves = <<>>
  <2>1. d = c
    BY <1>2, MoveNextIs
  <2>2. Len(<<>>) = 0
    OBVIOUS
  <2>3. Srcs(c.moves) = {}
    BY <1>2, <2>2 DEF Srcs
  <2>4. L = {}
    BY <2>3 DEF Left, Waits
  <2>5. IsFiniteSet(L) /\ Cardinality(L) = 0
    BY <2>4, FS_EmptySet
  <2>6. Cardinality(L) + (n + 1) <= N
    BY <2>5
  <2> HIDE DEF d, L
  <2>7. IsFiniteSet(Left(m, Srcs(d.moves))) /\ Cardinality(Left(m, Srcs(d.moves))) + (n + 1) <= N
    BY <2>1, <2>5, <2>6 DEF L
  <2>8. Going(s0, src, dst, d) /\ (Clear(s0, src) => d.ok)
    BY <2>1 DEF Counted
  <2> QED BY <2>7, <2>8 DEF Counted, d
<1>3. CASE c.ok /\ c.moves # <<>>
  <2>1. Going(s0, src, dst, c) /\ IsFiniteSet(L) /\ Cardinality(L) + n <= N
    BY <1>3 DEF Counted
  <2>2. /\ Going(s0, src, dst, d) /\ (Clear(s0, src) => d.ok)
        /\ d.ok => \E a \in L : Left(m, Srcs(d.moves)) = L \ {a}
    BY <1>3, <2>1, GoesOn
  <2> HIDE DEF d, L
  <2>3. ASSUME d.ok
        PROVE  IsFiniteSet(Left(m, Srcs(d.moves))) /\ Cardinality(Left(m, Srcs(d.moves))) + (n + 1) <= N
    <3>1. PICK a \in L : Left(m, Srcs(d.moves)) = L \ {a}
      BY <2>2, <2>3
    <3>2. IsFiniteSet(L \ {a}) /\ Cardinality(L \ {a}) = Cardinality(L) - 1
      BY <2>1, FS_RemoveElement
    <3>3. Cardinality(L) \in Nat
      BY <2>1, FS_CardinalityType
    <3>4. Cardinality(L \ {a}) + (n + 1) <= N
      BY <2>1, <3>2, <3>3
    <3> QED BY <3>1, <3>2, <3>4
  <2> QED BY <2>2, <2>3 DEF Counted, d
<1> QED BY <1>1, <1>2, <1>3

\* After a call for every path at src and below it, either a call failed or
\* everything is at its new place.
LEMMA MovesAll ==
  ASSUME NEW s0, WellFormed(s0), NEW src, NEW dst, Context(Merged(s0), src, dst),
         src \in DOMAIN Merged(s0), dst \notin DOMAIN Visible(s0), DirsTo(s0.upper, dst)
  PROVE  LET c == Moves(s0, src, dst)[Cardinality(T!Subtree(Merged(s0), src))] IN
         /\ Going(s0, src, dst, c) /\ (Clear(s0, src) => c.ok)
         /\ c.ok => Srcs(c.moves) = {}
<1> DEFINE m == Merged(s0)
           L == T!Subtree(m, src)
           N == Cardinality(L)
           f == Moves(s0, src, dst)
           Bad == {n \in Nat : n <= N /\ ~Counted(s0, src, dst, f[n], n, N)}
           c == f[N]
<1>1. IsFiniteSet(L) /\ N \in Nat
  <2>1. L \in SUBSET DOMAIN m
    BY DEF T!Subtree
  <2>2. IsFiniteSet(DOMAIN m)
    BY ViewFinite
  <2>3. IsFiniteSet(L)
    BY <2>1, <2>2, FS_Subset
  <2> QED BY <2>3, FS_CardinalityType
<1>2. Counted(s0, src, dst, f[0], 0, N)
  <2>1. f[0] = [ok |-> TRUE, s |-> s0, moves |-> <<[src |-> src, dst |-> dst]>>]
    BY MovesStep
  <2> HIDE DEF f
  <2>2. Going(s0, src, dst, f[0]) /\ Left(m, Srcs(f[0].moves)) = L
    BY <2>1, MoveStarts
  <2>3. f[0].ok = TRUE
    BY <2>1
  <2> HIDE DEF L
  <2>4. N + 0 <= N
    BY <1>1
  <2> QED BY <1>1, <2>2, <2>3, <2>4 DEF Counted
<1>3. \A n \in Nat : f[n + 1] = MoveNext(f[n])
  <2>1. /\ Moves(s0, src, dst)[0] = [ok |-> TRUE, s |-> s0, moves |-> <<[src |-> src, dst |-> dst]>>]
        /\ \A n \in Nat : Moves(s0, src, dst)[n + 1] = MoveNext(Moves(s0, src, dst)[n])
    BY MovesStep
  <2> QED BY <2>1
<1> HIDE DEF f, L
<1>4. ASSUME Bad # {} PROVE FALSE
  <2>1. Bad \subseteq Nat
    OBVIOUS
  <2>2. PICK n \in Bad : \A k \in Bad : n <= k
    BY <1>4, <2>1, LeastNatural
  <2>3. n \in Nat /\ n <= N /\ ~Counted(s0, src, dst, f[n], n, N)
    BY <2>2
  <2>4. n # 0
    BY <1>2, <2>3
  <2>5. PICK k \in Nat : n = k + 1
    BY <2>3, <2>4
  <2>6. k \in Nat /\ k <= N /\ k + 1 <= N /\ ~(n <= k)
    BY <1>1, <2>3, <2>5
  <2>7. Counted(s0, src, dst, f[k], k, N)
    BY <2>2, <2>6
  <2> HIDE DEF Bad
  <2>8. Counted(s0, src, dst, MoveNext(f[k]), k + 1, N)
    BY <1>1, <2>6, <2>7, CountedNext
  <2>9. f[k + 1] = MoveNext(f[k])
    BY <1>3
  <2> QED BY <2>3, <2>5, <2>8, <2>9
<1>5. Counted(s0, src, dst, c, N, N)
  BY <1>1, <1>4
<1>6. Going(s0, src, dst, c) /\ (Clear(s0, src) => c.ok)
  BY <1>5 DEF Counted
<1>7. ASSUME c.ok PROVE Srcs(c.moves) = {}
  <2> DEFINE A == Srcs(c.moves)
             Z == Left(m, A)
  <2>1. IsFiniteSet(Z) /\ Cardinality(Z) + N <= N
    BY <1>5, <1>7 DEF Counted
  <2> HIDE DEF Z
  <2>2. Cardinality(Z) = 0
    BY <1>1, <2>1, FS_CardinalityType
  <2>3. Z = {}
    BY <2>1, <2>2, FS_EmptySet
  <2>4. ASSUME NEW e \in A PROVE FALSE
    <3>1. Waits(A, e)
      BY DEF Waits, Under
    <3>2. Stack(c.s, src, dst, c.moves) /\ Tracks(m, Merged(c.s), src, dst, A)
      BY <1>6, <1>7 DEF Going
    <3>3. e \in DOMAIN Merged(c.s)
      BY <3>2 DEF Srcs, Stack, Pending
    <3>4. e \in DOMAIN m
      BY <3>1, <3>2, <3>3 DEF Tracks
    <3> QED BY <2>3, <3>1, <3>4 DEF Z, Left
  <2> QED BY <2>4
<1> QED BY <1>6, <1>7 DEF f, L

-----------------------------------------------------------------------------
\* The view as a tree: it is closed, and numbered by its own paths.
LEMMA ViewTree ==
  ASSUME NEW s, WellFormed(s)
  PROVE  LET t == Merged(s) IN
         /\ t \in [DOMAIN t -> T!Node] /\ DOMAIN t \subseteq Path /\ Plain(t) /\ Numbered(t)
         /\ \A q \in DOMAIN t : DirsTo(t, q)
<1> DEFINE t == Merged(s)
<1>1. StateOK(s) /\ TreeOK(t) /\ DOMAIN t \subseteq Path
  BY MergedTree DEF WellFormed
<1>2. t = [x \in DOMAIN t |-> t[x]]
  BY DEF Merged
<1>3. ASSUME NEW q \in DOMAIN t PROVE DirsTo(t, q)
  BY <1>1, MergedAt, MergedAgrees DEF Agree
<1>4. ASSUME NEW q \in DOMAIN t
      PROVE  \/ q \in DOMAIN s.upper /\ t[q] = s.upper[q]
             \/ q \notin DOMAIN s.upper /\ q \in DOMAIN Lower /\ t[q] = Lower[q]
  BY MergedAt, VisibleAt
<1> HIDE DEF t
<1>5. ASSUME NEW q \in DOMAIN t, t[q].kind = "dir" PROVE t[q] = T!Dir(t[q].attr)
  <2>1. CASE q \in DOMAIN s.upper /\ t[q] = s.upper[q]
    BY <1>5, <2>1 DEF WellFormed, Plain
  <2>2. CASE q \in DOMAIN Lower /\ t[q] = Lower[q]
    BY <1>5, <2>2, LowerNode
  <2> QED BY <1>4, <2>1, <2>2
<1>6. ASSUME NEW q \in DOMAIN t, t[q].kind # "dir" PROVE t[q].ino = Chosen(T!Links(t, q))
  <2>1. CASE q \in DOMAIN s.upper /\ t[q] = s.upper[q]
    <3>1. T!Links(t, q) = T!Links(s.upper, q)
      BY <1>6, <2>1, LinksInView DEF t
    <3> QED BY <1>6, <2>1, <3>1 DEF WellFormed, Numbered
  <2>2. CASE q \notin DOMAIN s.upper /\ q \in DOMAIN Lower /\ t[q] = Lower[q]
    <3>1. T!Links(t, q) = {q}
      BY <1>6, <2>2, LinksInView DEF t
    <3>2. t[q].ino = q
      BY <1>6, <2>2, LowerNode
    <3> QED BY <3>1, <3>2, ChosenIn
  <2> QED BY <1>4, <2>1, <2>2
<1>7. t \in [DOMAIN t -> T!Node]
  BY <1>1, <1>2 DEF TreeOK
<1>8. Plain(t)
  BY <1>5, Zenon DEF Plain
<1>9. Numbered(t)
  BY <1>6 DEF Numbered
<1> QED BY <1>1, <1>3, <1>7, <1>8, <1>9 DEF t

\* Two trees that differ in the numbers of their inodes only.
Alike(t, u) ==
  /\ t \in [DOMAIN t -> T!Node] /\ u \in [DOMAIN t -> T!Node] /\ DOMAIN t \subseteq Path
  /\ Plain(t) /\ Plain(u) /\ \A x \in DOMAIN t : SameNode(t[x], u[x])
  /\ \A x, y \in DOMAIN t :
       t[x].kind # "dir" /\ t[y].kind # "dir" => (t[x].ino = t[y].ino <=> u[x].ino = u[y].ino)

\* Such trees are renumbered to the same tree.
LEMMA AlikeCanonical ==
  ASSUME NEW t, NEW u, Alike(t, u)
  PROVE  T!Canonical(t) = T!Canonical(u)
<1> DEFINE D == DOMAIN t
           ct == T!Canonical(t)
           cu == T!Canonical(u)
<1>1. /\ t \in [D -> T!Node] /\ u \in [D -> T!Node] /\ D \subseteq Path /\ DOMAIN u = D
      /\ \A x \in D : SameNode(t[x], u[x])
  BY DEF Alike
<1>2. ASSUME NEW x \in D, t[x].kind # "dir" PROVE T!Links(t, x) = T!Links(u, x)
  BY <1>1, <1>2 DEF Alike, T!Links, SameNode
<1>3. ASSUME NEW x \in D, t[x].kind = "dir" PROVE t[x] = u[x]
  BY <1>1, <1>3 DEF Alike, Plain, SameNode
<1>4. /\ ct \in [D -> T!Node]
      /\ \A x \in D : /\ ct[x].kind = t[x].kind /\ ct[x].attr = t[x].attr /\ ct[x].target = t[x].target
                      /\ t[x].kind = "dir" => ct[x] = t[x]
                      /\ t[x].kind # "dir" => ct[x].ino = Chosen(T!Links(t, x))
  BY <1>1, CanonicalShape
<1>5. /\ cu \in [D -> T!Node]
      /\ \A x \in D : /\ cu[x].kind = u[x].kind /\ cu[x].attr = u[x].attr /\ cu[x].target = u[x].target
                      /\ u[x].kind = "dir" => cu[x] = u[x]
                      /\ u[x].kind # "dir" => cu[x].ino = Chosen(T!Links(u, x))
  BY <1>1, CanonicalShape
<1> HIDE DEF ct, cu
<1>6. ASSUME NEW x \in D PROVE ct[x] = cu[x]
  <2>1. CASE t[x].kind = "dir"
    BY <1>1, <1>3, <1>4, <1>5, <2>1 DEF SameNode
  <2>2. CASE t[x].kind # "dir"
    <3>1. u[x].kind # "dir" /\ ct[x].ino = cu[x].ino
      BY <1>1, <1>2, <1>4, <1>5, <2>2 DEF SameNode
    <3>2. ct[x].kind = cu[x].kind /\ ct[x].attr = cu[x].attr /\ ct[x].target = cu[x].target
      BY <1>1, <1>4, <1>5 DEF SameNode
    <3>3. ct[x] \in T!Node /\ cu[x] \in T!Node
      BY <1>4, <1>5
    <3> QED BY <3>1, <3>2, <3>3, NodeEqual
  <2> QED BY <2>1, <2>2
<1>7. ct = cu
  BY <1>4, <1>5, <1>6
<1> QED BY <1>7 DEF ct, cu

\* The tree m after src became dst, before its inodes are renumbered.
MovedTree(m, src, dst) ==
  LET kept  == DOMAIN m \ T!Subtree(m, src)
      moved == {T!Moved(q, src, dst) : q \in T!Subtree(m, src)}
  IN [q \in kept \cup moved |-> IF q \in kept THEN m[q] ELSE m[T!Moved(q, dst, src)]]

\* When nothing is left to move, the view without its source is the tree moved.
LEMMA MovedAlike ==
  ASSUME NEW s0, WellFormed(s0), NEW z, WellFormed(z), NEW src, NEW dst, Context(Merged(s0), src, dst),
         dst \notin DOMAIN Merged(s0), Tracks(Merged(s0), Merged(z), src, dst, {})
  PROVE  Alike(MovedTree(Merged(s0), src, dst), Without(Merged(z), src))
<1> DEFINE m == Merged(s0)
           t == Merged(z)
           R == MovedTree(m, src, dst)
           W == Without(t, src)
           at(q) == At(q, src, dst, {})
           S == T!Subtree(m, src)
<1>1. /\ src \in Path /\ src # <<>> /\ dst \in Path /\ dst # <<>> /\ Apart(src, dst)
      /\ DOMAIN m \subseteq Path /\ \A q \in DOMAIN m : DirsTo(m, q)
  BY DEF Context
<1>2. m \in [DOMAIN m -> T!Node] /\ Plain(m)
  BY ViewTree
<1>3. t \in [DOMAIN t -> T!Node] /\ Plain(t) /\ DOMAIN t \subseteq Path
  BY ViewTree
<1>4. \A q : at(q) = IF Under(src, q) THEN T!Moved(q, src, dst) ELSE q
  BY DEF At, Waits
<1>5. /\ \A q \in DOMAIN m : at(q) \in DOMAIN t /\ SameNode(m[q], t[at(q)])
      /\ LinksKept(m, t, src, dst, {})
      /\ \A x \in DOMAIN t : ~Under(src, x) => \E q \in DOMAIN m : x = at(q)
  BY DEF Tracks
<1>6. \A q, r \in DOMAIN m :
        m[q].kind # "dir" /\ m[r].kind # "dir" => (m[q].ino = m[r].ino <=> t[at(q)].ino = t[at(r)].ino)
  BY <1>5 DEF LinksKept
<1>7. \A q : q \in S <=> q \in DOMAIN m /\ Under(src, q)
  BY <1>1, SubtreeUnder
<1> HIDE DEF m, t, S, at
<1>8. ASSUME NEW q \in DOMAIN m PROVE at(q) \in Path /\ ~Under(src, at(q))
  <2>1. CASE Under(src, q)
    <3>1. at(q) \in Path /\ Under(dst, at(q))
      BY <1>1, <1>4, <2>1, MovedPath
    <3> QED BY <1>1, <3>1, UnderLine DEF Apart
  <2>2. CASE ~Under(src, q)
    BY <1>1, <1>4, <2>2
  <2> QED BY <2>1, <2>2
<1>9. /\ DOMAIN R = (DOMAIN m \ S) \cup {T!Moved(q, src, dst) : q \in S}
      /\ \A x \in DOMAIN R : R[x] = IF x \in DOMAIN m \ S THEN m[x] ELSE m[T!Moved(x, dst, src)]
  BY DEF MovedTree, S
<1>10. R = [x \in DOMAIN R |-> R[x]]
  BY DEF MovedTree
<1>11. DOMAIN W = {x \in DOMAIN t : ~Under(src, x)} /\ W = [x \in DOMAIN W |-> W[x]]
       /\ \A x \in DOMAIN W : W[x] = t[x]
  BY DEF Without
<1> HIDE DEF R, W
<1>12. ASSUME NEW q \in DOMAIN m PROVE at(q) \in DOMAIN R /\ R[at(q)] = m[q]
  <2>1. CASE ~Under(src, q)
    BY <1>4, <1>7, <1>9, <2>1
  <2>2. CASE Under(src, q)
    <3>1. at(q) = T!Moved(q, src, dst) /\ q \in S
      BY <1>4, <1>7, <2>2
    <3>2. at(q) \in DOMAIN R
      BY <1>9, <3>1
    <3>3. at(q) \in Path /\ Under(dst, at(q)) /\ T!Moved(at(q), dst, src) = q
      BY <1>1, <2>2, <3>1, MovedPath
    <3>4. at(q) \notin DOMAIN m
      BY <1>1, <3>3 DEF Under, DirsTo, T!IsDir, m
    <3> QED BY <1>9, <3>2, <3>3, <3>4
  <2> QED BY <2>1, <2>2
<1>13. ASSUME NEW x \in DOMAIN R PROVE \E q \in DOMAIN m : x = at(q)
  <2>1. CASE x \in DOMAIN m \ S
    BY <1>4, <1>7, <2>1
  <2>2. CASE x \in {T!Moved(q, src, dst) : q \in S}
    BY <1>4, <1>7, <2>2
  <2> QED BY <1>9, <2>1, <2>2
<1>14. DOMAIN R = DOMAIN W
  <2>1. ASSUME NEW x \in DOMAIN R PROVE x \in DOMAIN W
    BY <1>5, <1>8, <1>11, <1>13
  <2>2. ASSUME NEW x \in DOMAIN W PROVE x \in DOMAIN R
    BY <1>5, <1>11, <1>12
  <2> QED BY <2>1, <2>2
<1>15. \A x \in DOMAIN R : R[x] \in T!Node /\ W[x] \in T!Node /\ x \in Path
  BY <1>2, <1>3, <1>8, <1>11, <1>12, <1>13, <1>14
<1>16. R \in [DOMAIN R -> T!Node] /\ W \in [DOMAIN R -> T!Node] /\ DOMAIN R \subseteq Path
  BY <1>10, <1>11, <1>14, <1>15
<1>17. Plain(R)
  <2>1. ASSUME NEW x \in DOMAIN R, R[x].kind = "dir" PROVE R[x] = T!Dir(R[x].attr)
    BY <1>2, <1>12, <1>13, <2>1 DEF Plain
  <2> QED BY <2>1, Zenon DEF Plain
<1>18. Plain(W)
  BY <1>3, <1>11 DEF Plain
<1>19. \A x \in DOMAIN R : SameNode(R[x], W[x])
  BY <1>5, <1>11, <1>12, <1>13, <1>14
<1>20. ASSUME NEW x \in DOMAIN R, NEW y \in DOMAIN R, R[x].kind # "dir", R[y].kind # "dir"
       PROVE  R[x].ino = R[y].ino <=> W[x].ino = W[y].ino
  <2>1. PICK q \in DOMAIN m : x = at(q)
    BY <1>13
  <2>2. PICK r \in DOMAIN m : y = at(r)
    BY <1>13
  <2>3. R[x] = m[q] /\ R[y] = m[r]
    BY <1>12, <2>1, <2>2
  <2>4. W[x] = t[at(q)] /\ W[y] = t[at(r)]
    BY <1>11, <1>14, <2>1, <2>2
  <2> QED BY <1>6, <1>20, <2>3, <2>4
<1> QED BY <1>16, <1>17, <1>18, <1>19, <1>20 DEF Alike, R, W, m, t

\* Removing a path of a tree with everything below it.
LEMMA RemovesHere ==
  ASSUME NEW t, DOMAIN t \subseteq Path, NEW q \in DOMAIN t, q # <<>>, DirsTo(t, q)
  PROVE  T!RemoveIn(t, q, TRUE) = T!Outcome(TRUE, T!Canonical(Without(t, q)))
<1>1. q \in Path
  OBVIOUS
<1>2. T!Walk(t, q, FALSE, FALSE) = T!Answer("found", q)
  <2>1. PICK no \in BOOLEAN : no = FALSE
    OBVIOUS
  <2>2. q \in DOMAIN t /\ ~(t[q].kind = "link" /\ no)
    BY <2>1
  <2>3. T!Walk(t, q, no, no) = T!Answer("found", q)
    BY <1>1, <2>2, WalkHere
  <2> QED BY <2>1, <2>3
<1>3. PICK w : w = T!Walk(t, q, FALSE, FALSE)
  OBVIOUS
<1>6. w = T!Answer("found", q)
  BY <1>2, <1>3, Zenon
<1>4. w.err = "found" /\ w.path = q
  BY <1>6 DEF T!Answer
<1>5. T!RemoveIn(t, q, TRUE) = T!Outcome(TRUE, T!Canonical([x \in DOMAIN t \ T!Subtree(t, q) |-> t[x]]))
  BY <1>3, <1>4, Zenon DEF T!RemoveIn
<1> QED BY <1>1, <1>5, WithoutSubtree

\* moveMerged and the removal that follows it: the view becomes the tree in which
\* src was renamed to dst, unless something in the lower tree is in the way.
LEMMA MoveMergedInView ==
  ASSUME NEW s0, WellFormed(s0), NEW src, NEW dst, Context(Merged(s0), src, dst),
         src \in DOMAIN Merged(s0), dst \notin DOMAIN Visible(s0), DirsTo(s0.upper, dst)
  PROVE  /\ WellFormed(MoveMerged(s0, src, dst).s)
         /\ Clear(s0, src) =>
              Same(MoveMerged(s0, src, dst), T!Outcome(TRUE, T!Canonical(MovedTree(Merged(s0), src, dst))))
<1> DEFINE m == Merged(s0)
           c == Moves(s0, src, dst)[Cardinality(T!Subtree(m, src))]
           z == c.s
           t == Merged(z)
           w == resolveMerged(z, src, FALSE, FALSE)
           o == MoveMerged(s0, src, dst)
           r == RemoveIn(z, src, TRUE)
           U == T!Canonical(Without(t, src))
<1>1. /\ Going(s0, src, dst, c) /\ (Clear(s0, src) => c.ok)
      /\ c.ok => Srcs(c.moves) = {}
  BY MovesAll
<1>2. o = IF ~c.ok \/ w.err # "found" THEN [ok |-> c.ok, s |-> z] ELSE r
  BY Zenon DEF MoveMerged, AfterMoves
<1> HIDE DEF c
<1>3. src \in Path /\ src # <<>> /\ WellFormed(z) /\ z.tomb = s0.tomb /\ c.ok \in BOOLEAN
  BY <1>1 DEF Context, Going
<1>4. /\ t \in [DOMAIN t -> T!Node] /\ DOMAIN t \subseteq Path /\ Numbered(t)
      /\ \A q \in DOMAIN t : DirsTo(t, q)
  BY <1>3, ViewTree
<1>5. WellFormed(r.s)
  BY <1>3, RemoveInView
<1>6. [ok |-> c.ok, s |-> z].s = z /\ [ok |-> c.ok, s |-> z].ok = c.ok
  OBVIOUS
<1>7. WellFormed(o.s)
  <2>1. CASE ~c.ok \/ w.err # "found"
    BY <1>2, <1>3, <1>6, <2>1
  <2>2. CASE c.ok /\ w.err = "found"
    BY <1>2, <1>5, <2>2
  <2> QED BY <2>1, <2>2
<1>8. ASSUME Clear(s0, src) PROVE Same(o, T!Outcome(TRUE, T!Canonical(MovedTree(m, src, dst))))
  <2>1. c.ok /\ Tracks(m, t, src, dst, {})
    BY <1>1, <1>8 DEF Going
  <2>2. T!Canonical(MovedTree(m, src, dst)) = U
    <3>1. dst \notin DOMAIN m
      BY MergedAt
    <3> QED BY <1>3, <2>1, <3>1, MovedAlike, AlikeCanonical
  <2>3. o.ok = TRUE /\ Merged(o.s) = U
    <3>1. w = T!Walk(t, src, FALSE, FALSE)
      BY <1>3, Zenon, ResolvesTheView DEF WellFormed
    <3>2. CASE src \in DOMAIN t
      <4>1. DirsTo(t, src)
        BY <1>4, <3>2
      <4>2. T!RemoveIn(t, src, TRUE) = T!Outcome(TRUE, U)
        BY <1>3, <1>4, <3>2, <4>1, RemovesHere
      <4>3. w = T!Answer("found", src)
        <5>1. PICK no \in BOOLEAN : no = FALSE
          OBVIOUS
        <5>2. ~(t[src].kind = "link" /\ no)
          BY <5>1
        <5>3. T!Walk(t, src, no, no) = T!Answer("found", src)
          BY <1>3, <3>2, <4>1, <5>2, WalkHere
        <5> QED BY <3>1, <5>1, <5>3
      <4>4. w.err = "found" /\ T!Walk(t, src, FALSE, FALSE).path = src
        <5>1. PICK ww : ww = w
          OBVIOUS
        <5>2. ww = T!Answer("found", src)
          BY <4>3, <5>1
        <5>3. ww.err = "found" /\ ww.path = src
          BY <5>2 DEF T!Answer
        <5> QED BY <3>1, <5>1, <5>3, Zenon
      <4>5. ASSUME NEW x \in T!Subtree(t, src) PROVE ~Obstructed(z, x)
        <5>1. x \in DOMAIN t /\ Under(src, x)
          BY <1>3, <1>4, SubtreeUnder
        <5>2. ASSUME x \in DOMAIN z.upper PROVE ~Obstructed(z, x)
          <6>1. x \in DOMAIN s0.upper /\ z.upper[x].kind = s0.upper[x].kind
            BY <1>1, <5>1, <5>2 DEF Going
          <6>2. x \in DOMAIN m /\ DOMAIN m \subseteq Path
            BY <6>1, UpperInView DEF Context
          <6>3. ~Obstructed(s0, x)
            BY <1>3, <1>8, <5>1, <6>2, SubtreeUnder DEF Clear
          <6> QED BY <1>3, <6>1, <6>3 DEF Obstructed
        <5> QED BY <5>2 DEF Obstructed
      <4>6. Same(r, T!RemoveIn(t, src, TRUE))
        <5>1. PICK yes \in BOOLEAN : yes = TRUE
          OBVIOUS
        <5>2. Same(RemoveIn(z, src, yes), T!RemoveIn(t, src, yes))
          BY <1>3, <4>4, <4>5, RemoveInView
        <5> QED BY <5>1, <5>2
      <4>7. o = r
        BY <1>2, <2>1, <4>4
      <4>8. r.ok = T!RemoveIn(t, src, TRUE).ok /\ Merged(r.s) = T!RemoveIn(t, src, TRUE).t
        BY <4>6 DEF Same
      <4>9. T!RemoveIn(t, src, TRUE).ok = TRUE /\ T!RemoveIn(t, src, TRUE).t = U
        <5>1. PICK out : out = T!RemoveIn(t, src, TRUE)
          OBVIOUS
        <5>2. out = T!Outcome(TRUE, U)
          BY <4>2, <5>1, Zenon
        <5> HIDE DEF U
        <5>3. out.ok = TRUE /\ out.t = U
          BY <5>2 DEF T!Outcome
        <5> QED BY <5>1, <5>3, Zenon
      <4> QED BY <4>7, <4>8, <4>9, Zenon
    <3>3. CASE src \notin DOMAIN t
      <4>1. ASSUME NEW x \in DOMAIN t PROVE ~Under(src, x)
        BY <1>4, <3>3 DEF Under, DirsTo, T!IsDir
      <4>2. Without(t, src) = t
        BY <1>4, <4>1 DEF Without
      <4>3. U = t
        BY <1>4, <4>2, CanonicalSame
      <4>4. w.err # "found"
        <5>1. PICK no \in BOOLEAN : no = FALSE
          OBVIOUS
        <5>2. DirsTo(t, src)
          <6>1. ASSUME NEW q \in Ancestors(src) PROVE T!IsDir(t, q)
            <7>1. T!IsDir(m, q)
              BY DEF Context, DirsTo
            <7>2. q \in Path /\ ~Under(src, q)
              BY <1>3, AncestorOf DEF Under
            <7>3. At(q, src, dst, {}) = q
              BY <7>2 DEF At
            <7> QED BY <2>1, <7>1, <7>3 DEF Tracks, SameNode, T!IsDir
          <6> QED BY <6>1 DEF DirsTo
        <5>3. T!Walk(t, src, no, no) = T!Answer("notExist", <<>>)
          BY <1>3, <3>3, <5>1, <5>2, WalkHere
        <5>4. PICK ww : ww = w
          OBVIOUS
        <5>5. ww = T!Answer("notExist", <<>>)
          BY <3>1, <5>1, <5>3, <5>4, Zenon
        <5>6. ww.err # "found"
          BY <5>5 DEF T!Answer
        <5> QED BY <5>4, <5>6, Zenon
      <4>5. o.s = z /\ o.ok = c.ok
        BY <1>2, <1>6, <4>4
      <4> QED BY <2>1, <4>3, <4>5
    <3> QED BY <3>2, <3>3
  <2> QED BY <2>2, <2>3 DEF Same, T!Outcome
<1> QED BY <1>7, <1>8 DEF c

\* A rename of one tree, by what its two paths lead to.
RenamedTo(m, o, n) ==
  IF \/ o.err # "found" \/ o.path = <<>>
     \/ n.err # "absent" \/ SX!IsStrictPrefix(o.path, n.path)
  THEN T!Outcome(FALSE, m) ELSE T!Outcome(TRUE, T!Canonical(MovedTree(m, o.path, n.path)))

\* T!RenameIn is that.
LEMMA RenamesTree ==
  ASSUME NEW m, NEW old, NEW new
  PROVE  T!RenameIn(m, old, new) = RenamedTo(m, T!Walk(m, old, FALSE, FALSE), T!Walk(m, new, FALSE, TRUE))
<1>1. \A p, q : T!SX!IsStrictPrefix(p, q) <=> SX!IsStrictPrefix(p, q)
  BY Zenon DEF T!SX!IsStrictPrefix, SX!IsStrictPrefix, T!SX!IsPrefix, SX!IsPrefix
<1> QED BY <1>1, Zenon DEF T!RenameIn, MovedTree, RenamedTo

\* Rename: on every well-formed state it leaves a well-formed state, and where the
\* lower tree is not in the way it does to the view what it would do to one tree.
LEMMA RenameInView ==
  ASSUME NEW s, WellFormed(s), NEW old \in Path, NEW new \in Path
  PROVE  LET v == Merged(s)
             src == T!Walk(v, old, FALSE, FALSE).path
         IN /\ WellFormed(RenameIn(s, old, new).s)
            /\ (\A x \in T!Subtree(v, src) : ~Obstructed(s, x)) /\ src # T!Walk(v, new, FALSE, TRUE).path
                 => Same(RenameIn(s, old, new), T!RenameIn(v, old, new))
<1> DEFINE v == Merged(s)
           r == RenameIn(s, old, new)
           g == T!RenameIn(v, old, new)
<1>1. PICK o : o = T!Walk(v, old, FALSE, FALSE)
  OBVIOUS
<1>2. PICK n : n = T!Walk(v, new, FALSE, TRUE)
  OBVIOUS
<1> DEFINE src == o.path
           dst == n.path
           a == CopyUpAncestors(s, dst)
           mm == MoveMerged(a, src, dst)
<1>3. PICK no \in BOOLEAN : no = FALSE
  OBVIOUS
<1>4. PICK yes \in BOOLEAN : yes = TRUE
  OBVIOUS
<1>5. resolveMerged(s, old, FALSE, FALSE) = o /\ Resolved(s, o, no, no)
  <2>1. o = T!Walk(v, old, no, no)
    BY <1>1, <1>3, Zenon
  <2>2. resolveMerged(s, old, no, no) = o /\ Resolved(s, o, no, no)
    BY <2>1, Resolves
  <2> QED BY <1>3, <2>2, Zenon
<1>6. resolveMerged(s, new, FALSE, TRUE) = n /\ Resolved(s, n, no, yes)
  <2>1. n = T!Walk(v, new, no, yes)
    BY <1>2, <1>3, <1>4, Zenon
  <2>2. resolveMerged(s, new, no, yes) = n /\ Resolved(s, n, no, yes)
    BY <2>1, Resolves
  <2> QED BY <1>3, <1>4, <2>2, Zenon
<1>7. r = IF o.err # "found" \/ n.err \notin {"found", "absent"} \/ <<>> \in {src, dst} THEN Fail(s)
          ELSE IF src = dst THEN Done(s)
          ELSE IF n.err = "found" \/ SX!IsStrictPrefix(src, dst) THEN Fail(s)
          ELSE mm
  BY <1>5, <1>6, Zenon DEF RenameIn
<1>8. DOMAIN v \subseteq Path /\ \A q \in DOMAIN v : DirsTo(v, q)
  BY ViewTree
<1>9. g = IF \/ o.err # "found" \/ src = <<>>
             \/ n.err # "absent" \/ SX!IsStrictPrefix(src, dst)
          THEN T!Outcome(FALSE, v) ELSE T!Outcome(TRUE, T!Canonical(MovedTree(v, src, dst)))
  <2>1. g = RenamedTo(v, o, n)
    BY <1>1, <1>2, RenamesTree, Zenon
  <2> QED BY <2>1 DEF RenamedTo
<1>10. n.err = "absent" => dst # <<>>
  BY <1>6 DEF Resolved
<1> HIDE DEF r, g, mm
<1>11. CASE o.err = "found" /\ n.err = "absent" /\ src # <<>> /\ src # dst /\ ~SX!IsStrictPrefix(src, dst)
  <2>1. /\ src \in Path /\ src \in DOMAIN v
        /\ dst \in Path /\ dst # <<>> /\ DirsTo(Visible(s), dst) /\ dst \notin DOMAIN Visible(s) /\ dst \notin DOMAIN v
    BY <1>5, <1>6, <1>11 DEF Resolved
  <2>2. /\ WellFormed(a) /\ Visible(a) = Visible(s) /\ Merged(a) = v
        /\ DirsTo(a.upper, dst) /\ a.tomb = s.tomb /\ DOMAIN a.upper = DOMAIN s.upper \cup Ancestors(dst)
        /\ \A q \in DOMAIN s.upper : a.upper[q] = s.upper[q]
    BY <2>1, CopyUpAncestorsKeepsTheView
  <2> HIDE DEF a
  <2>3. ~Under(src, dst)
    <3>1. ~SX!IsPrefix(src, dst)
      BY <1>11 DEF SX!IsStrictPrefix
    <3> QED BY <1>11, <2>1, <3>1, UnderPrefix
  <2>4. ~Under(dst, src)
    BY <1>8, <1>11, <2>1 DEF Under, DirsTo, T!IsDir
  <2>5. Context(Merged(a), src, dst)
    BY <1>8, <1>11, <2>1, <2>2, <2>3, <2>4 DEF Context, Apart
  <2>6. /\ WellFormed(mm.s)
        /\ Clear(a, src) => Same(mm, T!Outcome(TRUE, T!Canonical(MovedTree(v, src, dst))))
    BY <2>1, <2>2, <2>5, MoveMergedInView DEF mm
  <2>7. r = mm
    BY <1>7, <1>10, <1>11
  <2>8. g = T!Outcome(TRUE, T!Canonical(MovedTree(v, src, dst)))
    BY <1>9, <1>11
  <2>9. ASSUME \A x \in T!Subtree(v, src) : ~Obstructed(s, x) PROVE Clear(a, src)
    <3> SUFFICES ASSUME NEW x \in T!Subtree(v, src) PROVE ~Obstructed(a, x)
      BY <2>2 DEF Clear
    <3>1. Under(src, x) /\ x \in Path
      BY <1>8, <1>11, <2>1, SubtreeUnder
    <3>2. x \notin Ancestors(dst)
      BY <2>1, <2>3, <3>1, UnderAncestor
    <3>3. ~Obstructed(s, x)
      BY <2>9
    <3> QED BY <2>2, <3>2, <3>3 DEF Obstructed
  <2>10. WellFormed(r.s) /\ ((\A x \in T!Subtree(v, src) : ~Obstructed(s, x)) => Same(r, g))
    BY <2>6, <2>7, <2>8, <2>9
  <2> QED BY <1>1, <2>10 DEF r, g
<1>12. CASE ~(o.err = "found" /\ n.err = "absent" /\ src # <<>> /\ ~SX!IsStrictPrefix(src, dst))
  <2>1. g = T!Outcome(FALSE, v)
    BY <1>9, <1>12
  <2>2. r = Fail(s) \/ (r = Done(s) /\ src = dst)
    BY <1>7, <1>12
  <2>3. Keeps(Fail(s), T!Outcome(FALSE, v))
    BY KeepsFailure
  <2>4. WellFormed(Done(s).s)
    BY DEF Done
  <2>5. WellFormed(r.s) /\ (src # dst => Same(r, g))
    BY <2>1, <2>2, <2>3, <2>4 DEF Keeps
  <2> QED BY <1>1, <1>2, <2>5 DEF r, g
<1>13. CASE src = dst /\ o.err = "found" /\ n.err = "absent"
  <2>1. FALSE
    BY <1>5, <1>6, <1>13 DEF Resolved
  <2> QED BY <2>1
<1> QED BY <1>11, <1>12, <1>13

-----------------------------------------------------------------------------
\* The empty upper tree over any lower tree is well formed.
LEMMA InitWellFormed == Init => WellFormed(Now)
<1> SUFFICES ASSUME Init PROVE WellFormed(Now)
  OBVIOUS
<1> DEFINE u == [p \in {<<>>} |-> T!Dir("new")]
<1>1. Now = Layers(u, {})
  BY DEF Init, Now
<1>2. Now.upper = u /\ Now.tomb = {} /\ Now = Layers(Now.upper, Now.tomb)
  BY <1>1, LayersAre
<1>3. DOMAIN u = {<<>>} /\ u[<<>>] = T!Dir("new") /\ u \in [DOMAIN u -> T!Node]
  BY NewDir
<1> HIDE DEF u
<1>4. StateOK(Now)
  <2>1. IsFiniteSet({<<>>})
    BY FS_Singleton
  <2>2. <<>> \in Path
    BY DEF Path
  <2> QED BY <1>2, <1>3, <2>1, <2>2 DEF StateOK
<1>5. Rooted(Now)
  BY <1>2, <1>3, NewDir DEF Rooted, T!IsDir
<1>6. Closed(Now)
  BY <1>2, <1>3, AncestorsOfRoot DEF Closed, DirsTo
<1>7. Shadows(Now)
  BY <1>2, <1>3, LowerAssumption DEF Shadows, T!IsDir
<1>8. Plain(Now.upper)
  BY <1>2, <1>3, NewDir DEF Plain
<1>9. Numbered(Now.upper)
  BY <1>2, <1>3, NewDir DEF Numbered
<1> QED BY <1>4, <1>5, <1>6, <1>7, <1>8, <1>9 DEF WellFormed

\* The next state is the one an operation computed.
LEMMA BecomesWellFormed ==
  ASSUME NEW o, WellFormed(o.s), Become(o)
  PROVE  WellFormed(Layers(upper', tomb'))
<1>1. o.s = Layers(o.s.upper, o.s.tomb)
  BY DEF WellFormed, StateOK
<1>2. upper' = o.s.upper /\ tomb' = o.s.tomb
  BY DEF Become
<1> QED BY <1>1, <1>2

\* The paths of an instance are paths.
LEMMA PathIn == \A p \in Paths : p \in Path
BY PathsAssumption DEF Path

\* Every operation keeps the layers in order, whether it succeeds or fails half way.
LEMMA NextWellFormed ==
  ASSUME WellFormed(Now), [Next]_vars
  PROVE  WellFormed(Layers(upper', tomb'))
<1>1. CASE UNCHANGED vars
  BY <1>1 DEF vars, Now
<1>2. ASSUME NEW p \in Paths, MkdirAll(p) PROVE WellFormed(Layers(upper', tomb'))
  BY <1>2, PathIn, MkdirAllInView, BecomesWellFormed DEF MkdirAll, Keeps
<1>3. ASSUME NEW p \in Paths, Mkfifo(p) PROVE WellFormed(Layers(upper', tomb'))
  BY <1>3, PathIn, MkfifoInView, BecomesWellFormed DEF Mkfifo, Keeps
<1>4. ASSUME NEW p \in Paths, NEW create \in BOOLEAN, NEW excl \in BOOLEAN, NEW trunc \in BOOLEAN,
             OpenFile(p, create, excl, trunc)
      PROVE  WellFormed(Layers(upper', tomb'))
  BY <1>4, PathIn, OpenInView, BecomesWellFormed DEF OpenFile, Keeps
<1>5. ASSUME NEW p \in Paths, NEW target \in Targets, Symlink(target, p)
      PROVE  WellFormed(Layers(upper', tomb'))
  <2>1. target \in Path /\ p \in Path
    BY PathIn, PathsAssumption
  <2> QED BY <1>5, <2>1, SymlinkInView, BecomesWellFormed DEF Symlink, Keeps
<1>6. ASSUME NEW old \in Paths, NEW new \in Paths, Link(old, new) PROVE WellFormed(Layers(upper', tomb'))
  BY <1>6, PathIn, LinkInView, BecomesWellFormed DEF Link, Keeps
<1>7. ASSUME NEW old \in Paths, NEW new \in Paths, Rename(old, new) PROVE WellFormed(Layers(upper', tomb'))
  BY <1>7, PathIn, RenameInView, BecomesWellFormed DEF Rename
<1>8. ASSUME NEW p \in Paths, NEW follow \in BOOLEAN, Touch(p, follow) PROVE WellFormed(Layers(upper', tomb'))
  BY <1>8, PathIn, TouchInView, BecomesWellFormed DEF Touch, Keeps
<1>9. ASSUME NEW p \in Paths, NEW recursive \in BOOLEAN, Remove(p, recursive)
      PROVE  WellFormed(Layers(upper', tomb'))
  BY <1>9, PathIn, RemoveInView, BecomesWellFormed DEF Remove
<1> QED BY <1>1, <1>2, <1>3, <1>4, <1>5, <1>6, <1>7, <1>8, <1>9 DEF Next

\* The layers of overlay.go stay in order whatever is done: the upper tree is closed
\* under directories and rooted, the root has no tombstone, an upper directory never
\* covers a visible lower file, and inodes are shared by upper paths only.  Also a
\* Rename or Remove that fails half way leaves such a state.
THEOREM OverlayWellFormed == Spec => []WellFormed(Now)
<1>1. WellFormed(Now) /\ [Next]_vars => WellFormed(Now)'
  <2> SUFFICES ASSUME WellFormed(Now), [Next]_vars PROVE WellFormed(Now)'
    OBVIOUS
  <2>1. WellFormed(Layers(upper', tomb'))
    BY NextWellFormed
  <2> QED BY <2>1 DEF Now
<1> QED BY <1>1, InitWellFormed, PTL DEF Spec

\* Obstructed is LowerInTheWay of any state.
LEMMA NowObstructed == \A q : Obstructed(Now, q) <=> LowerInTheWay(q)
<1>1. Now.upper = upper /\ Now.tomb = tomb
  BY LayersAre DEF Now
<1> QED BY <1>1 DEF Obstructed, LowerInTheWay

\* Listings in a well-formed state.
LEMMA WellFormedLists == WellFormed(Now) => ListsTheView
<1> SUFFICES ASSUME WellFormed(Now), NEW p \in Paths, NEW w, w = T!Walk(View, p, TRUE, FALSE),
                    w.err = "found", ~LowerInTheWay(w.path)
             PROVE  ReadDir(Now, p) = T!ReadDirIn(View, p)
  BY DEF ListsTheView
<1>1. p \in Path
  BY PathIn
<1>2. ~Obstructed(Now, w.path)
  BY NowObstructed
<1>3. LET x == T!Walk(Merged(Now), p, TRUE, FALSE) IN x.err = "found" /\ ~Obstructed(Now, x.path)
  BY <1>2 DEF View
<1> QED BY <1>1, <1>3, ReadDirView DEF View

\* Operations in a well-formed state.
LEMMA WellFormedActs == WellFormed(Now) => ActsAsOneTree
<1> SUFFICES ASSUME WellFormed(Now) PROVE ActsAsOneTree
  OBVIOUS
<1> DEFINE v == View
           elsewhere(old, new) == T!Walk(v, old, FALSE, FALSE).path # T!Walk(v, new, FALSE, TRUE).path
<1>1. v = Merged(Now)
  BY DEF View
<1>2. ASSUME NEW p \in Paths PROVE Same(MkdirAllIn(Now, p), T!MkdirAllIn(v, p))
  BY <1>1, PathIn, MkdirAllInView DEF Keeps
<1>3. ASSUME NEW p \in Paths PROVE Same(MkfifoIn(Now, p), T!MkfifoIn(v, p))
  BY <1>1, PathIn, MkfifoInView DEF Keeps
<1>4. ASSUME NEW p \in Paths, NEW target \in Targets
      PROVE  Same(SymlinkIn(Now, target, p), T!SymlinkIn(v, target, p))
  <2>1. target \in Path /\ p \in Path
    BY PathIn, PathsAssumption
  <2> QED BY <1>1, <2>1, SymlinkInView DEF Keeps
<1>5. ASSUME NEW p \in Paths, NEW follow \in BOOLEAN
      PROVE  Same(TouchIn(Now, p, follow), T!TouchIn(v, p, follow))
  BY <1>1, PathIn, TouchInView DEF Keeps
<1>6. ASSUME NEW p \in Paths, NEW create \in BOOLEAN, NEW excl \in BOOLEAN, NEW trunc \in BOOLEAN
      PROVE  Same(OpenIn(Now, p, create, excl, trunc), T!OpenIn(v, p, create, excl, trunc))
  BY <1>1, PathIn, OpenInView DEF Keeps
<1>7. ASSUME NEW p \in Paths, NEW new \in Paths
      PROVE  Same(LinkIn(Now, p, new), T!LinkIn(v, p, new))
  BY <1>1, PathIn, LinkInView DEF Keeps
<1>8. ASSUME NEW p \in Paths, Unobstructed(p)
      PROVE  \A x \in T!Subtree(Merged(Now), T!Walk(Merged(Now), p, FALSE, FALSE).path) : ~Obstructed(Now, x)
  BY <1>8, NowObstructed DEF Unobstructed, View
<1>9. ASSUME NEW p \in Paths, Unobstructed(p), NEW recursive \in BOOLEAN
      PROVE  Same(RemoveIn(Now, p, recursive), T!RemoveIn(v, p, recursive))
  BY <1>1, <1>8, <1>9, PathIn, RemoveInView
<1>10. ASSUME NEW p \in Paths, Unobstructed(p), NEW new \in Paths, elsewhere(p, new)
       PROVE  Same(RenameIn(Now, p, new), T!RenameIn(v, p, new))
  BY <1>1, <1>8, <1>10, PathIn, RenameInView
<1> QED BY <1>2, <1>3, <1>4, <1>5, <1>6, <1>7, <1>9, <1>10 DEF ActsAsOneTree

\* ReadDir of overlay.go lists the merged directory for every lower tree, every set of
\* paths and every symlink depth, except where the lower tree is in the way.
THEOREM OverlayLists == Spec => []ListsTheView
BY OverlayWellFormed, WellFormedLists, PTL

\* Every operation of overlay.go, on every state it can reach and with every argument,
\* answers as the memory filesystem would on the merged view and changes the view as
\* that would change it: copy-ups are invisible, removed entries stay removed, and a
\* rename moves the whole merged subtree, links and all.
THEOREM OverlayActsAsOneTree == Spec => []ActsAsOneTree
BY OverlayWellFormed, WellFormedActs, PTL

-----------------------------------------------------------------------------
\* The overlay as an implementation of one tree.  A step is a step of FileTree on
\* the view or leaves the view alone, as long as no lower path is in the way.
OneTreeStep == (\A q : ~LowerInTheWay(q)) => [T!Next]_View

\* The operations of one tree change nothing when they fail.
LEMMA TreeOutcomes ==
  ASSUME NEW t
  PROVE  /\ \A p, kind, target : Whole(T!CreateIn(t, p, kind, target), t)
         /\ \A p, create, excl, trunc : Whole(T!OpenIn(t, p, create, excl, trunc), t)
         /\ \A old, new : Whole(T!LinkIn(t, old, new), t) /\ Whole(T!RenameIn(t, old, new), t)
         /\ \A p, follow : Whole(T!TouchIn(t, p, follow), t)
         /\ \A p, recursive : Whole(T!RemoveIn(t, p, recursive), t)
<1>1. \A u : T!Outcome(FALSE, t).t = t /\ T!Outcome(TRUE, u).ok
  BY DEF T!Outcome
<1>2. \A c : (c = T!Outcome(FALSE, t) \/ \E u : c = T!Outcome(TRUE, u)) => Whole(c, t)
  BY <1>1, Zenon DEF Whole
<1>3. \A p, kind, target : Whole(T!CreateIn(t, p, kind, target), t)
  BY <1>2, Zenon DEF T!CreateIn
<1>4. ASSUME NEW p, NEW create, NEW excl, NEW trunc PROVE Whole(T!OpenIn(t, p, create, excl, trunc), t)
  BY <1>2, Zenon DEF T!OpenIn
<1>5. ASSUME NEW old, NEW new PROVE Whole(T!LinkIn(t, old, new), t)
  BY <1>2, Zenon DEF T!LinkIn
<1>6. ASSUME NEW old, NEW new PROVE Whole(T!RenameIn(t, old, new), t)
  BY <1>2, RenamesTree, Zenon DEF RenamedTo
<1>7. ASSUME NEW p, NEW follow PROVE Whole(T!TouchIn(t, p, follow), t)
  BY <1>2, Zenon DEF T!TouchIn
<1>8. ASSUME NEW p, NEW recursive PROVE Whole(T!RemoveIn(t, p, recursive), t)
  BY <1>2, Zenon DEF T!RemoveIn
<1> QED BY <1>3, <1>4, <1>5, <1>6, <1>7, <1>8

\* A step whose outcome is that of one tree.
LEMMA BecomesTree ==
  ASSUME WellFormed(Now), NEW o, NEW c, WellFormed(o.s), Become(o), Same(o, c), Whole(c, View)
  PROVE  T!Become(c) \/ View' = View
<1>1. o.s = Layers(o.s.upper, o.s.tomb) /\ upper' = o.s.upper /\ tomb' = o.s.tomb /\ DOMAIN o.s.upper \subseteq Paths
  BY DEF WellFormed, StateOK, Become
<1>2. Now' = o.s
  BY <1>1 DEF Now
<1>3. View' = c.t
  BY <1>2 DEF View, Same
<1>4. DOMAIN c.t \subseteq Paths
  BY <1>1, MergedAt, VisibleAt, PathsAssumption DEF Same
<1> QED BY <1>3, <1>4 DEF Whole, T!Become

\* Rename of a path to itself is no step.
LEMMA RenamesNowhere ==
  ASSUME NEW s, WellFormed(s), NEW old \in Path, NEW new \in Path,
         T!Walk(Merged(s), old, FALSE, FALSE).path = T!Walk(Merged(s), new, FALSE, TRUE).path
  PROVE  RenameIn(s, old, new).s = s
<1> DEFINE v == Merged(s)
           r == RenameIn(s, old, new)
<1>1. PICK o : o = T!Walk(v, old, FALSE, FALSE)
  OBVIOUS
<1>2. PICK n : n = T!Walk(v, new, FALSE, TRUE)
  OBVIOUS
<1>3. resolveMerged(s, old, FALSE, FALSE) = o /\ resolveMerged(s, new, FALSE, TRUE) = n
  <2>1. StateOK(s)
    BY DEF WellFormed
  <2> QED BY <1>1, <1>2, <2>1, ResolvesTheView, Zenon
<1>4. o.path = n.path
  BY <1>1, <1>2
<1>5. r = Fail(s) \/ r = Done(s)
  BY <1>3, <1>4, Zenon DEF RenameIn
<1> QED BY <1>5 DEF Fail, Done

\* Every step of the overlay is one of the tree on the view, or leaves the view alone.
LEMMA NextIsTreeStep ==
  ASSUME WellFormed(Now), [Next]_vars, \A q : ~LowerInTheWay(q)
  PROVE  T!Next \/ View' = View
<1>1. View = Merged(Now)
  BY DEF View
<1>2. CASE UNCHANGED vars
  BY <1>2 DEF vars, View, Now
<1>3. \A q : ~Obstructed(Now, q)
  BY NowObstructed
<1>4. ASSUME NEW p \in Paths, MkdirAll(p) PROVE T!MkdirAll(p) \/ View' = View
  <2>1. /\ WellFormed(MkdirAllIn(Now, p).s) /\ Same(MkdirAllIn(Now, p), T!MkdirAllIn(View, p))
        /\ Whole(T!MkdirAllIn(View, p), View)
    BY <1>1, PathIn, MkdirAllInView DEF Keeps
  <2> QED BY <1>4, <2>1, BecomesTree DEF MkdirAll, T!MkdirAll
<1>5. ASSUME NEW p \in Paths, Mkfifo(p) PROVE T!Mkfifo(p) \/ View' = View
  <2>1. WellFormed(MkfifoIn(Now, p).s) /\ Same(MkfifoIn(Now, p), T!MkfifoIn(View, p))
    BY <1>1, PathIn, MkfifoInView DEF Keeps
  <2>2. Whole(T!MkfifoIn(View, p), View)
    BY TreeOutcomes, Zenon DEF T!MkfifoIn
  <2> QED BY <1>5, <2>1, <2>2, BecomesTree DEF Mkfifo, T!Mkfifo
<1>6. ASSUME NEW p \in Paths, NEW create \in BOOLEAN, NEW excl \in BOOLEAN, NEW trunc \in BOOLEAN,
             OpenFile(p, create, excl, trunc)
      PROVE  T!OpenFile(p, create, excl, trunc) \/ View' = View
  <2>1. /\ WellFormed(OpenIn(Now, p, create, excl, trunc).s)
        /\ Same(OpenIn(Now, p, create, excl, trunc), T!OpenIn(View, p, create, excl, trunc))
    BY <1>1, PathIn, OpenInView DEF Keeps
  <2>2. Whole(T!OpenIn(View, p, create, excl, trunc), View)
    BY TreeOutcomes, Zenon
  <2> QED BY <1>6, <2>1, <2>2, BecomesTree DEF OpenFile, T!OpenFile
<1>7. ASSUME NEW p \in Paths, NEW target \in Targets, Symlink(target, p)
      PROVE  T!Symlink(target, p) \/ View' = View
  <2>1. target \in Path /\ p \in Path
    BY PathIn, PathsAssumption
  <2>2. WellFormed(SymlinkIn(Now, target, p).s) /\ Same(SymlinkIn(Now, target, p), T!SymlinkIn(View, target, p))
    BY <1>1, <2>1, SymlinkInView DEF Keeps
  <2>3. Whole(T!SymlinkIn(View, target, p), View)
    BY TreeOutcomes, Zenon DEF T!SymlinkIn
  <2> QED BY <1>7, <2>2, <2>3, BecomesTree DEF Symlink, T!Symlink
<1>8. ASSUME NEW old \in Paths, NEW new \in Paths, Link(old, new) PROVE T!Link(old, new) \/ View' = View
  <2>1. WellFormed(LinkIn(Now, old, new).s) /\ Same(LinkIn(Now, old, new), T!LinkIn(View, old, new))
    BY <1>1, PathIn, LinkInView DEF Keeps
  <2>2. Whole(T!LinkIn(View, old, new), View)
    BY TreeOutcomes, Zenon
  <2> QED BY <1>8, <2>1, <2>2, BecomesTree DEF Link, T!Link
<1>9. ASSUME NEW p \in Paths, NEW follow \in BOOLEAN, Touch(p, follow) PROVE T!Touch(p, follow) \/ View' = View
  <2>1. WellFormed(TouchIn(Now, p, follow).s) /\ Same(TouchIn(Now, p, follow), T!TouchIn(View, p, follow))
    BY <1>1, PathIn, TouchInView DEF Keeps
  <2>2. Whole(T!TouchIn(View, p, follow), View)
    BY TreeOutcomes, Zenon
  <2> QED BY <1>9, <2>1, <2>2, BecomesTree DEF Touch, T!Touch
<1>10. ASSUME NEW p \in Paths, NEW recursive \in BOOLEAN, Remove(p, recursive)
       PROVE  T!Remove(p, recursive) \/ View' = View
  <2>1. WellFormed(RemoveIn(Now, p, recursive).s) /\ Same(RemoveIn(Now, p, recursive), T!RemoveIn(View, p, recursive))
    BY <1>1, <1>3, PathIn, RemoveInView
  <2>2. Whole(T!RemoveIn(View, p, recursive), View)
    BY TreeOutcomes, Zenon
  <2> QED BY <1>10, <2>1, <2>2, BecomesTree DEF Remove, T!Remove
<1>11. ASSUME NEW old \in Paths, NEW new \in Paths, Rename(old, new) PROVE T!Rename(old, new) \/ View' = View
  <2>1. CASE T!Walk(View, old, FALSE, FALSE).path # T!Walk(View, new, FALSE, TRUE).path
    <3>1. WellFormed(RenameIn(Now, old, new).s) /\ Same(RenameIn(Now, old, new), T!RenameIn(View, old, new))
      BY <1>1, <1>3, <2>1, PathIn, RenameInView
    <3>2. Whole(T!RenameIn(View, old, new), View)
      BY TreeOutcomes, Zenon
    <3> QED BY <1>11, <3>1, <3>2, BecomesTree DEF Rename, T!Rename
  <2>2. CASE T!Walk(View, old, FALSE, FALSE).path = T!Walk(View, new, FALSE, TRUE).path
    <3>1. RenameIn(Now, old, new).s = Now
      BY <1>1, <2>2, PathIn, RenamesNowhere
    <3>2. upper' = Now.upper /\ tomb' = Now.tomb
      BY <1>11, <3>1 DEF Rename, Become
    <3>3. Now' = Now
      BY <3>2, LayersAre DEF Now
    <3> QED BY <3>3 DEF View
  <2> QED BY <2>1, <2>2
<1> QED BY <1>2, <1>4, <1>5, <1>6, <1>7, <1>8, <1>9, <1>10, <1>11, Zenon DEF Next, T!Next

\* The view at the start is the lower tree, whose root was made anew.
LEMMA InitIsTree == Init => T!Init
<1> SUFFICES ASSUME Init PROVE T!Init
  OBVIOUS
<1> DEFINE root == T!Dir("new")
           seed == [Lower EXCEPT ![<<>>].attr = "new"]
<1>1. upper = [p \in {<<>>} |-> root] /\ tomb = {} /\ Now.upper = upper /\ Now.tomb = tomb
  BY LayersAre DEF Init, Now
<1>2. DOMAIN upper = {<<>>} /\ upper[<<>>] = root
  BY <1>1
<1>3. \A q : ~isHidden(Now, q)
  BY <1>1 DEF isHidden
<1>4. <<>> \in DOMAIN Lower /\ Lower[<<>>].kind = "dir" /\ Lower \in [DOMAIN Lower -> T!Node]
  BY LowerAssumption DEF T!IsDir
<1>5. \A q : /\ q \in DOMAIN Visible(Now) <=> q \in DOMAIN Lower
             /\ q \in DOMAIN Lower => Visible(Now)[q] = IF q = <<>> THEN root ELSE Lower[q]
  BY <1>1, <1>2, <1>3, <1>4, VisibleAt
<1>6. \A q \in DOMAIN Lower : DirsTo(Visible(Now), q)
  BY <1>5, LowerTree, NewDir DEF DirsTo, T!IsDir
<1>7. seed \in [DOMAIN Lower -> T!Node] /\ \A q \in DOMAIN Lower : seed[q] = IF q = <<>> THEN root ELSE Lower[q]
  <2>1. Lower[<<>>] = T!Dir(Lower[<<>>].attr)
    BY <1>4, LowerNode
  <2>2. [Lower[<<>>] EXCEPT !.attr = "new"] = root
    BY <2>1 DEF T!Dir
  <2>3. ASSUME NEW q \in DOMAIN Lower PROVE seed[q] = IF q = <<>> THEN [Lower[<<>>] EXCEPT !.attr = "new"] ELSE Lower[q]
    BY <1>4
  <2>4. root \in T!Node
    BY NewDir
  <2>5. \A q \in DOMAIN Lower : seed[q] = IF q = <<>> THEN root ELSE Lower[q]
    BY <2>2, <2>3
  <2> QED BY <1>4, <2>4, <2>5
<1>8. Merged(Now) = seed
  <2>1. StateOK(Now)
    BY InitWellFormed DEF WellFormed
  <2>2. DOMAIN seed = DOMAIN Lower /\ seed = [x \in DOMAIN seed |-> seed[x]]
    BY <1>7
  <2> HIDE DEF seed
  <2> QED BY <1>5, <1>6, <1>7, <2>1, <2>2, LowerTree, MergedIs
<1> QED BY <1>8 DEF T!Init, View

\* The overlay of overlay.go implements the filesystem of memory.go on its merged view:
\* it starts at the lower tree, and as long as no lower path is in the way every step
\* is a step of the one tree or leaves the view as it was.
THEOREM OverlayImplementsTree == Spec => T!Init /\ [][OneTreeStep]_vars
<1>1. WellFormed(Now) /\ [Next]_vars => [OneTreeStep]_vars
  <2> SUFFICES ASSUME WellFormed(Now), [Next]_vars, \A q : ~LowerInTheWay(q) PROVE [T!Next]_View
    BY DEF OneTreeStep
  <2> QED BY NextIsTreeStep
<1> QED BY <1>1, InitIsTree, OverlayWellFormed, PTL DEF Spec
=============================================================================
