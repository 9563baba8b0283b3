------------------------- MODULE OverlayViewProofs -------------------------
(***************************************************************************)
(* What the operations of OverlayFS do to the merged view, on every        *)
(* well-formed state: resolution, listings, copy-up and every operation    *)
(* but Rename, which OverlayFSProofs adds together with the theorems about *)
(* the specification.                                                      *)
(*                                                                         *)
(* Induction over data (the names of a path, the links followed) is over   *)
(* the least counterexample, LeastNatural; the recursive functions of the  *)
(* model are unfolded by HopsStep, MkdirStepsStep, MkdirWalkStep and       *)
(* MovesStep, which also show that they exist.                             *)
(***************************************************************************)
EXTENDS OverlayFS, TLAPS, SequenceTheorems, FiniteSetTheorems, WellFoundedInduction

\* The paths: sequences of names.
Path == Seq(STRING)

\* Every nonempty set of natural numbers has a least element.  It stands for
\* induction over the natural numbers, with the set of counterexamples.
LEMMA LeastNatural ==
  ASSUME NEW S, S \subseteq Nat, S # {}
  PROVE  \E m \in S : \A k \in S : m <= k
<1>1. PICK R : IsWellFoundedOn(R, Nat) /\ R = {ss \in Nat \X Nat : ss[1] < ss[2]}
  BY NatLessThanWellFounded DEF OpToRel
<1>2. PICK m \in S : \A y \in S : ~ (<<y, m>> \in R)
  BY <1>1, WFMin
<1>3. ASSUME NEW k \in S, k < m PROVE FALSE
  <2>1. <<k, m>> \in Nat \X Nat
    OBVIOUS
  <2>2. <<k, m>> \in R
    BY <1>1, <1>3, <2>1
  <2> QED BY <1>2, <2>2
<1>4. \A k \in S : m <= k
  BY <1>3
<1> QED BY <1>4

-----------------------------------------------------------------------------
\* Paths.

\* An ancestor of p is a shorter, nonempty prefix of it.
LEMMA AncestorOf ==
  ASSUME NEW p \in Path, NEW r
  PROVE  r \in Ancestors(p) <=>
           /\ r \in Path /\ 1 <= Len(r) /\ Len(r) < Len(p)
           /\ \A i \in 1..Len(r) : r[i] = p[i]
<1>1. ASSUME r \in Ancestors(p)
      PROVE  /\ r \in Path /\ 1 <= Len(r) /\ Len(r) < Len(p)
             /\ \A i \in 1..Len(r) : r[i] = p[i]
  <2>1. PICK i \in 1..(Len(p) - 1) : r = SubSeq(p, 1, i)
    BY <1>1 DEF Ancestors
  <2>2. r \in Path /\ Len(r) = i /\ \A j \in 1..i : r[j] = p[j]
    BY <2>1, SubSeqProperties DEF Path
  <2> QED BY <2>1, <2>2 DEF Path
<1>2. ASSUME r \in Path, 1 <= Len(r), Len(r) < Len(p), \A i \in 1..Len(r) : r[i] = p[i]
      PROVE  r \in Ancestors(p)
  <2>1. Len(r) \in 1..(Len(p) - 1)
    BY <1>2 DEF Path
  <2>2. SubSeq(p, 1, Len(r)) = r
    BY <1>2 DEF Path
  <2> QED BY <2>1, <2>2 DEF Ancestors
<1> QED BY <1>1, <1>2

\* The root has no ancestors: <<>> is nobody's ancestor and is treated apart.
LEMMA AncestorsOfRoot == Ancestors(<<>>) = {}
BY DEF Ancestors

\* Ancestors of ancestors are ancestors, and a path is not its own.
LEMMA AncestorTrans ==
  ASSUME NEW p \in Path, NEW q \in Ancestors(p), NEW r \in Ancestors(q)
  PROVE  r \in Ancestors(p) /\ q # p /\ q # <<>>
<1>1. q \in Path /\ 1 <= Len(q) /\ Len(q) < Len(p) /\ \A i \in 1..Len(q) : q[i] = p[i]
  BY AncestorOf
<1>2. r \in Path /\ 1 <= Len(r) /\ Len(r) < Len(q) /\ \A i \in 1..Len(r) : r[i] = q[i]
  BY <1>1, AncestorOf
<1>3. \A i \in 1..Len(r) : r[i] = p[i]
  BY <1>1, <1>2 DEF Path
<1> QED BY <1>1, <1>2, <1>3, AncestorOf DEF Path

\* Two ancestors of one path are on one line.
LEMMA AncestorsOnLine ==
  ASSUME NEW p \in Path, NEW q \in Ancestors(p), NEW r \in Ancestors(p)
  PROVE  q = r \/ q \in Ancestors(r) \/ r \in Ancestors(q)
<1>1. q \in Path /\ 1 <= Len(q) /\ Len(q) < Len(p) /\ \A i \in 1..Len(q) : q[i] = p[i]
  BY AncestorOf
<1>2. r \in Path /\ 1 <= Len(r) /\ Len(r) < Len(p) /\ \A i \in 1..Len(r) : r[i] = p[i]
  BY AncestorOf
<1>3. CASE Len(q) < Len(r)
  <2>1. \A i \in 1..Len(q) : q[i] = r[i]
    <3>1. \A i \in 1..Len(q) : i \in 1..Len(r)
      BY <1>1, <1>2, <1>3 DEF Path
    <3> QED BY <1>1, <1>2, <3>1
  <2> QED BY <1>1, <1>2, <1>3, <2>1, AncestorOf
<1>4. CASE Len(r) < Len(q)
  <2>1. \A i \in 1..Len(r) : r[i] = q[i]
    <3>1. \A i \in 1..Len(r) : i \in 1..Len(q)
      BY <1>1, <1>2, <1>4 DEF Path
    <3> QED BY <1>1, <1>2, <3>1
  <2> QED BY <1>1, <1>2, <1>4, <2>1, AncestorOf
<1>5. CASE Len(r) = Len(q)
  BY <1>1, <1>2, <1>5, SeqEqual DEF Path
<1> QED BY <1>1, <1>2, <1>3, <1>4, <1>5 DEF Path

\* The path of a name in a directory.
LEMMA AppendPath ==
  ASSUME NEW p \in Path, NEW n \in STRING
  PROVE  /\ Append(p, n) \in Path /\ Append(p, n) # <<>>
         /\ Ancestors(Append(p, n)) = Ancestors(p) \cup ({p} \ {<<>>})
         /\ SX!Front(Append(p, n)) = p /\ SX!Last(Append(p, n)) = n
<1> DEFINE c == Append(p, n)
<1>1. /\ c \in Path /\ Len(c) = Len(p) + 1 /\ c[Len(c)] = n
      /\ \A i \in 1..Len(p) : c[i] = p[i]
  <2>1. p \in Seq(STRING)
    BY DEF Path
  <2>2. c \in Seq(STRING)
    BY <2>1, AppendProperties
  <2>3. Len(c) = Len(p) + 1
    BY <2>1, AppendProperties
  <2>4. c[Len(p) + 1] = n
    BY <2>1, AppendProperties
  <2>5. \A i \in 1..Len(p) : c[i] = p[i]
    BY <2>1, AppendProperties
  <2> HIDE DEF c
  <2> QED BY <2>2, <2>3, <2>4, <2>5 DEF Path
<1>2. SX!Front(c) = p
  <2>1. SubSeq(c, 1, Len(p)) = p
    BY <1>1 DEF Path
  <2> QED BY <1>1, <2>1 DEF SX!Front, Path
<1>3. SX!Last(c) = n
  BY <1>1 DEF SX!Last
<1>4. c # <<>>
  BY AppendProperties DEF Path
<1> HIDE DEF c
<1>5. ASSUME NEW r \in Ancestors(c) PROVE r \in Ancestors(p) \cup ({p} \ {<<>>})
  <2>1. r \in Path /\ 1 <= Len(r) /\ Len(r) < Len(c) /\ \A i \in 1..Len(r) : r[i] = c[i]
    BY <1>1, <1>5, AncestorOf
  <2>2. \A i \in 1..Len(r) : r[i] = p[i]
    BY <1>1, <2>1 DEF Path
  <2>3. CASE Len(r) < Len(p)
    BY <2>1, <2>2, <2>3, AncestorOf
  <2>4. CASE Len(r) = Len(p)
    <3>1. r = p
      BY <2>1, <2>2, <2>4, SeqEqual DEF Path
    <3>2. r # <<>>
      BY <2>1 DEF Path
    <3> QED BY <3>1, <3>2
  <2> QED BY <1>1, <2>1, <2>3, <2>4 DEF Path
<1>6. ASSUME NEW r \in Ancestors(p) PROVE r \in Ancestors(c)
  <2>1. r \in Path /\ 1 <= Len(r) /\ Len(r) < Len(p) /\ \A i \in 1..Len(r) : r[i] = p[i]
    BY <1>6, AncestorOf
  <2>2. Len(p) \in Nat /\ Len(r) \in Nat
    BY <2>1 DEF Path
  <2>3. Len(r) < Len(c)
    BY <1>1, <2>1, <2>2
  <2>4. \A i \in 1..Len(r) : r[i] = c[i]
    <3>1. \A i \in 1..Len(r) : i \in 1..Len(p)
      BY <2>1, <2>2
    <3> QED BY <1>1, <2>1, <3>1
  <2> QED BY <1>1, <2>1, <2>3, <2>4, AncestorOf
<1>7. ASSUME p # <<>> PROVE p \in Ancestors(c)
  <2>1. 1 <= Len(p)
    BY <1>7, EmptySeq DEF Path
  <2>2. Len(p) < Len(c) /\ \A i \in 1..Len(p) : p[i] = c[i]
    BY <1>1 DEF Path
  <2> QED BY <1>1, <2>1, <2>2, AncestorOf
<1> QED BY <1>1, <1>2, <1>3, <1>4, <1>5, <1>6, <1>7 DEF c

\* A path other than the root is a name in a directory.
LEMMA FrontPath ==
  ASSUME NEW c \in Path, c # <<>>
  PROVE  /\ SX!Front(c) \in Path /\ SX!Last(c) \in STRING
         /\ c = Append(SX!Front(c), SX!Last(c))
<1>1. Len(c) \in Nat /\ Len(c) >= 1
  BY EmptySeq DEF Path
<1>2. SX!Front(c) \in Path /\ Len(SX!Front(c)) = Len(c) - 1
        /\ \A i \in 1..(Len(c) - 1) : SX!Front(c)[i] = c[i]
  <2> DEFINE f == SubSeq(c, 1, Len(c) - 1)
  <2>1. c \in Seq(STRING) /\ 1 \in Int /\ Len(c) - 1 \in Int /\ \A i \in 1..(Len(c) - 1) : c[i] \in STRING
    BY <1>1 DEF Path
  <2>2. f \in Seq(STRING)
    BY <2>1, SubSeqProperties
  <2>3. Len(f) = IF 1 <= Len(c) - 1 THEN Len(c) - 1 - 1 + 1 ELSE 0
    BY <2>1, SubSeqProperties
  <2>4. \A i \in 1..(Len(c) - 1) : f[i] = c[i]
    BY <1>1, <2>1
  <2> HIDE DEF f
  <2>5. Len(f) = Len(c) - 1
    <3>1. CASE Len(c) = 1
      BY <2>3, <3>1
    <3>2. CASE Len(c) > 1
      BY <1>1, <2>3, <3>2
    <3>3. Len(c) = 1 \/ Len(c) > 1
      BY <1>1
    <3> QED BY <3>1, <3>2, <3>3
  <2> QED BY <2>2, <2>4, <2>5 DEF SX!Front, Path, f
<1>3. SX!Last(c) \in STRING /\ SX!Last(c) = c[Len(c)]
  BY <1>1 DEF SX!Last, Path
<1>4. /\ Append(SX!Front(c), SX!Last(c)) \in Path /\ Len(Append(SX!Front(c), SX!Last(c))) = Len(c)
      /\ \A i \in 1..Len(c) : Append(SX!Front(c), SX!Last(c))[i] = c[i]
  BY <1>1, <1>2, <1>3 DEF Path
<1> QED BY <1>2, <1>3, <1>4, SeqEqual DEF Path

\* Prefixes of a path are the path itself, the root and its ancestors.
LEMMA PrefixIsAncestor ==
  ASSUME NEW p \in Path, NEW q \in Path
  PROVE  SX!IsPrefix(p, q) <=> (q = p \/ p = <<>> \/ p \in Ancestors(q))
<1>1. SX!IsPrefix(p, q) <=> Len(p) <= Len(q) /\ \A i \in 1..Len(p) : p[i] = q[i]
  <2>1. SubSeq(p, 1, Len(p)) = p
    BY DEF Path
  <2>2. ASSUME Len(p) <= Len(q) PROVE SubSeq(q, 1, Len(p)) = p <=> \A i \in 1..Len(p) : p[i] = q[i]
    BY <2>2 DEF Path
  <2> QED BY <2>1, <2>2 DEF SX!IsPrefix
<1>2. ASSUME q = p \/ p = <<>> \/ p \in Ancestors(q)
      PROVE Len(p) <= Len(q) /\ \A i \in 1..Len(p) : p[i] = q[i]
  BY <1>2, AncestorOf DEF Path
<1>3. ASSUME Len(p) <= Len(q), \A i \in 1..Len(p) : p[i] = q[i]
      PROVE  q = p \/ p = <<>> \/ p \in Ancestors(q)
  <2>1. CASE Len(p) = 0
    BY <2>1, EmptySeq DEF Path
  <2>2. CASE Len(p) = Len(q)
    BY <1>3, <2>2, SeqEqual DEF Path
  <2>3. CASE 1 <= Len(p) /\ Len(p) < Len(q)
    BY <1>3, <2>3, AncestorOf
  <2> QED BY <1>3, <2>1, <2>2, <2>3 DEF Path
<1> QED BY <1>1, <1>2, <1>3

\* The sequence operators of FileTree are those of this module.
LEMMA PrefixSame ==
  ASSUME NEW p, NEW q
  PROVE  /\ T!SX!IsPrefix(p, q) <=> SX!IsPrefix(p, q)
         /\ T!SX!Front(p) = SX!Front(p) /\ T!SX!Last(p) = SX!Last(p)
BY DEF T!SX!IsPrefix, SX!IsPrefix, T!SX!Front, SX!Front, T!SX!Last, SX!Last

-----------------------------------------------------------------------------
\* Resolution.

\* Directories lead to p: every ancestor of p is a directory of t.
DirsTo(t, p) == \A q \in Ancestors(p) : T!IsDir(t, q)

\* The prefixes resolution looks at, one name after the other.
LEMMA PrefixesAreAncestors ==
  ASSUME NEW p \in Path, NEW i \in 1..Len(p)
  PROVE  /\ SubSeq(p, 1, i) \in Path /\ Len(SubSeq(p, 1, i)) = i
         /\ i < Len(p) => SubSeq(p, 1, i) \in Ancestors(p)
         /\ i = Len(p) => SubSeq(p, 1, i) = p
<1>1. p \in Seq(STRING) /\ i \in Nat /\ 1 <= i /\ i <= Len(p) /\ \A j \in 1..i : p[j] \in STRING
  BY DEF Path
<1>2. SubSeq(p, 1, i) \in Seq(STRING)
  BY <1>1, SubSeqProperties
<1>3. Len(SubSeq(p, 1, i)) = i
  BY <1>1, SubSeqProperties
<1>4. i = Len(p) => SubSeq(p, 1, i) = p
  BY <1>1
<1>5. i < Len(p) => SubSeq(p, 1, i) \in Ancestors(p)
  BY <1>1 DEF Ancestors
<1> QED BY <1>2, <1>3, <1>4, <1>5 DEF Path

\* The length of a path.
LEMMA NonEmptyPath ==
  ASSUME NEW p \in Path
  PROVE  Len(p) \in Nat /\ (p # <<>> => Len(p) >= 1) /\ (p = <<>> => Len(p) = 0)
BY EmptySeq DEF Path

\* One pass over the names of p ends at the first that is no directory.
LEMMA ReachedAt ==
  ASSUME NEW t, NEW p \in Path, NEW follow, NEW missing, NEW i \in T!Stops(t, p),
         \A k \in T!Stops(t, p) : i <= k
  PROVE  T!Reached(t, p, follow, missing) = T!StoppedAt(t, p, i, follow, missing)
<1>1. T!Stops(t, p) \subseteq Nat /\ T!Stops(t, p) # {}
  BY NonEmptyPath DEF T!Stops
<1>2. (CHOOSE j \in T!Stops(t, p) : \A k \in T!Stops(t, p) : j <= k) = i
  <2> DEFINE j == CHOOSE x \in T!Stops(t, p) : \A k \in T!Stops(t, p) : x <= k
  <2>1. j \in T!Stops(t, p) /\ \A k \in T!Stops(t, p) : j <= k
    OBVIOUS
  <2>2. j <= i /\ i <= j
    BY <2>1
  <2> HIDE DEF j
  <2>3. j = i
    BY <1>1, <2>1, <2>2
  <2> QED BY <2>3 DEF j
<1> QED BY <1>1, <1>2, Zenon DEF T!Reached

\* The root is found at once.
LEMMA ReachedRoot ==
  ASSUME NEW t, NEW follow, NEW missing
  PROVE  T!Reached(t, <<>>, follow, missing) = T!Answer("found", <<>>)
<1>1. T!Stops(t, <<>>) = {}
  BY DEF T!Stops
<1> QED BY <1>1, Zenon DEF T!Reached

\* Directories lead to p: the answer is about p itself.
LEMMA ReachedHere ==
  ASSUME NEW t, NEW p \in Path, p # <<>>, DirsTo(t, p), NEW follow \in BOOLEAN, NEW missing \in BOOLEAN
  PROVE  T!Reached(t, p, follow, missing) =
           IF p \notin DOMAIN t
           THEN IF missing THEN T!Answer("absent", p) ELSE T!Answer("notExist", <<>>)
           ELSE IF t[p].kind = "link" /\ follow
           THEN T!Answer("link", t[p].target \o SubSeq(p, Len(p) + 1, Len(p)))
           ELSE T!Answer("found", p)
<1>1. Len(p) \in Nat /\ Len(p) >= 1 /\ Len(p) \in 1..Len(p)
  BY NonEmptyPath
<1>2. ASSUME NEW i \in T!Stops(t, p) PROVE i = Len(p)
  <2>1. i \in 1..Len(p) /\ ~T!IsDir(t, SubSeq(p, 1, i))
    BY DEF T!Stops
  <2>2. ~(i < Len(p))
    BY <2>1, PrefixesAreAncestors DEF DirsTo
  <2> QED BY <1>1, <2>1, <2>2
<1>3. SubSeq(p, 1, Len(p)) = p
  BY <1>1, PrefixesAreAncestors
<1>4. CASE T!IsDir(t, p)
  <2>1. Len(p) \notin T!Stops(t, p)
    BY <1>3, <1>4 DEF T!Stops
  <2>2. T!Stops(t, p) = {}
    BY <1>2, <2>1
  <2> QED BY <1>4, <2>2 DEF T!Reached, T!IsDir
<1>5. CASE ~T!IsDir(t, p)
  <2>1. Len(p) \in T!Stops(t, p)
    BY <1>1, <1>3, <1>5 DEF T!Stops
  <2>2. \A k \in T!Stops(t, p) : Len(p) <= k
    BY <1>1, <1>2
  <2>3. T!Reached(t, p, follow, missing) = T!StoppedAt(t, p, Len(p), follow, missing)
    BY <2>1, <2>2, ReachedAt
  <2> QED BY <1>3, <2>3 DEF T!StoppedAt
<1> QED BY <1>4, <1>5

\* They do not: the answer is about the first ancestor that is no directory.
FirstStop(t, p, q) == q \in Ancestors(p) /\ DirsTo(t, q) /\ ~T!IsDir(t, q)

\* The answer when q, above p, is no directory.
AnswerAbove(t, p, q) ==
  IF q \notin DOMAIN t THEN T!Answer("notExist", <<>>)
  ELSE IF t[q].kind = "link" THEN T!Answer("link", t[q].target \o SubSeq(p, Len(q) + 1, Len(p)))
  ELSE T!Answer("invalid", <<>>)

\* A path that directories do not lead to is answered above it.
LEMMA ReachedAbove ==
  ASSUME NEW t, NEW p \in Path, ~DirsTo(t, p), NEW follow, NEW missing
  PROVE  \E q : FirstStop(t, p, q) /\ T!Reached(t, p, follow, missing) = AnswerAbove(t, p, q)
<1>1. PICK r \in Ancestors(p) : ~T!IsDir(t, r)
  BY DEF DirsTo
<1>2. PICK n \in 1..(Len(p) - 1) : r = SubSeq(p, 1, n)
  BY <1>1 DEF Ancestors
<1>3. Len(p) \in Nat /\ n \in T!Stops(t, p) /\ n < Len(p) /\ T!Stops(t, p) \subseteq Nat
  BY <1>1, <1>2, NonEmptyPath DEF T!Stops
<1>4. PICK i \in T!Stops(t, p) : \A k \in T!Stops(t, p) : i <= k
  BY <1>3, LeastNatural
<1>5. i \in 1..Len(p) /\ i < Len(p) /\ i # Len(p) /\ ~T!IsDir(t, SubSeq(p, 1, i))
  BY <1>3, <1>4 DEF T!Stops
<1> DEFINE q == SubSeq(p, 1, i)
<1>6. q \in Path /\ Len(q) = i /\ q \in Ancestors(p)
  BY <1>5, PrefixesAreAncestors
<1>7. T!Reached(t, p, follow, missing) = T!StoppedAt(t, p, i, follow, missing)
  BY <1>4, ReachedAt
<1>8. T!StoppedAt(t, p, i, follow, missing) = AnswerAbove(t, p, q)
  BY <1>5, <1>6 DEF T!StoppedAt, AnswerAbove
<1>9. DirsTo(t, q)
  <2> SUFFICES ASSUME NEW a \in Ancestors(q), ~T!IsDir(t, a) PROVE FALSE
    BY DEF DirsTo
  <2>1. PICK j \in 1..(Len(q) - 1) : a = SubSeq(q, 1, j)
    BY DEF Ancestors
  <2>2. j \in Nat /\ 1 <= j /\ j < i
    BY <1>5, <1>6, <2>1
  <2>3. SubSeq(q, 1, j) = SubSeq(p, 1, j)
    BY <1>5, <1>6, <2>2 DEF Path
  <2>4. j \in T!Stops(t, p)
    <3>1. j \in 1..Len(p)
      BY <1>3, <1>5, <2>2
    <3>2. ~T!IsDir(t, SubSeq(p, 1, j))
      BY <2>1, <2>3
    <3> QED BY <3>1, <3>2 DEF T!Stops
  <2> QED BY <1>4, <1>5, <2>2, <2>4
<1> QED BY <1>5, <1>6, <1>7, <1>8, <1>9 DEF FirstStop

\* The paths left to resolve, one link after the other.
LEMMA HopsStep ==
  ASSUME NEW t, NEW p, NEW follow
  PROVE  /\ T!Hops(t, p, follow)[0] = [path |-> p, follow |-> follow]
         /\ \A n \in Nat : T!Hops(t, p, follow)[n + 1] = T!Followed(t, T!Hops(t, p, follow)[n])
<1> DEFINE start == [path |-> p, follow |-> follow]
           Step(x, n) == T!Followed(t, x)
           Run(g, n) == g = [i \in 0..n |-> IF i = 0 THEN start ELSE Step(g[i - 1], i)]
<1> HIDE DEF start, Step
<1>1. \A n \in Nat : \E g : Run(g, n)
  <2> DEFINE Bad == {n \in Nat : ~ \E g : Run(g, n)}
  <2>1. SUFFICES ASSUME Bad # {} PROVE FALSE
    OBVIOUS
  <2>2. PICK m \in Bad : \A k \in Bad : m <= k
    BY <2>1, LeastNatural
  <2>3. CASE m = 0
    <3>1. Run([i \in 0..0 |-> start], 0)
      OBVIOUS
    <3> QED BY <2>2, <2>3, <3>1
  <2>4. CASE m > 0
    <3>1. m - 1 \in Nat /\ m - 1 \notin Bad
      <4>1. Bad \subseteq Nat
        OBVIOUS
      <4> HIDE DEF Bad
      <4> QED BY <2>2, <2>4, <4>1
    <3>2. PICK g : Run(g, m - 1)
      BY <3>1
    <3> DEFINE h == [i \in 0..m |-> IF i = m THEN Step(g[m - 1], m) ELSE g[i]]
    <3>3. ASSUME NEW i \in 0..m PROVE h[i] = IF i = 0 THEN start ELSE Step(h[i - 1], i)
      <4>1. CASE i = m
        BY <2>4, <4>1
      <4>2. CASE i # m
        <5>1. i \in 0..(m - 1) /\ h[i] = g[i]
          BY <2>2, <4>2
        <5>2. g[i] = IF i = 0 THEN start ELSE Step(g[i - 1], i)
          BY <3>2, <5>1
        <5>3. i # 0 => h[i - 1] = g[i - 1]
          BY <2>2, <5>1
        <5> QED BY <5>1, <5>2, <5>3
      <4> QED BY <4>1, <4>2
    <3>4. h = [i \in 0..m |-> IF i = 0 THEN start ELSE Step(h[i - 1], i)]
      BY <3>3
    <3> QED BY <2>2, <3>4
  <2> QED BY <2>2, <2>3, <2>4
<1>2. ASSUME NEW m \in Nat, NEW n \in Nat, NEW g, NEW h, Run(g, m), Run(h, n),
             NEW i \in Nat, i <= m, i <= n
      PROVE  g[i] = h[i]
  <2> DEFINE Bad == {j \in Nat : j <= m /\ j <= n /\ g[j] # h[j]}
  <2>1. SUFFICES ASSUME Bad # {} PROVE FALSE
    BY <1>2
  <2>2. PICK j \in Bad : \A k \in Bad : j <= k
    BY <2>1, LeastNatural
  <2>3. j \in 0..m /\ j \in 0..n
    BY <2>2
  <2>4. /\ g[j] = IF j = 0 THEN start ELSE Step(g[j - 1], j)
        /\ h[j] = IF j = 0 THEN start ELSE Step(h[j - 1], j)
    BY <1>2, <2>3
  <2>5. j # 0 => g[j - 1] = h[j - 1]
    BY <2>2
  <2> QED BY <2>2, <2>4, <2>5
<1> HIDE DEF Run
<1> DEFINE r == [n \in Nat |-> (CHOOSE g : Run(g, n))[n]]
<1>3. ASSUME NEW n \in Nat PROVE r[n] = IF n = 0 THEN start ELSE Step(r[n - 1], n)
  <2>1. PICK g : g = CHOOSE x : Run(x, n)
    OBVIOUS
  <2>2. Run(g, n) /\ r[n] = g[n]
    BY <1>1, <2>1
  <2>3. g[n] = IF n = 0 THEN start ELSE Step(g[n - 1], n)
    BY <2>2 DEF Run
  <2>4. CASE n > 0
    <3>1. n - 1 \in Nat
      BY <2>4
    <3>2. PICK h : h = CHOOSE x : Run(x, n - 1)
      OBVIOUS
    <3>3. Run(h, n - 1) /\ r[n - 1] = h[n - 1]
      BY <1>1, <3>1, <3>2
    <3>4. n - 1 <= n - 1 /\ n - 1 <= n
      OBVIOUS
    <3>5. h[n - 1] = g[n - 1]
      BY <1>2, <2>2, <3>1, <3>3, <3>4
    <3> QED BY <2>2, <2>3, <2>4, <3>3, <3>5
  <2> QED BY <2>2, <2>3, <2>4
<1>4. r = [n \in Nat |-> IF n = 0 THEN start ELSE Step(r[n - 1], n)]
  <2>1. r = [n \in Nat |-> r[n]]
    OBVIOUS
  <2> HIDE DEF r
  <2> QED BY <1>3, <2>1
<1> HIDE DEF r
<1> DEFINE f == T!Hops(t, p, follow)
<1>5. f = CHOOSE x : x = [n \in Nat |-> IF n = 0 THEN start ELSE Step(x[n - 1], n)]
  BY Zenon DEF T!Hops, start, Step
<1> HIDE DEF f
<1>6. f = [n \in Nat |-> IF n = 0 THEN start ELSE Step(f[n - 1], n)]
  BY <1>4, <1>5
<1>7. f[0] = start
  BY <1>6
<1>8. \A n \in Nat : f[n + 1] = Step(f[n], n + 1)
  BY <1>6
<1> QED BY <1>7, <1>8, Zenon DEF f, start, Step

\* Every node of the tree is a node.
TreeOK(t) == \A q \in DOMAIN t : t[q] \in T!Node

\* What one pass can answer.
LEMMA ReachedTyped ==
  ASSUME NEW t, TreeOK(t), NEW p \in Path, NEW follow \in BOOLEAN, NEW missing \in BOOLEAN
  PROVE  LET r == T!Reached(t, p, follow, missing) IN
         /\ r = T!Answer(r.err, r.path) /\ r.path \in Path
         /\ r.err \in {"found", "absent", "notExist", "invalid", "link"}
         /\ r.err = "found" =>
              /\ r.path = p /\ DirsTo(t, p)
              /\ p = <<>> \/ (p \in DOMAIN t /\ ~(t[p].kind = "link" /\ follow))
         /\ r.err = "absent" =>
              missing /\ r.path = p /\ DirsTo(t, p) /\ p # <<>> /\ p \notin DOMAIN t
<1> DEFINE r == T!Reached(t, p, follow, missing)
<1>0. <<>> \in Path
  BY DEF Path
<1>1. CASE p = <<>>
  <2>1. r = T!Answer("found", <<>>)
    BY <1>1, ReachedRoot
  <2>2. DirsTo(t, p)
    BY <1>1, AncestorsOfRoot DEF DirsTo
  <2> HIDE DEF r
  <2>3. r.err = "found" /\ r.path = p
    BY <1>1, <2>1 DEF T!Answer
  <2>4. QED BY <1>1, <2>1, <2>2, <2>3 DEF r
<1>2. ASSUME NEW q \in Path, NEW node \in T!Node
      PROVE  node.target \o SubSeq(p, Len(q) + 1, Len(p)) \in Path
  <2>1. p \in Seq(STRING) /\ Len(q) + 1 \in Int /\ Len(p) \in Int /\ Len(q) \in Nat
    BY DEF Path
  <2>2. \A i \in (Len(q) + 1)..Len(p) : p[i] \in STRING
    BY <2>1
  <2>3. SubSeq(p, Len(q) + 1, Len(p)) \in Seq(STRING)
    BY <2>1, <2>2, SubSeqProperties
  <2>4. node.target \in Seq(STRING)
    BY DEF T!Node
  <2> QED BY <2>3, <2>4, ConcatProperties DEF Path
<1>3. CASE p # <<>> /\ DirsTo(t, p)
  <2>1. r = IF p \notin DOMAIN t
            THEN IF missing THEN T!Answer("absent", p) ELSE T!Answer("notExist", <<>>)
            ELSE IF t[p].kind = "link" /\ follow
            THEN T!Answer("link", t[p].target \o SubSeq(p, Len(p) + 1, Len(p)))
            ELSE T!Answer("found", p)
    BY <1>3, ReachedHere
  <2>2. p \in DOMAIN t => t[p].target \o SubSeq(p, Len(p) + 1, Len(p)) \in Path
    BY <1>2 DEF TreeOK
  <2> DEFINE go == t[p].target \o SubSeq(p, Len(p) + 1, Len(p))
  <2> HIDE DEF r, go
  <2>3. CASE p \notin DOMAIN t /\ missing
    BY <1>3, <2>1, <2>3 DEF T!Answer, r
  <2>4. CASE p \notin DOMAIN t /\ ~missing
    BY <1>0, <1>3, <2>1, <2>4 DEF T!Answer, r
  <2>5. CASE p \in DOMAIN t /\ t[p].kind = "link" /\ follow
    <3>1. r = T!Answer("link", go) /\ go \in Path
      BY <2>1, <2>2, <2>5 DEF go
    <3> QED BY <3>1 DEF T!Answer, r
  <2>6. CASE p \in DOMAIN t /\ ~(t[p].kind = "link" /\ follow)
    <3>1. r = T!Answer("found", p)
      BY <2>1, <2>6
    <3> QED BY <1>3, <2>6, <3>1 DEF T!Answer, r
  <2> QED BY <2>3, <2>4, <2>5, <2>6
<1>4. CASE ~DirsTo(t, p)
  <2>1. PICK q : FirstStop(t, p, q) /\ r = AnswerAbove(t, p, q)
    BY <1>4, ReachedAbove
  <2>2. q \in Path
    BY <2>1, AncestorOf DEF FirstStop
  <2> DEFINE go == t[q].target \o SubSeq(p, Len(q) + 1, Len(p))
  <2>3. q \in DOMAIN t => go \in Path
    BY <1>2, <2>2 DEF TreeOK
  <2> HIDE DEF r, go
  <2>4. r \in {T!Answer("notExist", <<>>), T!Answer("invalid", <<>>)} \/ (go \in Path /\ r = T!Answer("link", go))
    BY <2>1, <2>3 DEF AnswerAbove, go
  <2>5. r.err \in {"notExist", "invalid", "link"} /\ r.path \in Path /\ r = T!Answer(r.err, r.path)
    BY <1>0, <2>4 DEF T!Answer
  <2> QED BY <2>5 DEF r
<1> QED BY <1>1, <1>3, <1>4

\* What is left to resolve after n links is a path, and follow is kept.
LEMMA HopsTyped ==
  ASSUME NEW t, TreeOK(t), NEW p \in Path, NEW follow \in BOOLEAN, NEW n \in Nat
  PROVE  /\ T!Hops(t, p, follow)[n] \in [path : Path, follow : BOOLEAN]
         /\ T!Hops(t, p, follow)[n].follow = follow
<1> DEFINE h == T!Hops(t, p, follow)
           OK(i) == h[i] \in [path : Path, follow : BOOLEAN] /\ h[i].follow = follow
           Bad == {i \in Nat : ~OK(i)}
<1>1. SUFFICES ASSUME Bad # {} PROVE FALSE
  OBVIOUS
<1>2. h[0] = [path |-> p, follow |-> follow] /\ \A i \in Nat : h[i + 1] = T!Followed(t, h[i])
  BY HopsStep
<1> HIDE DEF h
<1>3. OK(0)
  BY <1>2
<1>4. ASSUME NEW i \in Nat, OK(i) PROVE OK(i + 1)
  <2>1. h[i].path \in Path /\ h[i].follow = follow
    BY <1>4
  <2> DEFINE r == T!Reached(t, h[i].path, h[i].follow, FALSE)
  <2>2. r.path \in Path
    BY <2>1, ReachedTyped, Zenon
  <2>3. h[i + 1] = IF r.err = "link" THEN [path |-> r.path, follow |-> h[i].follow \/ ~TRUE] ELSE h[i]
    BY <1>2 DEF T!Followed
  <2> HIDE DEF r
  <2> QED BY <1>4, <2>1, <2>2, <2>3
<1>5. PICK m \in Bad : \A k \in Bad : m <= k
  BY <1>1, LeastNatural
<1>6. m \in Nat /\ ~OK(m)
  BY <1>5
<1> HIDE DEF OK
<1>7. m # 0
  BY <1>3, <1>6
<1>8. m - 1 \in Nat /\ OK(m - 1)
  BY <1>5, <1>6, <1>7
<1>9. OK((m - 1) + 1)
  BY <1>4, <1>8
<1>10. (m - 1) + 1 = m
  BY <1>6
<1> QED BY <1>6, <1>9, <1>10

\* What an answer says about the tree.
LEMMA WalkAnswers ==
  ASSUME NEW t, TreeOK(t), NEW p \in Path, NEW follow \in BOOLEAN, NEW missing \in BOOLEAN
  PROVE  LET w == T!Walk(t, p, follow, missing) IN
         /\ w = T!Answer(w.err, w.path) /\ w.path \in Path
         /\ w.err \in {"found", "absent", "notExist", "invalid", "loop"}
         /\ w.err = "found" =>
              /\ DirsTo(t, w.path)
              /\ w.path = <<>> \/ (w.path \in DOMAIN t /\ ~(t[w.path].kind = "link" /\ follow))
         /\ w.err = "absent" =>
              missing /\ DirsTo(t, w.path) /\ w.path # <<>> /\ w.path \notin DOMAIN t
<1> DEFINE h == T!Hops(t, p, follow)[MaxSymlinkDepth]
           w == T!Walk(t, p, follow, missing)
<1>1. h.path \in Path /\ h.follow = follow
  BY HopsTyped, PathsAssumption
<1> DEFINE q == h.path
           r == T!Reached(t, q, follow, missing)
<1>2. w = IF r.err = "link" THEN T!Answer("loop", <<>>) ELSE r
  BY <1>1 DEF T!Walk, T!Resolved, T!Final
<1> HIDE DEF h, w, q
<1>3. /\ r = T!Answer(r.err, r.path) /\ r.path \in Path
      /\ r.err \in {"found", "absent", "notExist", "invalid", "link"}
      /\ r.err = "found" =>
           /\ r.path = q /\ DirsTo(t, q)
           /\ q = <<>> \/ (q \in DOMAIN t /\ ~(t[q].kind = "link" /\ follow))
      /\ r.err = "absent" =>
           missing /\ r.path = q /\ DirsTo(t, q) /\ q # <<>> /\ q \notin DOMAIN t
  <2>1. q \in Path
    BY <1>1 DEF q
  <2> QED BY <2>1, ReachedTyped
<1> HIDE DEF r
<1>4. CASE r.err = "link"
  <2>1. w.err = "loop" /\ w.path = <<>> /\ w = T!Answer("loop", <<>>)
    BY <1>2, <1>4 DEF T!Answer
  <2>2. <<>> \in Path
    BY DEF Path
  <2> QED BY <2>1, <2>2 DEF w
<1>5. CASE r.err # "link"
  <2>1. w = r
    BY <1>2, <1>5
  <2> QED BY <1>3, <1>5, <2>1 DEF w
<1> QED BY <1>4, <1>5

\* A path that directories lead to is resolved at once.
LEMMA WalkAtOnce ==
  ASSUME NEW t, NEW p, NEW follow, NEW missing,
         T!Reached(t, p, follow, FALSE).err # "link", T!Reached(t, p, follow, missing).err # "link"
  PROVE  T!Walk(t, p, follow, missing) = T!Reached(t, p, follow, missing)
<1> DEFINE h == T!Hops(t, p, follow)
           start == [path |-> p, follow |-> follow]
           Bad == {i \in Nat : h[i] # start}
<1>2. h[0] = start /\ \A i \in Nat : h[i + 1] = T!Followed(t, h[i])
  BY HopsStep
<1>3. T!Followed(t, start) = start
  BY DEF T!Followed
<1>4. Bad = {}
  <2>1. SUFFICES ASSUME Bad # {} PROVE FALSE
    OBVIOUS
  <2> HIDE DEF h, start
  <2>2. PICK m \in Bad : \A k \in Bad : m <= k
    BY <2>1, LeastNatural
  <2>3. m \in Nat /\ m # 0
    BY <1>2, <2>2
  <2>4. m - 1 \in Nat /\ h[m - 1] = start /\ (m - 1) + 1 = m
    BY <2>2, <2>3
  <2>5. h[(m - 1) + 1] = T!Followed(t, h[m - 1])
    BY <1>2, <2>4
  <2> QED BY <1>3, <2>2, <2>4, <2>5
<1>5. h[MaxSymlinkDepth] = start
  BY <1>4, PathsAssumption
<1>6. start.path = p /\ start.follow = follow
  OBVIOUS
<1> QED BY <1>5, <1>6, Zenon DEF T!Walk, T!Resolved, T!Final

\* A path that directories lead to: it is found if it is there and is not a link to
\* follow, and absent or missing if it is not.
LEMMA WalkHere ==
  ASSUME NEW t, NEW p \in Path, DirsTo(t, p), NEW follow \in BOOLEAN, NEW missing \in BOOLEAN
  PROVE  /\ p = <<>> \/ (p \in DOMAIN t /\ ~(t[p].kind = "link" /\ follow))
              => T!Walk(t, p, follow, missing) = T!Answer("found", p)
         /\ p # <<>> /\ p \notin DOMAIN t
              => T!Walk(t, p, follow, missing)
                   = IF missing THEN T!Answer("absent", p) ELSE T!Answer("notExist", <<>>)
<1>1. CASE p = <<>>
  <2>1. \A m \in BOOLEAN : T!Reached(t, p, follow, m) = T!Answer("found", p)
    BY <1>1, ReachedRoot
  <2>2. T!Answer("found", p).err # "link"
    BY DEF T!Answer
  <2> QED BY <1>1, <2>1, <2>2, WalkAtOnce
<1>2. CASE p # <<>> /\ p \in DOMAIN t /\ ~(t[p].kind = "link" /\ follow)
  <2>1. \A m \in BOOLEAN : T!Reached(t, p, follow, m) = T!Answer("found", p)
    BY <1>2, ReachedHere
  <2>2. T!Answer("found", p).err # "link"
    BY DEF T!Answer
  <2> QED BY <1>2, <2>1, <2>2, WalkAtOnce
<1>3. CASE p # <<>> /\ p \notin DOMAIN t
  <2>1. \A m \in BOOLEAN : T!Reached(t, p, follow, m)
                             = IF m THEN T!Answer("absent", p) ELSE T!Answer("notExist", <<>>)
    BY <1>3, ReachedHere
  <2>2. T!Answer("absent", p).err # "link" /\ T!Answer("notExist", <<>>).err # "link"
    BY DEF T!Answer
  <2>3. FALSE \in BOOLEAN /\ \A m \in BOOLEAN : T!Reached(t, p, follow, m).err # "link"
    BY <2>1, <2>2
  <2>4. T!Walk(t, p, follow, missing) = T!Reached(t, p, follow, missing)
    BY <2>3, WalkAtOnce
  <2> QED BY <1>3, <2>1, <2>4
<1> QED BY <1>1, <1>2, <1>3

\* Trees that agree wherever directories lead are resolved alike.
Agree(t, u) ==
  \A q \in Path : /\ DirsTo(t, q) <=> DirsTo(u, q)
                  /\ DirsTo(t, q) => /\ q \in DOMAIN t <=> q \in DOMAIN u
                                     /\ q \in DOMAIN t => t[q] = u[q]

\* One pass over trees that agree.
LEMMA ReachedAgrees ==
  ASSUME NEW t, NEW u, Agree(t, u), NEW p \in Path, NEW follow \in BOOLEAN, NEW missing \in BOOLEAN
  PROVE  T!Reached(t, p, follow, missing) = T!Reached(u, p, follow, missing)
<1>1. CASE p = <<>>
  BY <1>1, ReachedRoot
<1>2. CASE p # <<>> /\ DirsTo(t, p)
  <2>1. /\ DirsTo(u, p) /\ (p \in DOMAIN t <=> p \in DOMAIN u)
        /\ p \in DOMAIN t => t[p] = u[p]
    BY <1>2 DEF Agree
  <2> QED BY <1>2, <2>1, ReachedHere
<1>3. CASE ~DirsTo(t, p)
  <2>1. ~DirsTo(u, p)
    BY <1>3 DEF Agree
  <2>2. PICK q : FirstStop(t, p, q) /\ T!Reached(t, p, follow, missing) = AnswerAbove(t, p, q)
    BY <1>3, ReachedAbove
  <2>3. PICK r : FirstStop(u, p, r) /\ T!Reached(u, p, follow, missing) = AnswerAbove(u, p, r)
    BY <2>1, ReachedAbove
  <2>4. q \in Path /\ r \in Path /\ q \in Ancestors(p) /\ r \in Ancestors(p)
    BY <2>2, <2>3, AncestorOf DEF FirstStop
  <2>5. DirsTo(t, q) /\ DirsTo(u, q) /\ DirsTo(t, r) /\ DirsTo(u, r)
    BY <2>2, <2>3, <2>4 DEF Agree, FirstStop
  <2>6. /\ q \in DOMAIN t <=> q \in DOMAIN u
        /\ q \in DOMAIN t => t[q] = u[q]
    BY <2>4, <2>5 DEF Agree
  <2>7. q \notin Ancestors(r)
    BY <2>2, <2>5 DEF FirstStop, DirsTo
  <2>8. r \notin Ancestors(q)
    BY <2>3, <2>5 DEF FirstStop, DirsTo
  <2>9. q = r
    BY <2>4, <2>7, <2>8, AncestorsOnLine
  <2> QED BY <2>2, <2>3, <2>6, <2>9 DEF AnswerAbove
<1> QED BY <1>1, <1>2, <1>3

\* Resolution in trees that agree, whatever links are followed.
LEMMA WalkAgrees ==
  ASSUME NEW t, NEW u, TreeOK(t), Agree(t, u),
         NEW p \in Path, NEW follow \in BOOLEAN, NEW missing \in BOOLEAN
  PROVE  T!Walk(t, p, follow, missing) = T!Walk(u, p, follow, missing)
<1> DEFINE h == T!Hops(t, p, follow)
           g == T!Hops(u, p, follow)
           Bad == {i \in Nat : h[i] # g[i]}
<1>1. h[0] = [path |-> p, follow |-> follow] /\ \A i \in Nat : h[i + 1] = T!Followed(t, h[i])
  BY HopsStep
<1>2. g[0] = [path |-> p, follow |-> follow] /\ \A i \in Nat : g[i + 1] = T!Followed(u, g[i])
  BY HopsStep
<1>3. \A i \in Nat : h[i].path \in Path /\ h[i].follow = follow
  BY HopsTyped
<1> HIDE DEF h, g
<1>4. ASSUME NEW i \in Nat PROVE T!Followed(t, h[i]) = T!Followed(u, h[i])
  <2>1. PICK q \in Path : q = h[i].path
    BY <1>3
  <2>2. PICK no \in BOOLEAN : no = FALSE
    OBVIOUS
  <2>3. h[i].follow = follow
    BY <1>3
  <2>4. T!Reached(t, q, follow, no) = T!Reached(u, q, follow, no)
    BY ReachedAgrees
  <2> QED BY <2>1, <2>2, <2>3, <2>4, Zenon DEF T!Followed
<1>5. Bad = {}
  <2>1. SUFFICES ASSUME Bad # {} PROVE FALSE
    OBVIOUS
  <2>2. PICK m \in Bad : \A k \in Bad : m <= k
    BY <2>1, LeastNatural
  <2>3. m \in Nat /\ m # 0
    BY <1>1, <1>2, <2>2
  <2>4. m - 1 \in Nat /\ h[m - 1] = g[m - 1] /\ (m - 1) + 1 = m
    BY <2>2, <2>3
  <2>5. h[(m - 1) + 1] = T!Followed(t, h[m - 1]) /\ g[(m - 1) + 1] = T!Followed(u, g[m - 1])
    BY <1>1, <1>2, <2>4
  <2> QED BY <1>4, <2>2, <2>4, <2>5
<1>6. h[MaxSymlinkDepth] = g[MaxSymlinkDepth]
  BY <1>5, PathsAssumption
<1> DEFINE x == h[MaxSymlinkDepth]
<1>7. T!Reached(t, x.path, x.follow, missing) = T!Reached(u, x.path, x.follow, missing)
  BY <1>3, ReachedAgrees, PathsAssumption
<1> QED BY <1>6, <1>7, Zenon DEF T!Walk, T!Resolved, T!Final, h, g

-----------------------------------------------------------------------------
\* The layers.

\* The type of a state of the overlay.
StateOK(s) ==
  /\ s = Layers(s.upper, s.tomb)
  /\ s.upper \in [DOMAIN s.upper -> T!Node]
  /\ DOMAIN s.upper \subseteq Path /\ IsFiniteSet(DOMAIN s.upper)
  /\ s.tomb \subseteq Path

\* The upper tree has a root, and no tombstone is on it.
Rooted(s) == T!IsDir(s.upper, <<>>) /\ <<>> \notin s.tomb

\* Directories of the upper tree lead to everything in it.
Closed(s) == \A q \in DOMAIN s.upper : DirsTo(s.upper, q)

\* An upper directory never covers a lower leaf that no tombstone hides.
Shadows(s) ==
  \A q \in DOMAIN Lower : T!IsDir(s.upper, q) /\ Lower[q].kind # "dir" => isHidden(s, q)

\* The element that Canonical chooses.
Chosen(S) == CHOOSE x \in S : TRUE

\* A directory has no link target and no inode of its own.
Plain(t) == \A q \in DOMAIN t : t[q].kind = "dir" => t[q] = T!Dir(t[q].attr)

\* A leaf is numbered by the path Canonical chooses for its inode.
Numbered(t) ==
  \A q \in DOMAIN t : t[q].kind # "dir" => t[q].ino = Chosen(T!Links(t, q))

\* The inductive invariant of the overlay.
WellFormed(s) ==
  StateOK(s) /\ Rooted(s) /\ Closed(s) /\ Shadows(s) /\ Plain(s.upper) /\ Numbered(s.upper)

\* A chosen element is an element, and the only one of a singleton.
LEMMA ChosenIn ==
  /\ \A S, x : x \in S => Chosen(S) \in S
  /\ \A x : Chosen({x}) = x
<1>1. ASSUME NEW S, NEW x \in S PROVE Chosen(S) \in S
  BY Zenon DEF Chosen
<1>2. ASSUME NEW x PROVE Chosen({x}) = x
  BY <1>1
<1> QED BY <1>1, <1>2

\* The lower tree is a closed tree.
LEMMA LowerTree ==
  /\ TreeOK(Lower) /\ DOMAIN Lower \subseteq Path /\ T!IsDir(Lower, <<>>)
  /\ \A q \in DOMAIN Lower : DirsTo(Lower, q)
BY PathsAssumption, LowerAssumption DEF TreeOK, DirsTo, Path

\* What visibleInfo finds at p.
LEMMA VisibleAt ==
  ASSUME NEW s, NEW p
  PROVE  /\ p \in DOMAIN Visible(s) <=> p \in DOMAIN s.upper \/ (p \in DOMAIN Lower /\ ~isHidden(s, p))
         /\ p \in DOMAIN s.upper => Visible(s)[p] = s.upper[p]
         /\ p \in DOMAIN Lower /\ ~isHidden(s, p) /\ p \notin DOMAIN s.upper => Visible(s)[p] = Lower[p]
BY DEF Visible

\* What the view has at p.
LEMMA MergedAt ==
  ASSUME NEW s, NEW p
  PROVE  /\ p \in DOMAIN Merged(s) <=> p \in DOMAIN Visible(s) /\ DirsTo(Visible(s), p)
         /\ p \in DOMAIN Merged(s) => Merged(s)[p] = Visible(s)[p]
BY DEF Merged, DirsTo, T!IsDir

\* What visibleInfo finds are nodes at paths.
LEMMA VisibleTree ==
  ASSUME NEW s, StateOK(s)
  PROVE  TreeOK(Visible(s)) /\ DOMAIN Visible(s) \subseteq Path
<1>1. \A p \in DOMAIN Visible(s) : p \in Path
  BY VisibleAt, LowerTree DEF StateOK
<1>2. ASSUME NEW p \in DOMAIN Visible(s) PROVE Visible(s)[p] \in T!Node
  BY VisibleAt, LowerTree DEF StateOK, TreeOK
<1> QED BY <1>1, <1>2 DEF TreeOK

\* The view has nodes at paths.
LEMMA MergedTree ==
  ASSUME NEW s, StateOK(s)
  PROVE  TreeOK(Merged(s)) /\ DOMAIN Merged(s) \subseteq Path
BY VisibleTree, MergedAt DEF TreeOK

\* What directories of the view lead to is the same in the view and in what
\* visibleInfo finds.
LEMMA MergedAgrees ==
  ASSUME NEW s, StateOK(s)
  PROVE  Agree(Visible(s), Merged(s))
<1> DEFINE v == Visible(s)
           m == Merged(s)
<1> SUFFICES ASSUME NEW q \in Path
             PROVE  /\ DirsTo(v, q) <=> DirsTo(m, q)
                    /\ DirsTo(v, q) => /\ q \in DOMAIN v <=> q \in DOMAIN m
                                       /\ q \in DOMAIN v => v[q] = m[q]
  BY DEF Agree
<1>1. ASSUME DirsTo(m, q) PROVE DirsTo(v, q)
  BY <1>1, MergedAt DEF DirsTo, T!IsDir
<1>2. ASSUME DirsTo(v, q) PROVE DirsTo(m, q)
  <2> SUFFICES ASSUME NEW r \in Ancestors(q) PROVE T!IsDir(m, r)
    BY DEF DirsTo
  <2>1. T!IsDir(v, r)
    BY <1>2 DEF DirsTo
  <2>2. DirsTo(v, r)
    BY <1>2, AncestorTrans DEF DirsTo
  <2> QED BY <2>1, <2>2, MergedAt DEF T!IsDir
<1> QED BY <1>1, <1>2, MergedAt

\* resolveMerged resolves a path as one tree with the entries of the view would.
LEMMA ResolvesTheView ==
  ASSUME NEW s, StateOK(s), NEW p \in Path, NEW follow \in BOOLEAN, NEW missing \in BOOLEAN
  PROVE  resolveMerged(s, p, follow, missing) = T!Walk(Merged(s), p, follow, missing)
BY MergedAgrees, VisibleTree, WalkAgrees DEF resolveMerged

\* Everything of the upper tree is in the view as it is.
LEMMA UpperInView ==
  ASSUME NEW s, WellFormed(s), NEW q \in DOMAIN s.upper
  PROVE  q \in Path /\ q \in DOMAIN Merged(s) /\ Merged(s)[q] = s.upper[q]
<1>1. DirsTo(Visible(s), q)
  BY VisibleAt DEF WellFormed, Closed, DirsTo, T!IsDir
<1> QED BY <1>1, VisibleAt, MergedAt DEF WellFormed, StateOK

\* The root of the view is a directory.
LEMMA RootInView ==
  ASSUME NEW s, WellFormed(s)
  PROVE  T!IsDir(Merged(s), <<>>)
BY UpperInView DEF WellFormed, Rooted, T!IsDir

\* What is below a hidden path is hidden.
LEMMA HiddenBelow ==
  ASSUME NEW s, NEW p \in Path, NEW q, q \in Ancestors(p) \/ q = <<>>, isHidden(s, q)
  PROVE  isHidden(s, p)
<1>1. PICK r \in Ancestors(q) \cup {q, <<>>} : r \in s.tomb
  BY DEF isHidden
<1>2. CASE q = <<>>
  BY <1>1, <1>2, AncestorsOfRoot DEF isHidden
<1>3. CASE q \in Ancestors(p)
  BY <1>1, <1>3, AncestorTrans DEF isHidden
<1> QED BY <1>2, <1>3

\* A directory of the view that no tombstone hides is one of the lower tree, if
\* the lower tree has anything there.
LEMMA DirsBelow ==
  ASSUME NEW s, WellFormed(s), NEW q, T!IsDir(Visible(s), q), q \in DOMAIN Lower, ~isHidden(s, q)
  PROVE  T!IsDir(Lower, q)
BY VisibleAt DEF WellFormed, Shadows, T!IsDir

\* Lstat of a path the lower tree has.
LEMMA LowerFinds ==
  ASSUME NEW q \in DOMAIN Lower
  PROVE  LowerLstat(q) = T!Answer("found", q)
<1>1. PICK no \in BOOLEAN : no = FALSE
  OBVIOUS
<1>2. T!Walk(Lower, q, no, no) = T!Answer("found", q)
  BY <1>1, LowerTree, WalkHere
<1> QED BY <1>1, <1>2 DEF LowerLstat

\* Lstat of the lower tree below a directory that only the upper tree has, when no
\* tombstone is on the way: the path does not exist there.
LEMMA LowerFindsNot ==
  ASSUME NEW s, WellFormed(s), NEW q \in Path, T!IsDir(Visible(s), q), DirsTo(Visible(s), q),
         ~isHidden(s, q), ~T!IsDir(Lower, q)
  PROVE  LowerLstat(q) = T!Answer("notExist", <<>>)
<1>0. PICK no \in BOOLEAN : no = FALSE
  OBVIOUS
<1>1. q \notin DOMAIN Lower /\ q # <<>>
  BY DirsBelow, LowerTree
<1>2. CASE DirsTo(Lower, q)
  <2>1. T!Walk(Lower, q, no, no) = T!Answer("notExist", <<>>)
    BY <1>0, <1>1, <1>2, WalkHere
  <2> QED BY <1>0, <2>1 DEF LowerLstat
<1>3. CASE ~DirsTo(Lower, q)
  <2>1. PICK r : FirstStop(Lower, q, r) /\ T!Reached(Lower, q, no, no) = AnswerAbove(Lower, q, r)
    BY <1>3, ReachedAbove
  <2>2. r \in Ancestors(q) /\ ~T!IsDir(Lower, r) /\ T!IsDir(Visible(s), r)
    BY <2>1 DEF FirstStop, DirsTo
  <2>3. ~isHidden(s, r)
    BY <2>2, HiddenBelow
  <2>4. r \notin DOMAIN Lower
    BY <2>2, <2>3, DirsBelow
  <2>5. T!Reached(Lower, q, no, no) = T!Answer("notExist", <<>>)
    BY <2>1, <2>4 DEF AnswerAbove
  <2>6. T!Reached(Lower, q, no, no).err # "link"
    BY <2>5 DEF T!Answer
  <2> QED BY <1>0, <2>5, <2>6, WalkAtOnce DEF LowerLstat
<1> QED BY <1>2, <1>3

-----------------------------------------------------------------------------
\* Listings.

\* The names in a directory.
ChildNames(t, q) == {SX!Last(c) : c \in T!Children(t, q)}

\* A name in a directory is a path in the tree.
LEMMA ChildName ==
  ASSUME NEW t, DOMAIN t \subseteq Path, NEW q \in Path, NEW n
  PROVE  n \in ChildNames(t, q) <=> n \in STRING /\ Append(q, n) \in DOMAIN t
<1>1. ASSUME n \in ChildNames(t, q) PROVE n \in STRING /\ Append(q, n) \in DOMAIN t
  <2>1. PICK c \in DOMAIN t : c # <<>> /\ SX!Front(c) = q /\ n = SX!Last(c)
    BY <1>1, PrefixSame DEF ChildNames, T!Children
  <2> QED BY <2>1, FrontPath
<1>2. ASSUME n \in STRING, Append(q, n) \in DOMAIN t PROVE n \in ChildNames(t, q)
  <2>1. Append(q, n) # <<>> /\ SX!Front(Append(q, n)) = q /\ SX!Last(Append(q, n)) = n
    BY <1>2, AppendPath
  <2>2. Append(q, n) \in T!Children(t, q)
    BY <1>2, <2>1, PrefixSame DEF T!Children
  <2> QED BY <2>1, <2>2 DEF ChildNames
<1> QED BY <1>1, <1>2

\* ReadDir of one tree, by what its path leads to.
LEMMA ReadDirInNames ==
  ASSUME NEW t, NEW p, NEW w, w = T!Walk(t, p, TRUE, FALSE)
  PROVE  T!ReadDirIn(t, p) =
           IF w.err # "found" \/ ~T!IsDir(t, w.path) THEN [ok |-> FALSE, names |-> {}]
           ELSE [ok |-> TRUE, names |-> ChildNames(t, w.path)]
<1>1. {T!SX!Last(c) : c \in T!Children(t, w.path)} = ChildNames(t, w.path)
  BY PrefixSame DEF ChildNames
<1>2. T!ReadDirIn(t, p) =
           IF w.err # "found" \/ ~T!IsDir(t, w.path) THEN [ok |-> FALSE, names |-> {}]
           ELSE [ok |-> TRUE, names |-> {T!SX!Last(c) : c \in T!Children(t, w.path)}]
  BY Zenon DEF T!ReadDirIn
<1> QED BY <1>1, <1>2

\* ReadDir of a directory that is reached at once.
LEMMA ListsDir ==
  ASSUME NEW t, NEW q \in Path, T!IsDir(t, q), DirsTo(t, q)
  PROVE  T!ReadDirIn(t, q) = [ok |-> TRUE, names |-> ChildNames(t, q)]
<1>1. PICK yes \in BOOLEAN : yes = TRUE
  OBVIOUS
<1>2. PICK no \in BOOLEAN : no = FALSE
  OBVIOUS
<1>3. T!Walk(t, q, yes, no) = T!Answer("found", q)
  BY WalkHere DEF T!IsDir
<1>4. PICK w : w = T!Walk(t, q, TRUE, FALSE)
  OBVIOUS
<1>5. w = T!Answer("found", q)
  BY <1>1, <1>2, <1>3, <1>4, Zenon
<1>6. w.err = "found" /\ w.path = q
  BY <1>5 DEF T!Answer
<1>7. T!ReadDirIn(t, q) =
           IF w.err # "found" \/ ~T!IsDir(t, w.path) THEN [ok |-> FALSE, names |-> {}]
           ELSE [ok |-> TRUE, names |-> ChildNames(t, w.path)]
  BY <1>4, ReadDirInNames, Zenon
<1> QED BY <1>6, <1>7

\* A listing that succeeds shows the children in the view.
LEMMA ListAtView ==
  ASSUME NEW s, WellFormed(s), NEW q \in Path, T!IsDir(Merged(s), q), ListAt(s, q).ok
  PROVE  ListAt(s, q) = [ok |-> TRUE, names |-> ChildNames(Merged(s), q)]
<1> DEFINE low == LowerLstat(q)
           up  == ChildNames(s.upper, q)
           m   == Merged(s)
<1>1. T!IsDir(Visible(s), q) /\ DirsTo(Visible(s), q)
  BY MergedAt DEF T!IsDir
<1>2. DOMAIN s.upper \subseteq Path /\ DOMAIN m \subseteq Path /\ DOMAIN Lower \subseteq Path
  BY MergedTree, LowerTree DEF WellFormed, StateOK
<1>3. up \subseteq ChildNames(m, q)
  BY <1>2, ChildName, UpperInView
<1>4. ASSUME NEW n \in STRING, Append(q, n) \in DOMAIN Lower, ~isHidden(s, Append(q, n))
      PROVE  n \in ChildNames(m, q)
  <2>1. Append(q, n) \in Path /\ Ancestors(Append(q, n)) = Ancestors(q) \cup ({q} \ {<<>>})
    BY AppendPath
  <2>2. DirsTo(Visible(s), Append(q, n))
    BY <1>1, <2>1 DEF DirsTo
  <2>3. Append(q, n) \in DOMAIN m
    BY <1>4, <2>2, VisibleAt, MergedAt
  <2> QED BY <1>2, <2>3, ChildName
<1>5. ASSUME NEW n \in ChildNames(m, q), n \notin up
      PROVE  /\ n \in STRING /\ Append(q, n) \in DOMAIN Lower /\ ~isHidden(s, Append(q, n))
             /\ T!IsDir(Lower, q) /\ ~isHidden(s, q)
  <2>1. n \in STRING /\ Append(q, n) \in DOMAIN m /\ Append(q, n) \notin DOMAIN s.upper
    BY <1>2, <1>5, ChildName
  <2>2. Append(q, n) \in DOMAIN Lower /\ ~isHidden(s, Append(q, n))
    BY <2>1, VisibleAt, MergedAt
  <2>3. Append(q, n) \in Path /\ Ancestors(Append(q, n)) = Ancestors(q) \cup ({q} \ {<<>>})
    BY <2>1, AppendPath
  <2>4. T!IsDir(Lower, q)
    BY <2>2, <2>3, LowerTree DEF DirsTo
  <2>5. ~isHidden(s, q)
    BY <2>2, <2>3, HiddenBelow
  <2> QED BY <2>1, <2>2, <2>4, <2>5
<1>6. ListAt(s, q) = IF low.err = "notExist" \/ q \in s.tomb THEN [ok |-> TRUE, names |-> up]
                     ELSE [ok |-> TRUE, names |-> up \cup LowerNames(s, q)]
  BY DEF ListAt, ChildNames
<1>7. CASE low.err = "notExist" \/ q \in s.tomb
  <2>1. ASSUME NEW n \in ChildNames(m, q), n \notin up PROVE FALSE
    <3>1. q \in DOMAIN Lower /\ q \notin s.tomb
      BY <1>5, <2>1 DEF T!IsDir, isHidden
    <3>2. low = T!Answer("found", q)
      BY <3>1, LowerFinds
    <3> QED BY <1>7, <3>1, <3>2 DEF T!Answer
  <2>2. up = ChildNames(m, q)
    BY <1>3, <2>1
  <2> QED BY <1>6, <1>7, <2>2
<1>8. CASE ~(low.err = "notExist" \/ q \in s.tomb)
  <2>1. ASSUME NEW n \in LowerNames(s, q) PROVE n \in ChildNames(m, q)
    <3>1. n \in T!ReadDirIn(Lower, q).names /\ ~isHidden(s, Append(q, n))
      BY <2>1 DEF LowerNames
    <3>2. ~isHidden(s, q) \/ n \notin STRING
      <4>1. ASSUME n \in STRING PROVE ~isHidden(s, q)
        <5>1. Append(q, n) \in Path /\ (q \in Ancestors(Append(q, n)) \/ q = <<>>)
          BY <4>1, AppendPath
        <5> QED BY <3>1, <5>1, HiddenBelow
      <4> QED BY <4>1
    <3>3. n \in STRING
      <4>0. PICK w : w = T!Walk(Lower, q, TRUE, FALSE)
        OBVIOUS
      <4>3. T!ReadDirIn(Lower, q) =
              IF w.err # "found" \/ ~T!IsDir(Lower, w.path) THEN [ok |-> FALSE, names |-> {}]
              ELSE [ok |-> TRUE, names |-> ChildNames(Lower, w.path)]
        BY <4>0, ReadDirInNames, Zenon
      <4>1. T!ReadDirIn(Lower, q).names \subseteq ChildNames(Lower, w.path)
        BY <4>3
      <4>2. ChildNames(Lower, w.path) \subseteq STRING
        <5>1. \A c \in T!Children(Lower, w.path) : c \in Path /\ c # <<>>
          BY <1>2 DEF T!Children
        <5> QED BY <5>1, FrontPath DEF ChildNames
      <4> QED BY <3>1, <4>1, <4>2
    <3>4. ~isHidden(s, q)
      BY <3>2, <3>3
    <3>5. T!IsDir(Lower, q)
      BY <1>1, <1>8, <3>4, LowerFindsNot DEF T!Answer
    <3>6. T!ReadDirIn(Lower, q).names = ChildNames(Lower, q)
      BY <3>5, LowerTree, ListsDir DEF T!IsDir
    <3>7. Append(q, n) \in DOMAIN Lower
      BY <1>2, <3>1, <3>6, ChildName
    <3> QED BY <1>4, <3>1, <3>3, <3>7
  <2>2. ASSUME NEW n \in ChildNames(m, q), n \notin up PROVE n \in LowerNames(s, q)
    <3>1. /\ n \in STRING /\ Append(q, n) \in DOMAIN Lower /\ ~isHidden(s, Append(q, n))
          /\ T!IsDir(Lower, q)
      BY <1>5, <2>2
    <3>2. T!ReadDirIn(Lower, q).names = ChildNames(Lower, q)
      BY <3>1, LowerTree, ListsDir DEF T!IsDir
    <3>3. n \in ChildNames(Lower, q)
      BY <1>2, <3>1, ChildName
    <3> QED BY <3>1, <3>2, <3>3 DEF LowerNames
  <2>3. up \cup LowerNames(s, q) = ChildNames(m, q)
    BY <1>3, <2>1, <2>2
  <2> QED BY <1>6, <1>8, <2>3
<1> QED BY <1>7, <1>8

\* The lower tree fails the listing only where LowerInTheWay says so.
Obstructed(s, q) ==
  LET low == LowerLstat(q)
  IN /\ q \in DOMAIN s.upper
     /\ \/ low.err \notin {"found", "notExist"}
        \/ low.err = "found" /\ s.upper[q].kind = "dir" /\ q \notin s.tomb /\ ~T!ReadDirIn(Lower, q).ok

\* A directory of the view that is not obstructed can be listed.
LEMMA ListAtSucceeds ==
  ASSUME NEW s, WellFormed(s), NEW q \in Path, T!IsDir(Merged(s), q), ~Obstructed(s, q)
  PROVE  ListAt(s, q).ok
<1> DEFINE low == LowerLstat(q)
<1>1. T!IsDir(Visible(s), q) /\ DirsTo(Visible(s), q)
  BY MergedAt DEF T!IsDir
<1>2. q \in DOMAIN s.upper => s.upper[q].kind = "dir"
  BY <1>1, VisibleAt DEF T!IsDir
<1>3. CASE q \in DOMAIN s.upper
  BY <1>2, <1>3 DEF ListAt, Obstructed
<1>4. CASE q \notin DOMAIN s.upper
  <2>1. q \in DOMAIN Lower /\ ~isHidden(s, q) /\ T!IsDir(Lower, q)
    BY <1>1, <1>4, VisibleAt DEF T!IsDir
  <2>2. low.err = "found"
    BY <2>1, LowerFinds DEF T!Answer
  <2>3. T!ReadDirIn(Lower, q).ok
    BY <2>1, LowerTree, ListsDir
  <2> QED BY <1>4, <2>2, <2>3 DEF ListAt
<1> QED BY <1>3, <1>4

\* Nothing but a directory can be listed.
LEMMA ListsLeafNot ==
  ASSUME NEW s, WellFormed(s), NEW q \in DOMAIN Merged(s), Merged(s)[q].kind \notin {"dir", "link"}
  PROVE  ListAt(s, q) = [ok |-> FALSE, names |-> {}]
<1>1. CASE q \in DOMAIN s.upper
  BY <1>1, MergedAt, VisibleAt DEF ListAt
<1>2. CASE q \notin DOMAIN s.upper
  <2>1. /\ q \in Path /\ q \in DOMAIN Lower /\ ~isHidden(s, q) /\ Lower[q] = Merged(s)[q]
        /\ q \notin s.tomb
    BY <1>2, MergedAt, VisibleAt, LowerTree DEF isHidden
  <2>2. LowerLstat(q) = T!Answer("found", q)
    BY <2>1, LowerFinds
  <2>3. PICK yes \in BOOLEAN : yes = TRUE
    OBVIOUS
  <2>4. PICK no \in BOOLEAN : no = FALSE
    OBVIOUS
  <2>5. T!Walk(Lower, q, yes, no) = T!Answer("found", q)
    BY <2>1, LowerTree, WalkHere
  <2>6. PICK w : w = T!Walk(Lower, q, TRUE, FALSE)
    OBVIOUS
  <2>8. w = T!Answer("found", q)
    BY <2>3, <2>4, <2>5, <2>6, Zenon
  <2>9. T!ReadDirIn(Lower, q) =
          IF w.err # "found" \/ ~T!IsDir(Lower, w.path) THEN [ok |-> FALSE, names |-> {}]
          ELSE [ok |-> TRUE, names |-> ChildNames(Lower, w.path)]
    BY <2>6, ReadDirInNames, Zenon
  <2>7. ~T!ReadDirIn(Lower, q).ok
    BY <2>1, <2>8, <2>9 DEF T!Answer, T!IsDir
  <2> QED BY <1>2, <2>1, <2>2, <2>7 DEF ListAt, T!Answer
<1> QED BY <1>1, <1>2

\* ReadDir of any path, against the view.
LEMMA ReadDirView ==
  ASSUME NEW s, WellFormed(s), NEW p \in Path,
         LET w == T!Walk(Merged(s), p, TRUE, FALSE) IN w.err = "found" /\ ~Obstructed(s, w.path)
  PROVE  ReadDir(s, p) = T!ReadDirIn(Merged(s), p)
<1>1. PICK yes \in BOOLEAN : yes = TRUE
  OBVIOUS
<1>2. PICK no \in BOOLEAN : no = FALSE
  OBVIOUS
<1> DEFINE m == Merged(s)
           w == T!Walk(m, p, yes, no)
           q == w.path
<1>3. StateOK(s) /\ TreeOK(m) /\ DOMAIN m \subseteq Path
  BY MergedTree DEF WellFormed
<1>4. q \in Path /\ (q = <<>> \/ (q \in DOMAIN m /\ ~(m[q].kind = "link" /\ yes)))
  BY <1>1, <1>2, <1>3, WalkAnswers
<1>5. resolveMerged(s, p, yes, no) = w
  BY <1>3, ResolvesTheView
<1> HIDE DEF w, m
<1>6. ReadDir(s, p) = ListAt(s, q)
  BY <1>1, <1>2, <1>5 DEF ReadDir, w, m
<1>7. T!ReadDirIn(m, p) = IF ~T!IsDir(m, q) THEN [ok |-> FALSE, names |-> {}]
                          ELSE [ok |-> TRUE, names |-> ChildNames(m, q)]
  <2>1. w = T!Walk(m, p, TRUE, FALSE)
    BY <1>1, <1>2, Zenon DEF w
  <2>2. T!ReadDirIn(m, p) =
          IF w.err # "found" \/ ~T!IsDir(m, w.path) THEN [ok |-> FALSE, names |-> {}]
          ELSE [ok |-> TRUE, names |-> ChildNames(m, w.path)]
    BY <2>1, ReadDirInNames, Zenon
  <2>3. w.err = "found"
    BY <2>1, Zenon DEF m
  <2> QED BY <2>2, <2>3
<1>8. CASE T!IsDir(m, q)
  <2>1. ListAt(s, q).ok
    BY <1>1, <1>2, <1>4, <1>8, ListAtSucceeds DEF w, m
  <2>2. ListAt(s, q) = [ok |-> TRUE, names |-> ChildNames(m, q)]
    BY <1>4, <1>8, <2>1, ListAtView DEF m
  <2> QED BY <1>6, <1>7, <1>8, <2>2 DEF m
<1>9. CASE ~T!IsDir(m, q)
  <2>1. q \in DOMAIN m /\ m[q].kind \notin {"dir", "link"}
    BY <1>1, <1>4, <1>9, RootInView DEF T!IsDir, m
  <2>2. ListAt(s, q) = [ok |-> FALSE, names |-> {}]
    BY <2>1, ListsLeafNot DEF m
  <2> QED BY <1>6, <1>7, <1>9, <2>2 DEF m
<1> QED BY <1>8, <1>9

-----------------------------------------------------------------------------
\* What a change of the layers does to the view.

\* x is q or below it.
Under(q, x) == x = q \/ q \in Ancestors(x)

\* IsPrefix in terms of ancestors.
LEMMA UnderPrefix ==
  ASSUME NEW q \in Path, NEW x \in Path, q # <<>>
  PROVE  SX!IsPrefix(q, x) <=> Under(q, x)
BY PrefixIsAncestor DEF Under

\* What is below a path under q is under q.
LEMMA UnderAncestor ==
  ASSUME NEW q \in Path, NEW x \in Path, NEW r \in Ancestors(x), Under(q, r)
  PROVE  q \in Ancestors(x) /\ Under(q, x)
BY AncestorTrans DEF Under

\* A node is its four fields.
LEMMA NodeEqual ==
  ASSUME NEW a \in T!Node, NEW b \in T!Node,
         a.kind = b.kind, a.attr = b.attr, a.target = b.target, a.ino = b.ino
  PROVE  a = b
BY DEF T!Node

\* The node of a directory.
LEMMA DirNode ==
  ASSUME NEW attr \in {"seed", "edited", "new"}
  PROVE  /\ T!Dir(attr) \in T!Node
         /\ T!Dir(attr).kind = "dir" /\ T!Dir(attr).attr = attr
         /\ T!Dir(attr).target = <<>> /\ T!Dir(attr).ino = <<>>
<1>1. <<>> \in Seq(STRING)
  OBVIOUS
<1> QED BY <1>1 DEF T!Dir, T!Node

\* The node of a leaf.
LEMMA LeafNode ==
  ASSUME NEW kind \in {"file", "link", "fifo"}, NEW p \in Path, NEW target \in Path,
         NEW attr \in {"seed", "edited", "new"}
  PROVE  /\ T!Leaf(kind, p, target, attr) \in T!Node
         /\ T!Leaf(kind, p, target, attr).kind = kind /\ T!Leaf(kind, p, target, attr).attr = attr
         /\ T!Leaf(kind, p, target, attr).target = target /\ T!Leaf(kind, p, target, attr).ino = p
BY DEF T!Leaf, T!Node, Path

\* The fields of a node.
LEMMA NodeFields ==
  ASSUME NEW a \in T!Node
  PROVE  /\ a.kind \in {"dir", "file", "link", "fifo"} /\ a.attr \in {"seed", "edited", "new"}
         /\ a.target \in Path /\ a.ino \in Path
BY DEF T!Node, Path

\* A node of the lower tree.
LEMMA LowerNode ==
  ASSUME NEW q \in DOMAIN Lower
  PROVE  /\ Lower[q] \in T!Node
         /\ Lower[q].kind = "dir" => Lower[q] = T!Dir(Lower[q].attr)
         /\ Lower[q].kind # "dir" =>
              /\ Lower[q] = T!Leaf(Lower[q].kind, q, Lower[q].target, Lower[q].attr)
              /\ Lower[q].ino = q
<1>1. Lower[q] \in T!Node
  BY LowerAssumption
<1>2. /\ Lower[q].kind = "dir" => Lower[q] = T!Dir(Lower[q].attr)
      /\ Lower[q].kind # "dir" => Lower[q] = T!Leaf(Lower[q].kind, q, Lower[q].target, Lower[q].attr)
  BY LowerAssumption
<1>3. Lower[q].kind # "dir" => Lower[q].ino = q
  BY <1>2 DEF T!Leaf
<1> QED BY <1>1, <1>2, <1>3

\* A change at and below q leaves the directories elsewhere, and those above q.
LEMMA DirsOutside ==
  ASSUME NEW t, NEW u, NEW q \in Path,
         \A x \in Path : ~Under(q, x) => (T!IsDir(t, x) <=> T!IsDir(u, x)),
         NEW x \in Path, q \notin Ancestors(x)
  PROVE  DirsTo(t, x) <=> DirsTo(u, x)
<1>1. \A r \in Ancestors(x) : r \in Path /\ ~Under(q, r)
  BY UnderAncestor, AncestorOf
<1> QED BY <1>1 DEF DirsTo

\* Tombstones at and below q hide nothing elsewhere.
LEMMA HiddenOutside ==
  ASSUME NEW s, NEW z, NEW q \in Path, q # <<>>, s.tomb \subseteq Path, z.tomb \subseteq Path,
         \A r \in Path : ~Under(q, r) => (r \in s.tomb <=> r \in z.tomb),
         NEW x \in Path, ~Under(q, x)
  PROVE  isHidden(s, x) <=> isHidden(z, x)
<1>1. <<>> \in Path /\ ~Under(q, <<>>)
  BY AncestorsOfRoot DEF Under, Path
<1>2. \A r \in Ancestors(x) \cup {x, <<>>} : r \in Path /\ ~Under(q, r)
  BY <1>1, UnderAncestor, AncestorOf
<1> QED BY <1>2 DEF isHidden

\* A tree that agrees with what is visible, and no more, is the view.
LEMMA MergedIs ==
  ASSUME NEW s, StateOK(s), NEW t, t = [x \in DOMAIN t |-> t[x]], DOMAIN t \subseteq Path,
         \A x \in Path : x \in DOMAIN t <=> x \in DOMAIN Visible(s) /\ DirsTo(Visible(s), x),
         \A x \in DOMAIN t : t[x] = Visible(s)[x]
  PROVE  Merged(s) = t
<1>1. DOMAIN Merged(s) = DOMAIN t
  BY MergedTree, MergedAt
<1>2. \A x \in DOMAIN t : Merged(s)[x] = t[x]
  BY <1>1, MergedAt
<1>3. Merged(s) = [x \in DOMAIN Merged(s) |-> Merged(s)[x]]
  BY DEF Merged
<1> QED BY <1>1, <1>2, <1>3

\* Hard links are links in the view exactly when they are in the upper tree.
LEMMA LinksInView ==
  ASSUME NEW s, WellFormed(s), NEW q \in DOMAIN Merged(s), Merged(s)[q].kind # "dir"
  PROVE  /\ q \in DOMAIN s.upper => T!Links(Merged(s), q) = T!Links(s.upper, q)
         /\ q \notin DOMAIN s.upper => T!Links(Merged(s), q) = {q}
<1> DEFINE m == Merged(s)
<1>1. ASSUME NEW x \in DOMAIN s.upper, s.upper[x].kind # "dir" PROVE s.upper[x].ino \in DOMAIN s.upper
  <2>1. x \in T!Links(s.upper, x)
    BY <1>1 DEF T!Links
  <2>2. Chosen(T!Links(s.upper, x)) \in T!Links(s.upper, x)
    BY <2>1, ChosenIn
  <2>3. T!Links(s.upper, x) \subseteq DOMAIN s.upper
    BY <1>1 DEF T!Links
  <2> QED BY <1>1, <2>2, <2>3 DEF WellFormed, Numbered
<1>2. \A x \in DOMAIN s.upper : x \in DOMAIN m /\ m[x] = s.upper[x]
  BY UpperInView
<1>3. ASSUME NEW x \in DOMAIN m, x \notin DOMAIN s.upper
      PROVE  x \in DOMAIN Lower /\ m[x] = Lower[x] /\ (m[x].kind # "dir" => m[x].ino = x)
  BY <1>3, MergedAt, VisibleAt, LowerNode
<1> HIDE DEF m
<1>4. T!Links(m, q) = {x \in DOMAIN m : m[x].kind # "dir" /\ m[x].ino = m[q].ino}
  BY DEF T!Links, m
<1>5. CASE q \in DOMAIN s.upper
  <2>1. T!Links(s.upper, q) = {x \in DOMAIN s.upper : s.upper[x].kind # "dir" /\ s.upper[x].ino = s.upper[q].ino}
    BY <1>2, <1>5 DEF T!Links, m
  <2>2. \A x \in DOMAIN m : x \in T!Links(m, q) <=> x \in T!Links(s.upper, q)
    BY <1>1, <1>2, <1>3, <1>4, <1>5, <2>1 DEF m
  <2> QED BY <1>2, <1>4, <1>5, <2>1, <2>2 DEF m
<1>6. CASE q \notin DOMAIN s.upper
  BY <1>1, <1>2, <1>3, <1>4, <1>6 DEF m
<1> QED BY <1>5, <1>6 DEF m

-----------------------------------------------------------------------------
\* Copying up.

\* A path has finitely many ancestors.
LEMMA AncestorsFinite ==
  ASSUME NEW p \in Path
  PROVE  IsFiniteSet(Ancestors(p))
<1> DEFINE S == 1..(Len(p) - 1)
           f == [i \in S |-> SubSeq(p, 1, i)]
<1>1. IsFiniteSet(S)
  <2>1. Len(p) - 1 \in Int /\ 1 \in Int
    BY NonEmptyPath
  <2> QED BY <2>1, FS_Interval
<1>2. f \in Surjection(S, Ancestors(p))
  BY DEF Ancestors, Surjection
<1> QED BY <1>1, <1>2, FS_Surjection

\* The fields of a state.
LEMMA LayersAre ==
  ASSUME NEW u, NEW tb
  PROVE  /\ Layers(u, tb).upper = u /\ Layers(u, tb).tomb = tb
         /\ Layers(u, tb) = Layers(Layers(u, tb).upper, Layers(u, tb).tomb)
BY DEF Layers

\* A leaf of a numbered tree is numbered by a leaf of its own inode.
LEMMA OwnNumber ==
  ASSUME NEW t, Numbered(t), NEW x \in DOMAIN t, t[x].kind # "dir"
  PROVE  /\ T!Links(t, x) = {y \in DOMAIN t : t[y].kind # "dir" /\ t[y].ino = t[x].ino}
         /\ x \in T!Links(t, x) /\ t[x].ino \in T!Links(t, x) /\ t[x].ino \in DOMAIN t
<1>1. T!Links(t, x) = {y \in DOMAIN t : t[y].kind # "dir" /\ t[y].ino = t[x].ino}
  BY DEF T!Links
<1>2. x \in T!Links(t, x)
  BY <1>1
<1>3. Chosen(T!Links(t, x)) \in T!Links(t, x)
  BY <1>2, ChosenIn
<1> QED BY <1>1, <1>2, <1>3 DEF Numbered

\* The entries N of the lower tree, visible and not yet in the upper one.
CopiedUp(s, N) ==
  [x \in DOMAIN s.upper \cup N |-> IF x \in N THEN Lower[x] ELSE s.upper[x]]

\* Copying up visible entries of the lower tree, directories first, changes nothing
\* that a caller can see.
LEMMA CopyUpKeepsTheView ==
  ASSUME NEW s, WellFormed(s), NEW N, N \subseteq DOMAIN Lower, N \cap DOMAIN s.upper = {},
         IsFiniteSet(N), \A x \in N : ~isHidden(s, x) /\ DirsTo(CopiedUp(s, N), x)
  PROVE  /\ WellFormed(WithUpper(s, CopiedUp(s, N)))
         /\ Visible(WithUpper(s, CopiedUp(s, N))) = Visible(s)
         /\ Merged(WithUpper(s, CopiedUp(s, N))) = Merged(s)
<1> DEFINE u == CopiedUp(s, N)
           a == WithUpper(s, u)
<1>0. /\ s.upper \in [DOMAIN s.upper -> T!Node] /\ DOMAIN s.upper \subseteq Path
      /\ IsFiniteSet(DOMAIN s.upper) /\ s.tomb \subseteq Path
      /\ Plain(s.upper) /\ Numbered(s.upper)
  BY DEF WellFormed, StateOK
<1>1. a.upper = u /\ a.tomb = s.tomb /\ a = Layers(a.upper, a.tomb)
  BY LayersAre DEF WithUpper
<1>2. /\ DOMAIN u = DOMAIN s.upper \cup N
      /\ \A x \in N : u[x] = Lower[x]
      /\ \A x \in DOMAIN s.upper : u[x] = s.upper[x]
  BY DEF CopiedUp
<1>3. \A x \in N : x \in Path /\ Lower[x] \in T!Node /\ (Lower[x].kind # "dir" => Lower[x].ino = x)
                   /\ (Lower[x].kind = "dir" => Lower[x] = T!Dir(Lower[x].attr))
  BY LowerTree, LowerNode
<1>4. u \in [DOMAIN u -> T!Node] /\ DOMAIN u \subseteq Path
  <2>1. u = [x \in DOMAIN u |-> u[x]]
    BY DEF CopiedUp
  <2>2. \A x \in DOMAIN u : u[x] \in T!Node
    BY <1>0, <1>2, <1>3
  <2>3. DOMAIN u \subseteq Path
    BY <1>0, <1>2, <1>3
  <2> HIDE DEF u
  <2> QED BY <2>1, <2>2, <2>3
<1> HIDE DEF u
<1>5. IsFiniteSet(DOMAIN u)
  <2>1. IsFiniteSet(DOMAIN s.upper \cup N)
    BY <1>0, FS_Union, Zenon
  <2> QED BY <1>2, <2>1
<1>6. \A x \in Path : isHidden(a, x) <=> isHidden(s, x)
  BY <1>1 DEF isHidden
<1>7. StateOK(a)
  BY <1>0, <1>1, <1>4, <1>5 DEF StateOK
<1>8. Rooted(a)
  BY <1>1, <1>2 DEF WellFormed, Rooted, T!IsDir
<1>9. Closed(a)
  <2>1. \A x \in DOMAIN s.upper : DirsTo(u, x)
    BY <1>2 DEF WellFormed, Closed, DirsTo, T!IsDir
  <2>2. \A x \in N : DirsTo(u, x)
    BY DEF u
  <2> QED BY <1>1, <1>2, <2>1, <2>2 DEF Closed
<1>10. Shadows(a)
  <2> SUFFICES ASSUME NEW q \in DOMAIN Lower, T!IsDir(u, q), Lower[q].kind # "dir" PROVE isHidden(a, q)
    BY <1>1 DEF Shadows
  <2>1. q \in DOMAIN s.upper /\ T!IsDir(s.upper, q)
    BY <1>2 DEF T!IsDir
  <2> QED BY <1>6, <2>1, LowerTree DEF WellFormed, Shadows
<1>11. Plain(u)
  BY <1>0, <1>2, <1>3 DEF Plain
<1>12. Numbered(u)
  <2> SUFFICES ASSUME NEW q \in DOMAIN u, u[q].kind # "dir"
               PROVE  u[q].ino = Chosen(T!Links(u, q))
    BY DEF Numbered
  <2>1. T!Links(u, q) = {y \in DOMAIN u : u[y].kind # "dir" /\ u[y].ino = u[q].ino}
    BY DEF T!Links
  <2>2. \A x \in DOMAIN s.upper : s.upper[x].kind # "dir" => s.upper[x].ino \in DOMAIN s.upper
    BY <1>0, OwnNumber
  <2>3. CASE q \in N
    <3>1. T!Links(u, q) = {q}
      BY <1>2, <1>3, <2>1, <2>2, <2>3
    <3> QED BY <1>2, <1>3, <2>3, <3>1, ChosenIn
  <2>4. CASE q \in DOMAIN s.upper
    <3>1. T!Links(s.upper, q) = {y \in DOMAIN s.upper : s.upper[y].kind # "dir" /\ s.upper[y].ino = s.upper[q].ino}
      BY <1>0, <1>2, <2>4, OwnNumber
    <3>2. T!Links(u, q) = T!Links(s.upper, q)
      BY <1>2, <1>3, <2>1, <2>2, <2>4, <3>1
    <3> QED BY <1>0, <1>2, <2>4, <3>2 DEF Numbered
  <2> QED BY <1>2, <2>3, <2>4
<1>13. WellFormed(a)
  BY <1>1, <1>7, <1>8, <1>9, <1>10, <1>11, <1>12 DEF WellFormed
<1>14. Visible(a) = Visible(s)
  <2> DEFINE v == Visible(a)
             w == Visible(s)
  <2>1. DOMAIN v = DOMAIN w
    BY <1>1, <1>2, <1>6, VisibleAt, LowerTree
  <2>2. \A x \in DOMAIN v : v[x] = w[x]
    BY <1>1, <1>2, <1>6, <2>1, VisibleAt, LowerTree
  <2>3. v = [x \in DOMAIN v |-> v[x]] /\ w = [x \in DOMAIN w |-> w[x]]
    BY DEF Visible
  <2> HIDE DEF v, w
  <2>4. v = w
    BY <2>1, <2>2, <2>3
  <2> QED BY <2>4 DEF v, w
<1>15. Merged(a) = Merged(s)
  BY <1>14 DEF Merged
<1> QED BY <1>13, <1>14, <1>15 DEF u

\* copyUpAncestors: the caller sees no change, and directories of the upper tree lead
\* to the path.
LEMMA CopyUpAncestorsKeepsTheView ==
  ASSUME NEW s, WellFormed(s), NEW p \in Path, DirsTo(Visible(s), p)
  PROVE  LET a == CopyUpAncestors(s, p) IN
         /\ WellFormed(a) /\ Visible(a) = Visible(s) /\ Merged(a) = Merged(s)
         /\ DirsTo(a.upper, p) /\ a.tomb = s.tomb /\ DOMAIN a.upper = DOMAIN s.upper \cup Ancestors(p)
         /\ \A q \in DOMAIN s.upper : a.upper[q] = s.upper[q]
<1> DEFINE N == Ancestors(p) \ DOMAIN s.upper
           u == CopiedUp(s, N)
           a == CopyUpAncestors(s, p)
<1>1. ASSUME NEW x \in N
      PROVE  /\ x \in Path /\ x \in DOMAIN Lower /\ ~isHidden(s, x) /\ Lower[x].kind = "dir"
             /\ Lower[x] = T!Dir(Lower[x].attr)
  <2>1. T!IsDir(Visible(s), x) /\ x \notin DOMAIN s.upper /\ x \in Path
    BY AncestorOf DEF DirsTo
  <2>2. x \in DOMAIN Lower /\ ~isHidden(s, x) /\ Lower[x].kind = "dir"
    BY <2>1, VisibleAt DEF T!IsDir
  <2> QED BY <2>1, <2>2, LowerNode
<1>2. a = WithUpper(s, u)
  <2>1. u = [q \in DOMAIN s.upper \cup N |-> IF q \in N THEN T!Dir(Lower[q].attr) ELSE s.upper[q]]
    BY <1>1 DEF CopiedUp
  <2> QED BY <2>1, Zenon DEF CopyUpAncestors
<1>3. /\ DOMAIN u = DOMAIN s.upper \cup Ancestors(p)
      /\ \A x \in N : u[x] = Lower[x]
      /\ \A x \in DOMAIN s.upper : u[x] = s.upper[x]
  BY DEF CopiedUp
<1>4. DirsTo(u, p)
  <2> SUFFICES ASSUME NEW x \in Ancestors(p) PROVE T!IsDir(u, x)
    BY DEF DirsTo
  <2>1. CASE x \in N
    BY <1>1, <1>3, <2>1 DEF T!IsDir
  <2>2. CASE x \in DOMAIN s.upper
    <3>1. T!IsDir(Visible(s), x)
      BY DEF DirsTo
    <3> QED BY <1>3, <2>2, <3>1, VisibleAt DEF T!IsDir
  <2> QED BY <2>1, <2>2
<1>5. N \subseteq DOMAIN Lower /\ N \cap DOMAIN s.upper = {}
  BY <1>1
<1>6. IsFiniteSet(N)
  BY AncestorsFinite, FS_Difference
<1>7. \A x \in N : ~isHidden(s, x) /\ DirsTo(u, x)
  BY <1>1, <1>4, AncestorTrans DEF DirsTo
<1>8. WellFormed(a) /\ Visible(a) = Visible(s) /\ Merged(a) = Merged(s)
  BY <1>2, <1>5, <1>6, <1>7, CopyUpKeepsTheView
<1>9. a.upper = u /\ a.tomb = s.tomb
  BY <1>2, LayersAre DEF WithUpper
<1> QED BY <1>3, <1>4, <1>8, <1>9

\* A tree with one node put in.
LEMMA PutAt ==
  ASSUME NEW t, NEW q, NEW node
  PROVE  /\ DOMAIN T!Put(t, q, node) = DOMAIN t \cup {q}
         /\ T!Put(t, q, node)[q] = node
         /\ \A x \in DOMAIN t : x # q => T!Put(t, q, node)[x] = t[x]
         /\ T!Put(t, q, node) = [x \in DOMAIN T!Put(t, q, node) |-> T!Put(t, q, node)[x]]
BY DEF T!Put

\* Copying one visible entry up: the caller sees no change.
LEMMA InUpperKeepsTheView ==
  ASSUME NEW s, WellFormed(s), NEW p \in DOMAIN Merged(s)
  PROVE  LET a == InUpper(s, p) IN
         /\ WellFormed(a) /\ Visible(a) = Visible(s) /\ Merged(a) = Merged(s)
         /\ p \in DOMAIN a.upper /\ DirsTo(a.upper, p) /\ a.upper[p] = Merged(s)[p] /\ a.tomb = s.tomb
         /\ \A q \in DOMAIN s.upper : q \in DOMAIN a.upper /\ a.upper[q] = s.upper[q]
<1>1. p \in Path /\ DirsTo(Visible(s), p) /\ p \in DOMAIN Visible(s) /\ Merged(s)[p] = Visible(s)[p]
  BY MergedAt, MergedTree DEF WellFormed
<1>2. CASE p \in DOMAIN s.upper
  <2>1. InUpper(s, p) = s
    BY <1>2 DEF InUpper
  <2>2. DirsTo(s.upper, p)
    BY <1>2 DEF WellFormed, Closed
  <2> QED BY <1>2, <2>1, <2>2, UpperInView
<1>3. CASE p \notin DOMAIN s.upper
  <2> DEFINE a == CopyUpAncestors(s, p)
             N == {p}
             u == CopiedUp(a, N)
             b == WithUpper(a, u)
  <2>1. /\ WellFormed(a) /\ Visible(a) = Visible(s) /\ Merged(a) = Merged(s)
        /\ DirsTo(a.upper, p) /\ a.tomb = s.tomb /\ DOMAIN a.upper = DOMAIN s.upper \cup Ancestors(p)
        /\ \A q \in DOMAIN s.upper : a.upper[q] = s.upper[q]
    BY <1>1, CopyUpAncestorsKeepsTheView
  <2>2. p \in DOMAIN Lower /\ ~isHidden(s, p) /\ Visible(s)[p] = Lower[p]
    BY <1>1, <1>3, VisibleAt
  <2>3. p \notin Ancestors(p)
    BY <1>1, AncestorOf
  <2>4. ~isHidden(a, p) /\ p \notin DOMAIN a.upper
    BY <1>3, <2>1, <2>2, <2>3 DEF isHidden
  <2>5. u = T!Put(a.upper, p, Lower[p])
    BY <2>4 DEF CopiedUp, T!Put
  <2>6. CopyUpNode(s, p) = b
    <3>1. CASE Lower[p].kind = "dir"
      <4>1. Lower[p] = T!Dir(Lower[p].attr)
        BY <2>2, <3>1, LowerNode
      <4> QED BY <2>5, <3>1, <4>1, Zenon DEF CopyUpNode
    <3>2. CASE Lower[p].kind # "dir"
      <4>1. Lower[p] = T!Leaf(Lower[p].kind, p, Lower[p].target, Lower[p].attr)
        BY <2>2, <3>2, LowerNode
      <4> QED BY <2>5, <3>2, <4>1, Zenon DEF CopyUpNode, CopyUpLowerEntry
    <3> QED BY <3>1, <3>2
  <2>7. InUpper(s, p) = b
    BY <1>3, <2>6 DEF InUpper
  <2>8. /\ DOMAIN u = DOMAIN a.upper \cup {p} /\ u[p] = Lower[p]
        /\ \A x \in DOMAIN a.upper : u[x] = a.upper[x]
    BY <2>4 DEF CopiedUp
  <2>9. b.upper = u /\ b.tomb = s.tomb
    BY <2>1, LayersAre DEF WithUpper
  <2> HIDE DEF a, u
  <2>10. DirsTo(u, p)
    BY <2>1, <2>8 DEF DirsTo, T!IsDir
  <2>11. N \subseteq DOMAIN Lower /\ N \cap DOMAIN a.upper = {} /\ IsFiniteSet(N)
    BY <2>2, <2>4, FS_Singleton
  <2>12. \A x \in N : ~isHidden(a, x) /\ DirsTo(CopiedUp(a, N), x)
    BY <2>4, <2>10 DEF u
  <2>13. WellFormed(b) /\ Visible(b) = Visible(a) /\ Merged(b) = Merged(a)
    BY <2>1, <2>11, <2>12, CopyUpKeepsTheView DEF u
  <2>14. /\ p \in DOMAIN b.upper /\ b.upper[p] = Merged(s)[p] /\ DirsTo(b.upper, p)
         /\ \A q \in DOMAIN s.upper : q \in DOMAIN b.upper /\ b.upper[q] = s.upper[q]
    BY <1>1, <2>1, <2>2, <2>8, <2>9, <2>10
  <2>15. WellFormed(b) /\ Visible(b) = Visible(s) /\ Merged(b) = Merged(s) /\ b.tomb = s.tomb
    BY <2>1, <2>9, <2>13
  <2> HIDE DEF b
  <2> QED BY <2>7, <2>14, <2>15
<1> QED BY <1>2, <1>3

-----------------------------------------------------------------------------
\* Changes of the upper tree.

\* The upper tree has nothing below a path it does not have.
LEMMA NothingUnder ==
  ASSUME NEW s, WellFormed(s), NEW q \in Path, q \notin DOMAIN s.upper, NEW x \in DOMAIN s.upper
  PROVE  ~Under(q, x)
BY DEF WellFormed, Closed, DirsTo, T!IsDir, Under

\* The tree t with the nodes of u in place of its own.
Laid(t, D, u) == [x \in D |-> IF x \in DOMAIN u THEN u[x] ELSE t[x]]

\* A tree with the entries and the kinds of the upper one in its place.
LEMMA SameShape ==
  ASSUME NEW s, WellFormed(s), NEW u, u \in [DOMAIN s.upper -> T!Node],
         \A x \in DOMAIN s.upper : u[x].kind = s.upper[x].kind, Plain(u), Numbered(u)
  PROVE  LET z == WithUpper(s, u) IN
         /\ WellFormed(z)
         /\ Merged(z) = Laid(Merged(s), DOMAIN Merged(s), u)
<1> DEFINE z == WithUpper(s, u)
           m == Laid(Merged(s), DOMAIN Merged(s), u)
           v == Visible(s)
           w == Visible(z)
<1>1. z.upper = u /\ z.tomb = s.tomb /\ z = Layers(z.upper, z.tomb) /\ DOMAIN u = DOMAIN s.upper
  BY LayersAre DEF WithUpper
<1>2. StateOK(z)
  BY <1>1 DEF WellFormed, StateOK
<1>3. \A x \in Path : isHidden(z, x) <=> isHidden(s, x)
  BY <1>1 DEF isHidden
<1>4. \A x : T!IsDir(u, x) <=> T!IsDir(s.upper, x)
  BY <1>1 DEF T!IsDir
<1> HIDE DEF z
<1>5. WellFormed(z)
  <2>1. Rooted(z)
    BY <1>1, <1>4 DEF WellFormed, Rooted
  <2>2. Closed(z)
    BY <1>1, <1>4 DEF WellFormed, Closed, DirsTo
  <2>3. Shadows(z)
    BY <1>1, <1>3, <1>4, LowerTree DEF WellFormed, Shadows
  <2> QED BY <1>1, <1>2, <2>1, <2>2, <2>3 DEF WellFormed
<1>6. \A x \in Path : /\ x \in DOMAIN w <=> x \in DOMAIN v
                      /\ x \in DOMAIN v => w[x] = IF x \in DOMAIN u THEN u[x] ELSE v[x]
                      /\ T!IsDir(w, x) <=> T!IsDir(v, x)
  BY <1>1, <1>3, VisibleAt DEF T!IsDir
<1>7. \A x \in Path : DirsTo(w, x) <=> DirsTo(v, x)
  BY <1>6, AncestorOf DEF DirsTo
<1>8. DOMAIN Merged(s) \subseteq Path
  BY MergedTree DEF WellFormed
<1>9. \A x \in Path : x \in DOMAIN m <=> x \in DOMAIN w /\ DirsTo(w, x)
  BY <1>6, <1>7, MergedAt DEF Laid
<1>10. \A x \in DOMAIN m : m[x] = w[x]
  BY <1>6, <1>8, MergedAt DEF Laid
<1>11. m = [x \in DOMAIN m |-> m[x]] /\ DOMAIN m \subseteq Path
  BY <1>8 DEF Laid
<1>12. Merged(z) = m
  <2> HIDE DEF m
  <2> QED BY <1>2, <1>9, <1>10, <1>11, MergedIs
<1> QED BY <1>5, <1>12 DEF z

\* A new leaf at a path the view does not have.  Tombstones at the path and
\* below it may be dropped: nothing below a leaf is reached.
FreeAt(s, q, tb) ==
  /\ WellFormed(s) /\ q \in Path /\ q # <<>> /\ q \notin DOMAIN Visible(s) /\ DirsTo(s.upper, q)
  /\ tb \subseteq s.tomb /\ \A r \in s.tomb : r \in tb \/ Under(q, r)

\* The upper tree u has the entries of s and a leaf at q.
LeafAdded(s, q, u) ==
  /\ u \in [DOMAIN s.upper \cup {q} -> T!Node] /\ u[q].kind # "dir"
  /\ \A x \in DOMAIN s.upper : u[x].kind = s.upper[x].kind
  /\ Plain(u) /\ Numbered(u)

\* A new leaf in the upper tree is a new leaf of the view, and nothing of the lower
\* tree comes back below it.
LEMMA AddLeaf ==
  ASSUME NEW s, NEW q, NEW tb, FreeAt(s, q, tb), NEW u, LeafAdded(s, q, u)
  PROVE  LET z == Layers(u, tb) IN
         /\ WellFormed(z)
         /\ Merged(z) = Laid(Merged(s), DOMAIN Merged(s) \cup {q}, u)
<1> DEFINE z == Layers(u, tb)
           m == Laid(Merged(s), DOMAIN Merged(s) \cup {q}, u)
           v == Visible(s)
           w == Visible(z)
<1>0. /\ WellFormed(s) /\ q \in Path /\ q # <<>> /\ q \notin DOMAIN Visible(s) /\ DirsTo(s.upper, q)
      /\ tb \subseteq s.tomb /\ \A r \in s.tomb : r \in tb \/ Under(q, r)
      /\ u \in [DOMAIN s.upper \cup {q} -> T!Node] /\ u[q].kind # "dir"
      /\ \A x \in DOMAIN s.upper : u[x].kind = s.upper[x].kind
      /\ Plain(u) /\ Numbered(u)
  BY DEF FreeAt, LeafAdded
<1> USE <1>0
<1>1. z.upper = u /\ z.tomb = tb /\ z = Layers(z.upper, z.tomb) /\ DOMAIN u = DOMAIN s.upper \cup {q}
  BY LayersAre
<1> HIDE DEF z
<1>2. q \notin DOMAIN s.upper /\ \A x \in DOMAIN s.upper : x \in Path /\ ~Under(q, x)
  BY VisibleAt, NothingUnder DEF WellFormed, StateOK
<1>3. StateOK(z)
  <2>1. IsFiniteSet(DOMAIN s.upper \cup {q})
    BY FS_AddElement DEF WellFormed, StateOK
  <2> QED BY <1>1, <2>1 DEF WellFormed, StateOK
<1>4. \A x \in Path : ~Under(q, x) => (isHidden(z, x) <=> isHidden(s, x))
  <2>1. s.tomb \subseteq Path /\ z.tomb \subseteq Path
    BY <1>1 DEF WellFormed, StateOK
  <2>2. \A r \in Path : ~Under(q, r) => (r \in s.tomb <=> r \in z.tomb)
    BY <1>1
  <2> QED BY <2>1, <2>2, HiddenOutside
<1>5. \A x : T!IsDir(u, x) <=> T!IsDir(s.upper, x)
  BY <1>1, <1>2 DEF T!IsDir
<1>6. WellFormed(z)
  <2>1. Rooted(z)
    BY <1>1, <1>5 DEF WellFormed, Rooted
  <2>2. Closed(z)
    BY <1>1, <1>5 DEF WellFormed, Closed, DirsTo
  <2>3. Shadows(z)
    <3> SUFFICES ASSUME NEW x \in DOMAIN Lower, T!IsDir(z.upper, x), Lower[x].kind # "dir"
                 PROVE  isHidden(z, x)
      BY DEF Shadows
    <3>1. T!IsDir(s.upper, x)
      BY <1>1, <1>5
    <3>2. ~Under(q, x) /\ x \in Path
      BY <1>2, <3>1 DEF T!IsDir
    <3> QED BY <1>4, <3>1, <3>2 DEF WellFormed, Shadows
  <2> QED BY <1>1, <1>3, <2>1, <2>2, <2>3 DEF WellFormed
<1>7. \A x \in Path : ~Under(q, x) => /\ x \in DOMAIN w <=> x \in DOMAIN v
                                      /\ x \in DOMAIN v => w[x] = IF x \in DOMAIN u THEN u[x] ELSE v[x]
                                      /\ T!IsDir(w, x) <=> T!IsDir(v, x)
  <2> SUFFICES ASSUME NEW x \in Path, ~Under(q, x)
               PROVE  /\ x \in DOMAIN w <=> x \in DOMAIN v
                      /\ x \in DOMAIN v => w[x] = IF x \in DOMAIN u THEN u[x] ELSE v[x]
                      /\ T!IsDir(w, x) <=> T!IsDir(v, x)
    OBVIOUS
  <2>1. x # q /\ (x \in DOMAIN u <=> x \in DOMAIN s.upper) /\ (isHidden(z, x) <=> isHidden(s, x))
    BY <1>1, <1>4 DEF Under
  <2> QED BY <1>1, <2>1, VisibleAt DEF T!IsDir
<1>8. q \in DOMAIN w /\ w[q] = u[q] /\ ~T!IsDir(w, q) /\ ~T!IsDir(v, q)
  BY <1>1, VisibleAt DEF T!IsDir
<1>9. \A x \in Path : q \notin Ancestors(x) => (DirsTo(w, x) <=> DirsTo(v, x))
  BY <1>7, DirsOutside
<1>10. \A x \in Path : q \in Ancestors(x) => ~DirsTo(w, x) /\ ~DirsTo(v, x)
  BY <1>8 DEF DirsTo
<1>11. DirsTo(w, q)
  <2>1. q \notin Ancestors(q)
    BY AncestorOf
  <2>2. DirsTo(v, q)
    BY VisibleAt DEF DirsTo, T!IsDir
  <2> QED BY <1>9, <2>1, <2>2
<1>12. DOMAIN Merged(s) \subseteq Path /\ q \notin DOMAIN Merged(s)
  BY MergedTree, MergedAt DEF WellFormed
<1>13. \A x \in Path : x \in DOMAIN m <=> x \in DOMAIN w /\ DirsTo(w, x)
  <2> SUFFICES ASSUME NEW x \in Path PROVE x \in DOMAIN m <=> x \in DOMAIN w /\ DirsTo(w, x)
    OBVIOUS
  <2>1. CASE x = q
    BY <1>8, <1>11, <2>1 DEF Laid
  <2>2. CASE x # q /\ q \in Ancestors(x)
    BY <1>10, <2>2, MergedAt DEF Laid
  <2>3. CASE x # q /\ q \notin Ancestors(x)
    BY <1>7, <1>9, <2>3, MergedAt DEF Under, Laid
  <2> QED BY <2>1, <2>2, <2>3
<1>14. ASSUME NEW x \in DOMAIN m PROVE m[x] = w[x]
  <2>1. CASE x = q
    BY <1>1, <1>8, <2>1 DEF Laid
  <2>2. CASE x # q
    <3>1. x \in DOMAIN Merged(s) /\ x \in Path /\ x \in DOMAIN v /\ DirsTo(v, x) /\ Merged(s)[x] = v[x]
      BY <1>12, <2>2, MergedAt DEF Laid
    <3>2. ~Under(q, x)
      BY <1>10, <2>2, <3>1 DEF Under
    <3> QED BY <1>7, <2>2, <3>1, <3>2 DEF Laid
  <2> QED BY <2>1, <2>2
<1>15. m = [x \in DOMAIN m |-> m[x]] /\ DOMAIN m \subseteq Path
  BY <1>12 DEF Laid
<1>16. Merged(z) = m
  <2> HIDE DEF m
  <2> QED BY <1>3, <1>13, <1>14, <1>15, MergedIs
<1> QED BY <1>6, <1>16 DEF z

\* A leaf with its own inode put into a numbered tree.
LEMMA PutNumbered ==
  ASSUME NEW t, t \in [DOMAIN t -> T!Node], Plain(t), Numbered(t), NEW q, q \notin DOMAIN t,
         NEW node \in T!Node, node.kind # "dir", node.ino = q
  PROVE  /\ T!Put(t, q, node) \in [DOMAIN t \cup {q} -> T!Node]
         /\ Plain(T!Put(t, q, node)) /\ Numbered(T!Put(t, q, node))
<1> DEFINE u == T!Put(t, q, node)
<1>1. /\ DOMAIN u = DOMAIN t \cup {q} /\ u[q] = node /\ u = [x \in DOMAIN u |-> u[x]]
      /\ \A x \in DOMAIN t : u[x] = t[x]
  BY DEF T!Put
<1>2. \A x \in DOMAIN t : t[x] \in T!Node
  OBVIOUS
<1> HIDE DEF u
<1>3. u \in [DOMAIN t \cup {q} -> T!Node]
  BY <1>1, <1>2
<1>4. Plain(u)
  BY <1>1 DEF Plain
<1>5. Numbered(u)
  <2> SUFFICES ASSUME NEW x \in DOMAIN u, u[x].kind # "dir"
               PROVE  u[x].ino = Chosen(T!Links(u, x))
    BY DEF Numbered
  <2>1. T!Links(u, x) = {y \in DOMAIN u : u[y].kind # "dir" /\ u[y].ino = u[x].ino}
    BY DEF T!Links
  <2>2. \A y \in DOMAIN t : t[y].kind # "dir" => t[y].ino \in DOMAIN t
    BY OwnNumber
  <2>3. CASE x = q
    <3>1. T!Links(u, x) = {q}
      BY <1>1, <2>1, <2>2, <2>3
    <3> QED BY <1>1, <2>3, <3>1, ChosenIn
  <2>4. CASE x \in DOMAIN t
    <3>1. T!Links(t, x) = {y \in DOMAIN t : t[y].kind # "dir" /\ t[y].ino = t[x].ino}
      BY <1>1, <2>4, OwnNumber
    <3>2. T!Links(u, x) = T!Links(t, x)
      BY <1>1, <2>1, <2>2, <2>4, <3>1
    <3> QED BY <1>1, <2>4, <3>2 DEF Numbered
  <2> QED BY <1>1, <2>3, <2>4
<1> QED BY <1>3, <1>4, <1>5 DEF u

\* A leaf with its own inode put where the view has nothing.
LEMMA PutLeaf ==
  ASSUME NEW s, NEW q, NEW tb, FreeAt(s, q, tb),
         NEW node, node \in T!Node, node.kind # "dir", node.ino = q
  PROVE  LET z == Layers(T!Put(s.upper, q, node), tb) IN
         WellFormed(z) /\ Merged(z) = T!Put(Merged(s), q, node)
<1> DEFINE u == T!Put(s.upper, q, node)
           z == Layers(u, tb)
<1>1. WellFormed(s) /\ q \notin DOMAIN s.upper /\ q \notin DOMAIN Merged(s)
  BY VisibleAt, MergedAt DEF FreeAt
<1>2. u \in [DOMAIN s.upper \cup {q} -> T!Node] /\ Plain(u) /\ Numbered(u)
  BY <1>1, PutNumbered DEF WellFormed, StateOK
<1>3. DOMAIN u = DOMAIN s.upper \cup {q} /\ u[q] = node /\ \A x \in DOMAIN s.upper : u[x] = s.upper[x]
  BY <1>1 DEF T!Put
<1> HIDE DEF u
<1>4. LeafAdded(s, q, u)
  BY <1>2, <1>3 DEF LeafAdded
<1>5. /\ WellFormed(z)
      /\ Merged(z) = Laid(Merged(s), DOMAIN Merged(s) \cup {q}, u)
  BY <1>4, AddLeaf
<1>6. Laid(Merged(s), DOMAIN Merged(s) \cup {q}, u)
        = T!Put(Merged(s), q, node)
  BY <1>1, <1>3, UpperInView DEF T!Put, Laid
<1> QED BY <1>5, <1>6 DEF u

-----------------------------------------------------------------------------
\* The operations.

\* What resolution of a path against the view tells an operation.
Resolved(s, w, follow, missing) ==
  /\ w = T!Answer(w.err, w.path) /\ w.path \in Path
  /\ w.err \in {"found", "absent", "notExist", "invalid", "loop"}
  /\ w.err = "found" =>
       /\ w.path \in DOMAIN Merged(s) /\ DirsTo(Visible(s), w.path)
       /\ w.path \in DOMAIN Visible(s) /\ Visible(s)[w.path] = Merged(s)[w.path]
       /\ ~(Merged(s)[w.path].kind = "link" /\ follow)
  /\ w.err = "absent" =>
       missing /\ DirsTo(Visible(s), w.path) /\ w.path # <<>>
         /\ w.path \notin DOMAIN Visible(s) /\ w.path \notin DOMAIN Merged(s)

\* The overlay resolves a path to what the view has there.
LEMMA Resolves ==
  ASSUME NEW s, WellFormed(s), NEW p \in Path, NEW follow \in BOOLEAN, NEW missing \in BOOLEAN, NEW w,
         w = T!Walk(Merged(s), p, follow, missing)
  PROVE  resolveMerged(s, p, follow, missing) = w /\ Resolved(s, w, follow, missing)
<1> DEFINE m == Merged(s)
<1>1. StateOK(s) /\ TreeOK(m) /\ Agree(Visible(s), m)
  BY MergedTree, MergedAgrees DEF WellFormed
<1>2. resolveMerged(s, p, follow, missing) = w
  BY <1>1, ResolvesTheView
<1>3. /\ w = T!Answer(w.err, w.path) /\ w.path \in Path
      /\ w.err \in {"found", "absent", "notExist", "invalid", "loop"}
      /\ w.err = "found" =>
           /\ DirsTo(m, w.path)
           /\ w.path = <<>> \/ (w.path \in DOMAIN m /\ ~(m[w.path].kind = "link" /\ follow))
      /\ w.err = "absent" =>
           missing /\ DirsTo(m, w.path) /\ w.path # <<>> /\ w.path \notin DOMAIN m
  BY <1>1, WalkAnswers
<1>4. T!IsDir(m, <<>>)
  BY RootInView
<1>5. w.err = "found" => w.path \in DOMAIN m /\ ~(m[w.path].kind = "link" /\ follow)
  BY <1>3, <1>4 DEF T!IsDir
<1>6. w.path \in DOMAIN m => w.path \in DOMAIN Visible(s) /\ Visible(s)[w.path] = m[w.path]
  BY MergedAt
<1>7. DirsTo(m, w.path) => /\ DirsTo(Visible(s), w.path)
                           /\ w.path \in DOMAIN m <=> w.path \in DOMAIN Visible(s)
  BY <1>1, <1>3 DEF Agree
<1> HIDE DEF m
<1> QED BY <1>2, <1>3, <1>5, <1>6, <1>7 DEF Resolved, m

\* An operation does what it would do on one tree, and leaves the layers in order.
Keeps(o, c) == WellFormed(o.s) /\ Same(o, c)

\* An operation that fails at once.
LEMMA KeepsFailure ==
  ASSUME NEW s, WellFormed(s)
  PROVE  Keeps(Fail(s), T!Outcome(FALSE, Merged(s)))
BY DEF Keeps, Same, Fail, T!Outcome

\* Symlink and Mkfifo of one tree at a path it does not have.
LEMMA CreateInAbsent ==
  ASSUME NEW t, NEW q \in Path, q # <<>>, q \notin DOMAIN t, DirsTo(t, q), NEW kind, NEW target
  PROVE  T!CreateIn(t, q, kind, target) = T!Outcome(TRUE, T!Put(t, q, T!Leaf(kind, q, target, "new")))
<1>1. PICK w : w = T!Walk(t, q, FALSE, TRUE)
  OBVIOUS
<1>2. w = T!Answer("absent", q)
  BY <1>1, WalkHere, Zenon
<1>3. w.err = "absent" /\ w.path = q
  BY <1>2 DEF T!Answer
<1> QED BY <1>1, <1>3, Zenon DEF T!CreateIn

\* Symlink and Mkfifo.
Creates(s, p, kind, target) ==
  LET w == resolveMerged(s, p, FALSE, TRUE)
      a == CopyUpAncestors(s, w.path)
  IN IF w.err # "absent" THEN Fail(s)
     ELSE Created(a, w.path, T!CreateIn(a.upper, w.path, kind, target))

\* Symlink and Mkfifo do to the view what they do to one tree.
LEMMA CreatesInView ==
  ASSUME NEW s, WellFormed(s), NEW p \in Path, NEW kind \in {"link", "fifo"}, NEW target \in Path
  PROVE  Keeps(Creates(s, p, kind, target), T!CreateIn(Merged(s), p, kind, target))
<1>1. PICK w : w = T!Walk(Merged(s), p, FALSE, TRUE)
  OBVIOUS
<1>2. resolveMerged(s, p, FALSE, TRUE) = w /\ Resolved(s, w, FALSE, TRUE)
  BY <1>1, Resolves, Zenon
<1> DEFINE q == w.path
           a == CopyUpAncestors(s, q)
           node == T!Leaf(kind, q, target, "new")
<1>3. T!CreateIn(Merged(s), p, kind, target) =
        IF w.err # "absent" THEN T!Outcome(FALSE, Merged(s)) ELSE T!Outcome(TRUE, T!Put(Merged(s), q, node))
  BY <1>1, Zenon DEF T!CreateIn
<1>4. Creates(s, p, kind, target) =
        IF w.err # "absent" THEN Fail(s) ELSE Created(a, q, T!CreateIn(a.upper, q, kind, target))
  BY <1>2, Zenon DEF Creates
<1>5. CASE w.err # "absent"
  BY <1>3, <1>4, <1>5, KeepsFailure
<1>6. CASE w.err = "absent"
  <2>1. q \in Path /\ q # <<>> /\ q \notin DOMAIN Visible(s) /\ DirsTo(Visible(s), q)
    BY <1>2, <1>6 DEF Resolved
  <2>2. WellFormed(a) /\ Visible(a) = Visible(s) /\ Merged(a) = Merged(s) /\ DirsTo(a.upper, q)
    BY <2>1, CopyUpAncestorsKeepsTheView
  <2>3. q \notin DOMAIN a.upper
    BY <2>1, <2>2, VisibleAt
  <2>4. node \in T!Node /\ node.kind # "dir" /\ node.ino = q
    BY <2>1, LeafNode
  <2> DEFINE u == T!Put(a.upper, q, node)
             tb == {r \in a.tomb : ~SX!IsPrefix(q, r)}
             z == Layers(u, tb)
  <2>5. T!CreateIn(a.upper, q, kind, target) = T!Outcome(TRUE, u)
    <3> HIDE DEF a, q
    <3>1. q \in Path /\ q # <<>> /\ q \notin DOMAIN a.upper /\ DirsTo(a.upper, q)
      BY <2>1, <2>2, <2>3
    <3> QED BY <3>1, CreateInAbsent
  <2>6. Created(a, q, T!CreateIn(a.upper, q, kind, target)) = Done(z)
    BY <2>5 DEF Created, T!Outcome, ClearTombstonesUnder, WithUpper, Layers
  <2>7. a.tomb \subseteq Path
    BY <2>2 DEF WellFormed, StateOK
  <2>8. tb \subseteq a.tomb /\ \A r \in a.tomb : r \in tb \/ Under(q, r)
    BY <2>1, <2>7, UnderPrefix
  <2> HIDE DEF node, tb, a
  <2>11. FreeAt(a, q, tb)
    BY <2>1, <2>2, <2>8 DEF FreeAt
  <2>9. WellFormed(z) /\ Merged(z) = T!Put(Merged(s), q, node)
    BY <2>2, <2>4, <2>11, PutLeaf
  <2>10. Keeps(Done(z), T!Outcome(TRUE, T!Put(Merged(s), q, node)))
    BY <2>9 DEF Keeps, Same, Done, T!Outcome
  <2> QED BY <1>3, <1>4, <1>6, <2>6, <2>10
<1> QED BY <1>5, <1>6

\* Symlink.
LEMMA SymlinkInView ==
  ASSUME NEW s, WellFormed(s), NEW p \in Path, NEW target \in Path
  PROVE  Keeps(SymlinkIn(s, target, p), T!SymlinkIn(Merged(s), target, p))
<1>1. SymlinkIn(s, target, p) = Creates(s, p, "link", target)
  BY Zenon DEF SymlinkIn, Creates, T!SymlinkIn
<1> QED BY <1>1, CreatesInView DEF T!SymlinkIn

\* Mkfifo.
LEMMA MkfifoInView ==
  ASSUME NEW s, WellFormed(s), NEW p \in Path
  PROVE  Keeps(MkfifoIn(s, p), T!MkfifoIn(Merged(s), p))
<1>1. MkfifoIn(s, p) = Creates(s, p, "fifo", <<>>)
  BY Zenon DEF MkfifoIn, Creates, T!MkfifoIn
<1>2. <<>> \in Path
  BY DEF Path
<1> QED BY <1>1, <1>2, CreatesInView DEF T!MkfifoIn

\* A change in place.
LEMMA SetAttrShape ==
  ASSUME NEW t, t \in [DOMAIN t -> T!Node], Plain(t), Numbered(t), NEW p \in DOMAIN t,
         NEW attr \in {"seed", "edited", "new"}
  PROVE  LET u == T!SetAttr(t, p, attr) IN
         /\ u \in [DOMAIN t -> T!Node] /\ Plain(u) /\ Numbered(u)
         /\ \A x \in DOMAIN t : u[x].kind = t[x].kind
<1> DEFINE u == T!SetAttr(t, p, attr)
<1>1. ASSUME NEW x \in DOMAIN t
      PROVE  /\ u[x] \in T!Node /\ u[x].kind = t[x].kind /\ u[x].ino = t[x].ino
             /\ u[x].target = t[x].target
  <2>1. u[x] = IF x \in T!Links(t, p) THEN [t[x] EXCEPT !.attr = attr] ELSE t[x]
    BY DEF T!SetAttr
  <2>2. t[x] \in T!Node
    OBVIOUS
  <2> HIDE DEF u
  <2> QED BY <2>1, <2>2 DEF T!Node
<1>2. DOMAIN u = DOMAIN t /\ u = [x \in DOMAIN u |-> u[x]]
  BY DEF T!SetAttr
<1> HIDE DEF u
<1>3. u \in [DOMAIN t -> T!Node]
  BY <1>1, <1>2
<1>4. Plain(u)
  <2> SUFFICES ASSUME NEW x \in DOMAIN u, u[x].kind = "dir" PROVE u[x] = T!Dir(u[x].attr)
    BY DEF Plain
  <2>1. t[x] = T!Dir(t[x].attr) /\ u[x] \in T!Node /\ t[x].attr \in {"seed", "edited", "new"}
    BY <1>1, <1>2, NodeFields DEF Plain
  <2>2. u[x].target = <<>> /\ u[x].ino = <<>> /\ u[x].attr \in {"seed", "edited", "new"}
    BY <1>1, <1>2, <2>1, DirNode, NodeFields
  <2> QED BY <2>1, <2>2, DirNode, NodeEqual
<1>5. Numbered(u)
  <2>1. ASSUME NEW x \in DOMAIN u, u[x].kind # "dir" PROVE T!Links(u, x) = T!Links(t, x)
    BY <1>1, <1>2, <2>1 DEF T!Links
  <2> QED BY <1>1, <1>2, <2>1 DEF Numbered
<1> QED BY <1>1, <1>3, <1>4, <1>5 DEF u

\* A change in place in the upper tree shows through the same links in the view.
LEMMA ChangedInView ==
  ASSUME NEW s, WellFormed(s), NEW p \in DOMAIN s.upper, NEW attr \in {"seed", "edited", "new"}
  PROVE  LET z == WithUpper(s, T!SetAttr(s.upper, p, attr)) IN
         WellFormed(z) /\ Merged(z) = T!SetAttr(Merged(s), p, attr)
<1> DEFINE u == T!SetAttr(s.upper, p, attr)
           z == WithUpper(s, u)
           m == Merged(s)
<1>1. s.upper \in [DOMAIN s.upper -> T!Node] /\ Plain(s.upper) /\ Numbered(s.upper)
  BY DEF WellFormed, StateOK
<1>2. /\ u \in [DOMAIN s.upper -> T!Node] /\ Plain(u) /\ Numbered(u)
      /\ \A x \in DOMAIN s.upper : u[x].kind = s.upper[x].kind
  BY <1>1, SetAttrShape
<1>3. WellFormed(z) /\ Merged(z) = Laid(m, DOMAIN m, u)
  <2> HIDE DEF u
  <2> QED BY <1>2, SameShape
<1>4. p \in DOMAIN m /\ m[p] = s.upper[p] /\ \A x \in DOMAIN s.upper : x \in DOMAIN m /\ m[x] = s.upper[x]
  BY UpperInView
<1>5. T!Links(m, p) = T!Links(s.upper, p)
  <2>1. CASE m[p].kind = "dir"
    BY <1>4, <2>1 DEF T!Links
  <2>2. CASE m[p].kind # "dir"
    BY <1>4, <2>2, LinksInView
  <2> QED BY <2>1, <2>2
<1>6. T!Links(s.upper, p) \subseteq DOMAIN s.upper
  BY DEF T!Links
<1>7. \A x \in DOMAIN s.upper : u[x] = T!SetAttr(m, p, attr)[x]
  BY <1>4, <1>5 DEF T!SetAttr
<1>8. \A x \in DOMAIN m : x \notin DOMAIN s.upper => T!SetAttr(m, p, attr)[x] = m[x]
  BY <1>5, <1>6 DEF T!SetAttr
<1>9. /\ DOMAIN T!SetAttr(m, p, attr) = DOMAIN m /\ DOMAIN u = DOMAIN s.upper
      /\ T!SetAttr(m, p, attr) = [x \in DOMAIN m |-> T!SetAttr(m, p, attr)[x]]
  BY DEF T!SetAttr
<1> DEFINE c == T!SetAttr(m, p, attr)
<1> HIDE DEF u, c, m
<1>10. Laid(m, DOMAIN m, u) = c
  <2>1. \A x \in DOMAIN m : (IF x \in DOMAIN u THEN u[x] ELSE m[x]) = c[x]
    BY <1>7, <1>8, <1>9 DEF c
  <2>2. c = [x \in DOMAIN m |-> c[x]]
    BY <1>9 DEF c
  <2> QED BY <2>1, <2>2 DEF Laid
<1> QED BY <1>3, <1>10 DEF u, c, m

\* Chmod, Chown, Chtimes and Lchtimes.
LEMMA TouchInView ==
  ASSUME NEW s, WellFormed(s), NEW p \in Path, NEW follow \in BOOLEAN
  PROVE  Keeps(TouchIn(s, p, follow), T!TouchIn(Merged(s), p, follow))
<1>1. PICK w : w = T!Walk(Merged(s), p, follow, FALSE)
  OBVIOUS
<1>2. resolveMerged(s, p, follow, FALSE) = w /\ Resolved(s, w, follow, FALSE)
  BY <1>1, Resolves, Zenon
<1> DEFINE q == w.path
           a == InUpper(s, q)
           m == Merged(s)
<1>3. T!TouchIn(m, p, follow) =
        IF w.err # "found" THEN T!Outcome(FALSE, m)
        ELSE T!Outcome(TRUE, T!SetAttr(m, q, T!Edited(m[q].attr)))
  BY <1>1, Zenon DEF T!TouchIn
<1>4. TouchIn(s, p, follow) = IF w.err # "found" THEN Fail(s) ELSE Upper(a, T!TouchIn(a.upper, q, follow))
  BY <1>2, Zenon DEF TouchIn
<1>5. CASE w.err # "found"
  BY <1>3, <1>4, <1>5, KeepsFailure
<1>6. CASE w.err = "found"
  <2>1. q \in Path /\ q \in DOMAIN m /\ ~(m[q].kind = "link" /\ follow)
    BY <1>2, <1>6 DEF Resolved
  <2>2. /\ WellFormed(a) /\ Merged(a) = m
        /\ q \in DOMAIN a.upper /\ DirsTo(a.upper, q) /\ a.upper[q] = m[q]
    BY <2>1, InUpperKeepsTheView
  <2> HIDE DEF a
  <2>3. PICK x : x = T!Walk(a.upper, q, follow, FALSE)
    OBVIOUS
  <2>4. PICK no \in BOOLEAN : no = FALSE
    OBVIOUS
  <2>5. T!Walk(a.upper, q, follow, no) = T!Answer("found", q)
    BY <2>1, <2>2, WalkHere
  <2>6. x = T!Answer("found", q)
    BY <2>3, <2>4, <2>5, Zenon
  <2>7. x.err = "found" /\ x.path = q
    BY <2>6 DEF T!Answer
  <2> DEFINE attr == T!Edited(m[q].attr)
             u == T!SetAttr(a.upper, q, attr)
             z == WithUpper(a, u)
  <2>8. T!TouchIn(a.upper, q, follow) = T!Outcome(TRUE, u)
    BY <2>2, <2>3, <2>7, Zenon DEF T!TouchIn
  <2>9. Upper(a, T!TouchIn(a.upper, q, follow)) = [ok |-> TRUE, s |-> z]
    BY <2>8 DEF Upper, T!Outcome
  <2>10. attr \in {"seed", "edited", "new"}
    <3>1. m[q] \in T!Node
      BY <2>1, MergedTree DEF WellFormed, TreeOK
    <3> QED BY <3>1, NodeFields DEF T!Edited
  <2> HIDE DEF attr
  <2>11. WellFormed(z) /\ Merged(z) = T!SetAttr(m, q, attr)
    BY <2>2, <2>10, ChangedInView
  <2>12. Keeps([ok |-> TRUE, s |-> z], T!Outcome(TRUE, T!SetAttr(m, q, attr)))
    BY <2>11 DEF Keeps, Same, T!Outcome
  <2> QED BY <1>3, <1>4, <1>6, <2>9, <2>12 DEF attr
<1> QED BY <1>5, <1>6

\* Following the last link or not is the same unless there is one.
LEMMA ReachedFollow ==
  ASSUME NEW t, NEW p \in Path, NEW no \in BOOLEAN, ~no, NEW yes \in BOOLEAN,
         NEW missing \in BOOLEAN
  PROVE  \/ T!Reached(t, p, yes, missing) = T!Reached(t, p, no, missing)
         \/ \A m \in BOOLEAN : T!Reached(t, p, no, m) = T!Answer("found", p)
<1>1. CASE p = <<>>
  BY <1>1, ReachedRoot
<1>2. CASE p # <<>> /\ DirsTo(t, p)
  <2>1. CASE p \in DOMAIN t
    BY <1>2, <2>1, ReachedHere
  <2>2. CASE p \notin DOMAIN t
    BY <1>2, <2>2, ReachedHere
  <2> QED BY <2>1, <2>2
<1>3. CASE ~DirsTo(t, p)
  <2>1. PICK q : FirstStop(t, p, q) /\ T!Reached(t, p, no, missing) = AnswerAbove(t, p, q)
    BY <1>3, ReachedAbove
  <2>2. PICK r : FirstStop(t, p, r) /\ T!Reached(t, p, yes, missing) = AnswerAbove(t, p, r)
    BY <1>3, ReachedAbove
  <2>3. q \in Ancestors(p) /\ r \in Ancestors(p) /\ q \notin Ancestors(r) /\ r \notin Ancestors(q)
    BY <2>1, <2>2 DEF FirstStop, DirsTo
  <2>4. q = r
    BY <2>3, AncestorsOnLine
  <2> QED BY <2>1, <2>2, <2>4
<1> QED BY <1>1, <1>2, <1>3

\* Resolution that does not find the path with its last link kept answers the same
\* when the last link is followed.
LEMMA WalkFollow ==
  ASSUME NEW t, TreeOK(t), NEW p \in Path, NEW no \in BOOLEAN, ~no, NEW yes \in BOOLEAN,
         NEW missing \in BOOLEAN, T!Walk(t, p, no, missing).err # "found"
  PROVE  T!Walk(t, p, yes, missing) = T!Walk(t, p, no, missing)
<1> DEFINE h == T!Hops(t, p, no)
           g == T!Hops(t, p, yes)
           Found(x) == \A m \in BOOLEAN : T!Reached(t, x, no, m) = T!Answer("found", x)
           OK(i) == h[i].path = g[i].path \/ Found(h[i].path)
           Bad == {i \in Nat : ~OK(i)}
<1>1. h[0] = [path |-> p, follow |-> no] /\ \A i \in Nat : h[i + 1] = T!Followed(t, h[i])
  BY HopsStep
<1>2. g[0] = [path |-> p, follow |-> yes] /\ \A i \in Nat : g[i + 1] = T!Followed(t, g[i])
  BY HopsStep
<1>3. \A i \in Nat : /\ h[i] \in [path : Path, follow : BOOLEAN] /\ h[i].follow = no
                     /\ g[i] \in [path : Path, follow : BOOLEAN] /\ g[i].follow = yes
  BY HopsTyped
<1> HIDE DEF h, g
<1>4. OK(0)
  BY <1>1, <1>2
<1>5. ASSUME NEW i \in Nat, OK(i) PROVE OK(i + 1)
  <2>1. PICK x \in Path : x = h[i].path
    BY <1>3
  <2>2. PICK y \in Path : y = g[i].path
    BY <1>3
  <2>3. PICK r : r = T!Reached(t, x, no, no)
    OBVIOUS
  <2>4. PICK z : z = T!Reached(t, y, yes, no)
    OBVIOUS
  <2>5. h[i].follow = no /\ g[i].follow = yes
    BY <1>3
  <2>6. h[i + 1] = IF r.err = "link" THEN [path |-> r.path, follow |-> h[i].follow \/ ~TRUE] ELSE h[i]
    <3>1. h[i + 1] = T!Followed(t, h[i])
      BY <1>1
    <3> QED BY <2>1, <2>3, <2>5, <3>1, Zenon DEF T!Followed
  <2>7. g[i + 1] = IF z.err = "link" THEN [path |-> z.path, follow |-> g[i].follow \/ ~TRUE] ELSE g[i]
    <3>1. g[i + 1] = T!Followed(t, g[i])
      BY <1>2
    <3> QED BY <2>2, <2>4, <2>5, <3>1, Zenon DEF T!Followed
  <2>8. CASE Found(x)
    <3>1. r.err # "link"
      BY <2>3, <2>8 DEF T!Answer
    <3> QED BY <2>1, <2>6, <2>8, <3>1
  <2>9. CASE ~Found(x) /\ x = y
    <3>1. z = r
      BY <2>3, <2>4, <2>9, ReachedFollow
    <3>2. CASE r.err = "link"
      BY <2>6, <2>7, <3>1, <3>2
    <3>3. CASE r.err # "link"
      BY <2>1, <2>2, <2>6, <2>7, <2>9, <3>1, <3>3
    <3> QED BY <3>2, <3>3
  <2> QED BY <1>5, <2>1, <2>2, <2>8, <2>9
<1> HIDE DEF OK
<1>6. OK(MaxSymlinkDepth)
  <2>1. SUFFICES ASSUME Bad # {} PROVE FALSE
    BY PathsAssumption
  <2>2. PICK k \in Bad : \A j \in Bad : k <= j
    BY <2>1, LeastNatural
  <2>3. k \in Nat /\ ~OK(k) /\ k # 0
    BY <1>4, <2>2
  <2>4. k - 1 \in Nat /\ OK(k - 1) /\ (k - 1) + 1 = k
    BY <2>2, <2>3
  <2>5. OK((k - 1) + 1)
    BY <1>5, <2>4
  <2> QED BY <2>3, <2>4, <2>5
<1>7. PICK x \in Path : x = h[MaxSymlinkDepth].path
  BY <1>3, PathsAssumption
<1>8. PICK y \in Path : y = g[MaxSymlinkDepth].path
  BY <1>3, PathsAssumption
<1>9. PICK r : r = T!Reached(t, x, no, missing)
  OBVIOUS
<1>10. PICK z : z = T!Reached(t, y, yes, missing)
  OBVIOUS
<1>11. h[MaxSymlinkDepth].follow = no /\ g[MaxSymlinkDepth].follow = yes
  BY <1>3, PathsAssumption
<1>12. T!Walk(t, p, no, missing) = IF r.err = "link" THEN T!Answer("loop", <<>>) ELSE r
  BY <1>7, <1>9, <1>11, Zenon DEF T!Walk, T!Resolved, T!Final, h
<1>13. T!Walk(t, p, yes, missing) = IF z.err = "link" THEN T!Answer("loop", <<>>) ELSE z
  BY <1>8, <1>10, <1>11, Zenon DEF T!Walk, T!Resolved, T!Final, g
<1>14. ~Found(x)
  <2> SUFFICES ASSUME Found(x) PROVE FALSE
    OBVIOUS
  <2>1. r = T!Answer("found", x)
    BY <1>9
  <2> QED BY <1>12, <2>1 DEF T!Answer
<1>15. x = y
  BY <1>6, <1>7, <1>8, <1>14 DEF OK
<1>16. z = r
  BY <1>9, <1>10, <1>14, <1>15, ReachedFollow
<1> QED BY <1>12, <1>13, <1>16

\* Truncation of what was opened.
LEMMA SetAttrOf ==
  ASSUME NEW s, WellFormed(s), NEW q \in DOMAIN s.upper, NEW trunc \in BOOLEAN
  PROVE  LET O(t) == IF trunc /\ t[q].kind = "file" THEN T!SetAttr(t, q, "new") ELSE t
         IN WellFormed(WithUpper(s, O(s.upper))) /\ Merged(WithUpper(s, O(s.upper))) = O(Merged(s))
<1>1. q \in DOMAIN Merged(s) /\ Merged(s)[q] = s.upper[q]
  BY UpperInView
<1>2. CASE trunc /\ s.upper[q].kind = "file"
  <2>1. PICK attr \in {"seed", "edited", "new"} : attr = "new"
    OBVIOUS
  <2> QED BY <1>1, <1>2, <2>1, ChangedInView
<1>3. CASE ~(trunc /\ s.upper[q].kind = "file")
  <2>1. WithUpper(s, s.upper) = s
    BY DEF WithUpper, WellFormed, StateOK
  <2> QED BY <1>1, <1>3, <2>1
<1> QED BY <1>2, <1>3

\* OpenFile with every combination of O_CREATE, O_EXCL and O_TRUNC.
LEMMA OpenInView ==
  ASSUME NEW s, WellFormed(s), NEW p \in Path,
         NEW create \in BOOLEAN, NEW excl \in BOOLEAN, NEW trunc \in BOOLEAN
  PROVE  Keeps(OpenIn(s, p, create, excl, trunc), T!OpenIn(Merged(s), p, create, excl, trunc))
<1> DEFINE m == Merged(s)
           x == create /\ excl
<1>1. PICK w : w = T!Walk(m, p, ~x, create)
  OBVIOUS
<1>2. (~x) \in BOOLEAN
  OBVIOUS
<1>3. resolveMerged(s, p, ~x, create) = w /\ Resolved(s, w, ~x, create)
  <2>1. PICK f \in BOOLEAN : f = ~x
    BY <1>2
  <2>2. w = T!Walk(m, p, f, create)
    BY <1>1, <2>1
  <2>3. resolveMerged(s, p, f, create) = w /\ Resolved(s, w, f, create)
    BY <2>2, Resolves
  <2> QED BY <2>1, <2>3
<1>4. PICK e : e = T!Walk(m, p, FALSE, TRUE)
  OBVIOUS
<1>5. PICK v : v = T!Walk(m, p, TRUE, create)
  OBVIOUS
<1> DEFINE q == w.path
           a == IF w.err = "absent" THEN CopyUpAncestors(s, q) ELSE InUpper(s, q)
           bad == \/ w.err \notin {"found", "absent"} \/ (x /\ w.err = "found")
                  \/ (w.err = "found" /\ Visible(s)[q].kind = "dir")
           O(t) == IF trunc /\ t[q].kind = "file" THEN T!SetAttr(t, q, "new") ELSE t
<1>6. OpenIn(s, p, create, excl, trunc) =
        IF bad THEN Fail(s) ELSE Upper(a, T!OpenIn(a.upper, q, create, excl, trunc))
  BY <1>3, Zenon DEF OpenIn
<1>7. T!OpenIn(m, p, create, excl, trunc) =
        IF x /\ e.err = "found" THEN T!Outcome(FALSE, m)
        ELSE IF v.err = "absent" THEN T!Outcome(TRUE, T!Put(m, v.path, T!Leaf("file", v.path, <<>>, "new")))
        ELSE IF v.err # "found" \/ x \/ T!IsDir(m, v.path) THEN T!Outcome(FALSE, m)
        ELSE T!Outcome(TRUE, IF trunc /\ m[v.path].kind = "file" THEN T!SetAttr(m, v.path, "new") ELSE m)
  BY <1>4, <1>5, Zenon DEF T!OpenIn
<1>8. x => w = e
  <2> SUFFICES ASSUME x PROVE w = e
    OBVIOUS
  <2>1. (~x) = FALSE /\ create = TRUE
    OBVIOUS
  <2> QED BY <1>1, <1>4, <2>1, Zenon
<1>9. ~x => w = v
  <2> SUFFICES ASSUME ~x PROVE w = v
    OBVIOUS
  <2>1. (~x) = TRUE
    OBVIOUS
  <2> QED BY <1>1, <1>5, <2>1, Zenon
<1>10. x /\ e.err # "found" => v = w
  <2> SUFFICES ASSUME x, e.err # "found" PROVE v = w
    OBVIOUS
  <2>1. PICK yes \in BOOLEAN : yes = TRUE
    OBVIOUS
  <2>2. PICK no \in BOOLEAN : no = FALSE
    OBVIOUS
  <2>3. e = T!Walk(m, p, no, yes)
    BY <1>4, <2>1, <2>2, Zenon
  <2>4. v = T!Walk(m, p, yes, yes)
    <3>1. create = yes /\ TRUE = yes
      BY <2>1
    <3> QED BY <1>5, <3>1, Zenon
  <2>5. TreeOK(m)
    BY MergedTree DEF WellFormed
  <2>6. v = e
    <3>1. ~no
      BY <2>2
    <3>2. T!Walk(m, p, no, yes).err # "found"
      BY <2>3, Zenon
    <3>3. T!Walk(m, p, yes, yes) = T!Walk(m, p, no, yes)
      BY <2>5, <3>1, <3>2, WalkFollow, ZenonT(40)
    <3> QED BY <2>3, <2>4, <3>3, Zenon
  <2> QED BY <1>8, <2>6
<1>11. w.err = "found" => /\ q \in Path /\ q \in DOMAIN m /\ Visible(s)[q] = m[q]
                          /\ ~(m[q].kind = "link" /\ ~x)
  BY <1>3 DEF Resolved
<1>12. w.err = "absent" => /\ create /\ q \in Path /\ DirsTo(Visible(s), q) /\ q # <<>>
                           /\ q \notin DOMAIN Visible(s)
  BY <1>3 DEF Resolved
<1> HIDE DEF m
<1>13. CASE bad
  <2>1. T!OpenIn(m, p, create, excl, trunc) = T!Outcome(FALSE, m)
    <3>1. CASE w.err \notin {"found", "absent"}
      BY <1>7, <1>8, <1>9, <1>10, <3>1
    <3>2. CASE x /\ w.err = "found"
      BY <1>7, <1>8, <3>2
    <3>3. CASE ~x /\ w.err = "found" /\ Visible(s)[q].kind = "dir"
      BY <1>7, <1>9, <1>11, <3>3 DEF T!IsDir
    <3> QED BY <1>13, <3>1, <3>2, <3>3
  <2> QED BY <1>6, <1>13, <2>1, KeepsFailure DEF m
<1>14. CASE ~bad /\ w.err = "absent"
  <2> DEFINE b == CopyUpAncestors(s, q)
             node == T!Leaf("file", q, <<>>, "new")
             z == Layers(T!Put(b.upper, q, node), b.tomb)
  <2>1. WellFormed(b) /\ Visible(b) = Visible(s) /\ Merged(b) = m /\ DirsTo(b.upper, q)
    BY <1>12, <1>14, CopyUpAncestorsKeepsTheView DEF m
  <2>2. a = b
    BY <1>14
  <2>3. q \notin DOMAIN b.upper
    BY <1>12, <1>14, <2>1, VisibleAt
  <2>4. node \in T!Node /\ node.kind # "dir" /\ node.ino = q
    <3>1. <<>> \in Path
      BY DEF Path
    <3> QED BY <1>12, <1>14, <3>1, LeafNode
  <2> HIDE DEF b, node, a
  <2>5. T!OpenIn(b.upper, q, create, excl, trunc) = T!Outcome(TRUE, T!Put(b.upper, q, node))
    <3>1. PICK f : f = T!Walk(b.upper, q, FALSE, TRUE)
      OBVIOUS
    <3>2. PICK g : g = T!Walk(b.upper, q, TRUE, create)
      OBVIOUS
    <3>3. PICK yes \in BOOLEAN : yes = TRUE
      OBVIOUS
    <3>4. PICK no \in BOOLEAN : no = FALSE
      OBVIOUS
    <3>5. T!Walk(b.upper, q, no, yes) = T!Answer("absent", q) /\ T!Walk(b.upper, q, yes, yes) = T!Answer("absent", q)
      <4>1. q \in Path /\ q # <<>> /\ DirsTo(b.upper, q)
        BY <1>12, <1>14, <2>1
      <4>2. T!Walk(b.upper, q, no, yes) = T!Answer("absent", q)
        BY <2>3, <3>3, <4>1, WalkHere
      <4>3. T!Walk(b.upper, q, yes, yes) = T!Answer("absent", q)
        BY <2>3, <3>3, <4>1, WalkHere
      <4> QED BY <4>2, <4>3
    <3>6. create = TRUE
      BY <1>12, <1>14
    <3>7. f = T!Answer("absent", q) /\ g = T!Answer("absent", q)
      BY <3>1, <3>2, <3>3, <3>4, <3>5, <3>6, Zenon
    <3>8. f.err = "absent" /\ g.err = "absent" /\ g.path = q /\ "absent" # "found"
      BY <3>7 DEF T!Answer
    <3> QED BY <3>1, <3>2, <3>8, Zenon DEF T!OpenIn, node
  <2>6. FreeAt(b, q, b.tomb)
    BY <1>12, <1>14, <2>1 DEF FreeAt
  <2>7. WellFormed(z) /\ Merged(z) = T!Put(m, q, node)
    BY <2>1, <2>4, <2>6, PutLeaf
  <2>8. Upper(b, T!OpenIn(b.upper, q, create, excl, trunc)) = [ok |-> TRUE, s |-> z]
    BY <2>5 DEF Upper, T!Outcome, WithUpper
  <2>9. T!OpenIn(m, p, create, excl, trunc) = T!Outcome(TRUE, T!Put(m, q, node))
    BY <1>7, <1>8, <1>9, <1>10, <1>14 DEF node
  <2>10. Keeps([ok |-> TRUE, s |-> z], T!Outcome(TRUE, T!Put(m, q, node)))
    BY <2>7 DEF Keeps, Same, T!Outcome
  <2> QED BY <1>6, <1>14, <2>2, <2>8, <2>9, <2>10 DEF m
<1>15. CASE ~bad /\ w.err = "found"
  <2> DEFINE b == InUpper(s, q)
             z == WithUpper(b, O(b.upper))
  <2>1. /\ WellFormed(b) /\ Merged(b) = m /\ q \in DOMAIN b.upper /\ DirsTo(b.upper, q)
        /\ b.upper[q] = m[q]
    BY <1>11, <1>15, InUpperKeepsTheView DEF m
  <2>2. a = b /\ ~x /\ m[q].kind # "dir" /\ m[q].kind # "link" /\ w = v
    BY <1>9, <1>11, <1>15
  <2> HIDE DEF b, a
  <2>3. T!OpenIn(b.upper, q, create, excl, trunc) = T!Outcome(TRUE, O(b.upper))
    <3>1. PICK g : g = T!Walk(b.upper, q, TRUE, create)
      OBVIOUS
    <3>2. PICK yes \in BOOLEAN : yes = TRUE
      OBVIOUS
    <3>3. T!Walk(b.upper, q, yes, create) = T!Answer("found", q)
      BY <1>11, <1>15, <2>1, <2>2, WalkHere
    <3>4. g = T!Answer("found", q)
      BY <3>1, <3>2, <3>3, Zenon
    <3>5. g.err = "found" /\ g.path = q /\ g.err # "absent"
      BY <3>4 DEF T!Answer
    <3>6. ~T!IsDir(b.upper, q)
      BY <2>1, <2>2 DEF T!IsDir
    <3> QED BY <2>2, <3>1, <3>5, <3>6, Zenon DEF T!OpenIn
  <2>4. WellFormed(z) /\ Merged(z) = O(m)
    BY <2>1, SetAttrOf
  <2>5. Upper(b, T!OpenIn(b.upper, q, create, excl, trunc)) = [ok |-> TRUE, s |-> z]
    BY <2>3 DEF Upper, T!Outcome
  <2>6. T!OpenIn(m, p, create, excl, trunc) = T!Outcome(TRUE, O(m))
    BY <1>7, <1>15, <2>2 DEF T!IsDir
  <2> HIDE DEF O
  <2>7. Keeps([ok |-> TRUE, s |-> z], T!Outcome(TRUE, O(m)))
    BY <2>4 DEF Keeps, Same, T!Outcome
  <2> QED BY <1>6, <1>15, <2>2, <2>5, <2>6, <2>7 DEF m
<1> QED BY <1>13, <1>14, <1>15

\* Renumbering.
LEMMA CanonicalShape ==
  ASSUME NEW t, t \in [DOMAIN t -> T!Node], DOMAIN t \subseteq Path
  PROVE  LET u == T!Canonical(t) IN
         /\ u \in [DOMAIN t -> T!Node] /\ Numbered(u) /\ (Plain(t) => Plain(u))
         /\ \A x \in DOMAIN t :
              /\ u[x].kind = t[x].kind /\ u[x].attr = t[x].attr /\ u[x].target = t[x].target
              /\ t[x].kind = "dir" => u[x] = t[x]
              /\ t[x].kind # "dir" => /\ u[x].ino = Chosen(T!Links(t, x))
                                      /\ u[x].ino \in T!Links(t, x)
<1> DEFINE u == T!Canonical(t)
<1>1. ASSUME NEW x \in DOMAIN t, t[x].kind # "dir"
      PROVE  /\ T!Links(t, x) = {y \in DOMAIN t : t[y].kind # "dir" /\ t[y].ino = t[x].ino}
             /\ Chosen(T!Links(t, x)) \in T!Links(t, x)
  <2>1. T!Links(t, x) = {y \in DOMAIN t : t[y].kind # "dir" /\ t[y].ino = t[x].ino}
    BY <1>1 DEF T!Links
  <2>2. x \in T!Links(t, x)
    BY <1>1, <2>1
  <2> QED BY <2>1, <2>2, ChosenIn
<1>2. ASSUME NEW x \in DOMAIN t
      PROVE  /\ u[x] \in T!Node
             /\ u[x].kind = t[x].kind /\ u[x].attr = t[x].attr /\ u[x].target = t[x].target
             /\ t[x].kind = "dir" => u[x] = t[x]
             /\ t[x].kind # "dir" => /\ u[x].ino = Chosen(T!Links(t, x))
                                     /\ u[x].ino \in T!Links(t, x)
  <2> DEFINE i == Chosen(T!Links(t, x))
  <2>1. u[x] = IF t[x].kind = "dir" THEN t[x] ELSE [t[x] EXCEPT !.ino = i]
    BY DEF T!Canonical, Chosen
  <2>2. t[x] \in T!Node
    OBVIOUS
  <2>3. t[x].kind # "dir" => i \in T!Links(t, x) /\ i \in Seq(STRING)
    BY <1>1 DEF Path
  <2> HIDE DEF u, i
  <2>4. CASE t[x].kind = "dir"
    BY <2>1, <2>2, <2>4
  <2>5. CASE t[x].kind # "dir"
    <3>1. /\ u[x] \in T!Node /\ u[x].ino = i
          /\ u[x].kind = t[x].kind /\ u[x].attr = t[x].attr /\ u[x].target = t[x].target
      BY <2>1, <2>2, <2>3, <2>5 DEF T!Node
    <3> QED BY <2>3, <2>5, <3>1 DEF i
  <2> QED BY <2>4, <2>5
<1>3. DOMAIN u = DOMAIN t /\ u = [x \in DOMAIN u |-> u[x]]
  BY DEF T!Canonical
<1> HIDE DEF u
<1>4. u \in [DOMAIN t -> T!Node]
  BY <1>2, <1>3
<1>5. Plain(t) => Plain(u)
  BY <1>2, <1>3 DEF Plain
<1>6. Numbered(u)
  <2> SUFFICES ASSUME NEW x \in DOMAIN u, u[x].kind # "dir" PROVE T!Links(u, x) = T!Links(t, x)
    BY <1>2, <1>3 DEF Numbered
  <2>1. T!Links(u, x) = {y \in DOMAIN u : u[y].kind # "dir" /\ u[y].ino = u[x].ino}
    BY DEF T!Links
  <2>2. x \in DOMAIN t /\ t[x].kind # "dir"
    BY <1>2, <1>3
  <2>3. T!Links(t, x) = {y \in DOMAIN t : t[y].kind # "dir" /\ t[y].ino = t[x].ino}
    BY <1>1, <2>2
  <2>4. ASSUME NEW y \in DOMAIN t, t[y].kind # "dir"
        PROVE  t[y].ino = t[x].ino <=> u[y].ino = u[x].ino
    <3>1. T!Links(t, y) = {z \in DOMAIN t : t[z].kind # "dir" /\ t[z].ino = t[y].ino}
      BY <1>1, <2>4
    <3>2. ASSUME t[y].ino = t[x].ino PROVE u[y].ino = u[x].ino
      <4>1. T!Links(t, y) = T!Links(t, x)
        BY <2>3, <3>1, <3>2
      <4>2. u[y].ino = Chosen(T!Links(t, y)) /\ u[x].ino = Chosen(T!Links(t, x))
        BY <1>2, <2>2, <2>4
      <4> QED BY <4>1, <4>2
    <3>3. ASSUME u[y].ino = u[x].ino PROVE t[y].ino = t[x].ino
      <4>1. u[y].ino \in T!Links(t, y) /\ u[x].ino \in T!Links(t, x)
        BY <1>2, <2>2, <2>4
      <4> QED BY <2>3, <3>1, <3>3, <4>1
    <3> QED BY <3>2, <3>3
  <2> QED BY <1>2, <1>3, <2>1, <2>3, <2>4
<1> QED BY <1>2, <1>4, <1>5, <1>6 DEF u

\* Renumbering the upper part of a tree is enough when the rest is numbered by
\* its own paths.
Overlaid(c, t) ==
  /\ t \in [DOMAIN t -> T!Node] /\ DOMAIN t \subseteq Path
  /\ c \in [DOMAIN c -> T!Node] /\ DOMAIN c \subseteq Path
  /\ \A x \in DOMAIN t : x \in DOMAIN c /\ c[x] = t[x]
  /\ \A x \in DOMAIN c : c[x].kind # "dir" /\ x \notin DOMAIN t => c[x].ino = x
  /\ \A x \in DOMAIN t : t[x].kind # "dir" => t[x].ino \in DOMAIN t \/ t[x].ino \notin DOMAIN c

\* Then the renumbered tree has the renumbered upper part in it.
LEMMA CanonicalOverlaid ==
  ASSUME NEW c, NEW t, Overlaid(c, t)
  PROVE  T!Canonical(c) = Laid(c, DOMAIN c, T!Canonical(t))
<1> DEFINE u == T!Canonical(t)
           d == T!Canonical(c)
<1>1. /\ t \in [DOMAIN t -> T!Node] /\ DOMAIN t \subseteq Path
      /\ c \in [DOMAIN c -> T!Node] /\ DOMAIN c \subseteq Path
      /\ \A x \in DOMAIN t : x \in DOMAIN c /\ c[x] = t[x]
      /\ \A x \in DOMAIN c : c[x].kind # "dir" /\ x \notin DOMAIN t => c[x].ino = x
      /\ \A x \in DOMAIN t : t[x].kind # "dir" => t[x].ino \in DOMAIN t \/ t[x].ino \notin DOMAIN c
  BY DEF Overlaid
<1>2. u \in [DOMAIN t -> T!Node] /\ d \in [DOMAIN c -> T!Node]
  BY <1>1, CanonicalShape
<1>3. \A x \in DOMAIN t :
        /\ u[x].kind = t[x].kind /\ u[x].attr = t[x].attr /\ u[x].target = t[x].target
        /\ t[x].kind = "dir" => u[x] = t[x]
        /\ t[x].kind # "dir" => u[x].ino = Chosen(T!Links(t, x))
  BY <1>1, CanonicalShape
<1>4. \A x \in DOMAIN c :
        /\ d[x].kind = c[x].kind /\ d[x].attr = c[x].attr /\ d[x].target = c[x].target
        /\ c[x].kind = "dir" => d[x] = c[x]
        /\ c[x].kind # "dir" => d[x].ino = Chosen(T!Links(c, x))
  BY <1>1, CanonicalShape
<1> HIDE DEF u, d
<1>5. ASSUME NEW x \in DOMAIN c PROVE d[x] = IF x \in DOMAIN u THEN u[x] ELSE c[x]
  <2>1. CASE c[x].kind = "dir"
    BY <1>1, <1>2, <1>3, <1>4, <2>1
  <2>2. CASE c[x].kind # "dir" /\ x \in DOMAIN t
    <3>1. T!Links(c, x) = {y \in DOMAIN c : c[y].kind # "dir" /\ c[y].ino = c[x].ino}
      BY <2>2 DEF T!Links
    <3>2. T!Links(t, x) = {y \in DOMAIN t : t[y].kind # "dir" /\ t[y].ino = t[x].ino}
      BY <1>1, <2>2 DEF T!Links
    <3>3. T!Links(c, x) = T!Links(t, x)
      BY <1>1, <2>2, <3>1, <3>2
    <3>4. d[x].ino = u[x].ino
      BY <1>1, <1>3, <1>4, <2>2, <3>3
    <3>5. d[x] \in T!Node /\ u[x] \in T!Node /\ x \in DOMAIN u
      BY <1>2, <2>2
    <3>6. d[x] = u[x]
      BY <1>1, <1>3, <1>4, <2>2, <3>4, <3>5, NodeEqual
    <3> QED BY <3>5, <3>6
  <2>3. CASE c[x].kind # "dir" /\ x \notin DOMAIN t
    <3>1. T!Links(c, x) = {y \in DOMAIN c : c[y].kind # "dir" /\ c[y].ino = c[x].ino}
      BY <2>3 DEF T!Links
    <3>2. T!Links(c, x) = {x}
      BY <1>1, <2>3, <3>1
    <3>3. d[x].ino = c[x].ino
      <4>1. d[x].ino = Chosen({x})
        BY <1>4, <2>3, <3>2
      <4>2. c[x].ino = x
        BY <1>1, <2>3
      <4> QED BY <4>1, <4>2, ChosenIn
    <3>4. d[x] \in T!Node /\ c[x] \in T!Node /\ x \notin DOMAIN u
      BY <1>1, <1>2, <2>3
    <3>5. d[x] = c[x]
      BY <1>4, <3>3, <3>4, NodeEqual
    <3> QED BY <3>4, <3>5
  <2> QED BY <2>1, <2>2, <2>3
<1>6. d = [x \in DOMAIN c |-> d[x]]
  BY <1>2
<1>7. d = Laid(c, DOMAIN c, u)
  BY <1>5, <1>6 DEF Laid
<1> QED BY <1>7 DEF u, d

\* The view over the upper tree.
LEMMA ViewOverlaid ==
  ASSUME NEW s, WellFormed(s)
  PROVE  Overlaid(Merged(s), s.upper)
<1> DEFINE m == Merged(s)
<1>1. s.upper \in [DOMAIN s.upper -> T!Node] /\ DOMAIN s.upper \subseteq Path /\ Numbered(s.upper)
  BY DEF WellFormed, StateOK
<1>2. m \in [DOMAIN m -> T!Node] /\ DOMAIN m \subseteq Path
  <2>1. m = [x \in DOMAIN m |-> m[x]]
    BY DEF Merged
  <2>2. TreeOK(m) /\ DOMAIN m \subseteq Path
    BY MergedTree DEF WellFormed
  <2> HIDE DEF m
  <2> QED BY <2>1, <2>2 DEF TreeOK
<1>3. \A x \in DOMAIN s.upper : x \in DOMAIN m /\ m[x] = s.upper[x]
  BY UpperInView
<1>4. \A x \in DOMAIN m : m[x].kind # "dir" /\ x \notin DOMAIN s.upper => m[x].ino = x
  BY MergedAt, VisibleAt, LowerNode
<1>5. \A x \in DOMAIN s.upper : s.upper[x].kind # "dir" => s.upper[x].ino \in DOMAIN s.upper
  BY <1>1, OwnNumber
<1> QED BY <1>1, <1>2, <1>3, <1>4, <1>5 DEF Overlaid

\* Link.
LEMMA LinkInView ==
  ASSUME NEW s, WellFormed(s), NEW old \in Path, NEW new \in Path
  PROVE  Keeps(LinkIn(s, old, new), T!LinkIn(Merged(s), old, new))
<1> DEFINE m == Merged(s)
<1>1. PICK o : o = T!Walk(m, old, FALSE, FALSE)
  OBVIOUS
<1>2. PICK n : n = T!Walk(m, new, FALSE, TRUE)
  OBVIOUS
<1>3. resolveMerged(s, old, FALSE, FALSE) = o /\ Resolved(s, o, FALSE, FALSE)
  BY <1>1, Resolves, Zenon
<1>4. resolveMerged(s, new, FALSE, TRUE) = n /\ Resolved(s, n, FALSE, TRUE)
  BY <1>2, Resolves, Zenon
<1> DEFINE p == o.path
           q == n.path
           b == CopyUpAncestors(s, q)
           a == InUpper(b, p)
<1>5. T!LinkIn(m, old, new) =
        IF o.err # "found" \/ T!IsDir(m, p) \/ n.err # "absent" THEN T!Outcome(FALSE, m)
        ELSE T!Outcome(TRUE, T!Canonical(T!Put(m, q, m[p])))
  BY <1>1, <1>2, Zenon DEF T!LinkIn
<1>6. LinkIn(s, old, new) =
        IF o.err # "found" \/ Visible(s)[p].kind = "dir" \/ n.err # "absent" THEN Fail(s)
        ELSE Created(a, q, T!LinkIn(a.upper, p, q))
  BY <1>3, <1>4, Zenon DEF LinkIn
<1>7. o.err = "found" => p \in Path /\ p \in DOMAIN m /\ Visible(s)[p] = m[p]
  BY <1>3 DEF Resolved
<1>8. n.err = "absent" => /\ q \in Path /\ q # <<>> /\ q \notin DOMAIN Visible(s) /\ q \notin DOMAIN m
                          /\ DirsTo(Visible(s), q)
  BY <1>4 DEF Resolved
<1>9. CASE o.err # "found" \/ T!IsDir(m, p) \/ n.err # "absent"
  <2>1. o.err # "found" \/ Visible(s)[p].kind = "dir" \/ n.err # "absent"
    BY <1>7, <1>9 DEF T!IsDir
  <2> QED BY <1>5, <1>6, <1>9, <2>1, KeepsFailure
<1>10. CASE o.err = "found" /\ ~T!IsDir(m, p) /\ n.err = "absent"
  <2>1. m[p].kind # "dir" /\ Visible(s)[p].kind # "dir"
    BY <1>7, <1>10 DEF T!IsDir
  <2>2. /\ WellFormed(b) /\ Visible(b) = Visible(s) /\ Merged(b) = m /\ DirsTo(b.upper, q)
    BY <1>8, <1>10, CopyUpAncestorsKeepsTheView
  <2> HIDE DEF b, m
  <2>3. /\ WellFormed(a) /\ Visible(a) = Visible(b) /\ Merged(a) = m
        /\ p \in DOMAIN a.upper /\ DirsTo(a.upper, p) /\ a.upper[p] = m[p]
        /\ \A x \in DOMAIN b.upper : x \in DOMAIN a.upper /\ a.upper[x] = b.upper[x]
    BY <1>7, <1>10, <2>2, InUpperKeepsTheView
  <2> HIDE DEF a
  <2>4. DirsTo(a.upper, q)
    BY <2>2, <2>3 DEF DirsTo, T!IsDir
  <2>5. q \notin DOMAIN a.upper /\ q \notin DOMAIN Visible(a)
    BY <1>8, <1>10, <2>2, <2>3, VisibleAt
  <2> DEFINE t == T!Put(a.upper, q, a.upper[p])
             c == T!Put(m, q, m[p])
             u == T!Canonical(t)
             tb == {r \in a.tomb : ~SX!IsPrefix(q, r)}
             z == Layers(u, tb)
  <2>6. T!LinkIn(a.upper, p, q) = T!Outcome(TRUE, u)
    <3>1. PICK f : f = T!Walk(a.upper, p, FALSE, FALSE)
      OBVIOUS
    <3>2. PICK g : g = T!Walk(a.upper, q, FALSE, TRUE)
      OBVIOUS
    <3>3. PICK yes \in BOOLEAN : yes = TRUE
      OBVIOUS
    <3>4. PICK no \in BOOLEAN : no = FALSE
      OBVIOUS
    <3>5. T!Walk(a.upper, p, no, no) = T!Answer("found", p)
      BY <1>7, <1>10, <2>3, <3>4, WalkHere
    <3>6. T!Walk(a.upper, q, no, yes) = T!Answer("absent", q)
      <4>1. q \in Path /\ q # <<>>
        BY <1>8, <1>10
      <4> QED BY <2>4, <2>5, <3>3, <4>1, WalkHere
    <3>7. f = T!Answer("found", p) /\ g = T!Answer("absent", q)
      BY <3>1, <3>2, <3>3, <3>4, <3>5, <3>6, Zenon
    <3>8. f.err = "found" /\ f.path = p /\ g.err = "absent" /\ g.path = q
      BY <3>7 DEF T!Answer
    <3>9. ~T!IsDir(a.upper, p)
      BY <2>1, <2>3 DEF T!IsDir
    <3> QED BY <3>1, <3>2, <3>8, <3>9, Zenon DEF T!LinkIn
  <2>7. Created(a, q, T!LinkIn(a.upper, p, q)) = Done(z)
    BY <2>6 DEF Created, T!Outcome, ClearTombstonesUnder, WithUpper, Layers
  <2>8. a.upper \in [DOMAIN a.upper -> T!Node] /\ DOMAIN a.upper \subseteq Path /\ a.tomb \subseteq Path
        /\ Plain(a.upper) /\ Numbered(a.upper)
    BY <2>3 DEF WellFormed, StateOK
  <2>9. Overlaid(m, a.upper)
    BY <2>3, ViewOverlaid
  <2>10. /\ DOMAIN t = DOMAIN a.upper \cup {q} /\ t[q] = m[p] /\ t = [x \in DOMAIN t |-> t[x]]
         /\ \A x \in DOMAIN a.upper : t[x] = a.upper[x]
    BY <2>3, <2>5 DEF T!Put
  <2>11. /\ DOMAIN c = DOMAIN m \cup {q} /\ c[q] = m[p] /\ c = [x \in DOMAIN c |-> c[x]]
         /\ \A x \in DOMAIN m : c[x] = m[x]
    BY <1>8, <1>10 DEF T!Put
  <2> HIDE DEF t, c
  <2>12. m \in [DOMAIN m -> T!Node] /\ DOMAIN m \subseteq Path
    BY <2>9 DEF Overlaid
  <2>13. t \in [DOMAIN t -> T!Node] /\ DOMAIN t \subseteq Path
    BY <1>7, <1>8, <1>10, <2>8, <2>10, <2>12
  <2>14. c \in [DOMAIN c -> T!Node] /\ DOMAIN c \subseteq Path
    BY <1>7, <1>8, <1>10, <2>11, <2>12
  <2>15. Overlaid(c, t)
    <3>1. \A x \in DOMAIN t : x \in DOMAIN c /\ c[x] = t[x]
      BY <2>9, <2>10, <2>11 DEF Overlaid
    <3>2. \A x \in DOMAIN c : c[x].kind # "dir" /\ x \notin DOMAIN t => c[x].ino = x
      BY <2>9, <2>10, <2>11 DEF Overlaid
    <3>3. \A x \in DOMAIN t : t[x].kind # "dir" => t[x].ino \in DOMAIN t
      BY <2>1, <2>3, <2>8, <2>10, OwnNumber
    <3> QED BY <2>13, <2>14, <3>1, <3>2, <3>3 DEF Overlaid
  <2>16. Plain(t)
    BY <2>1, <2>8, <2>10 DEF Plain
  <2>17. /\ u \in [DOMAIN t -> T!Node] /\ Numbered(u) /\ Plain(u)
         /\ \A x \in DOMAIN t : u[x].kind = t[x].kind
    BY <2>13, <2>16, CanonicalShape
  <2> HIDE DEF u
  <2>18. LeafAdded(a, q, u)
    BY <2>1, <2>10, <2>17 DEF LeafAdded
  <2>19. FreeAt(a, q, tb)
    <3>1. tb \subseteq a.tomb /\ \A r \in a.tomb : r \in tb \/ Under(q, r)
      BY <1>8, <1>10, <2>8, UnderPrefix
    <3> QED BY <1>8, <1>10, <2>3, <2>4, <2>5, <3>1 DEF FreeAt
  <2> HIDE DEF tb
  <2>20. WellFormed(z) /\ Merged(z) = Laid(Merged(a), DOMAIN Merged(a) \cup {q}, u)
    BY <2>18, <2>19, AddLeaf
  <2>21. T!Canonical(c) = Laid(c, DOMAIN c, u)
    BY <2>15, CanonicalOverlaid DEF u
  <2>22. Laid(c, DOMAIN c, u) = Laid(m, DOMAIN m \cup {q}, u)
    BY <2>10, <2>11, <2>17 DEF Laid
  <2>23. Merged(z) = T!Canonical(c)
    BY <2>3, <2>20, <2>21, <2>22
  <2>24. Keeps(Done(z), T!Outcome(TRUE, T!Canonical(c)))
    BY <2>20, <2>23 DEF Keeps, Same, Done, T!Outcome
  <2> QED BY <1>5, <1>6, <1>10, <2>1, <2>7, <2>24 DEF c, m
<1> QED BY <1>9, <1>10

\* The tree without what is at q and below it.
Without(t, q) == [x \in {y \in DOMAIN t : ~Under(q, y)} |-> t[x]]

\* The tree without a subtree, as RemoveIn writes it.
LEMMA WithoutSubtree ==
  ASSUME NEW t, DOMAIN t \subseteq Path, NEW q \in Path, q # <<>>
  PROVE  [x \in DOMAIN t \ T!Subtree(t, q) |-> t[x]] = Without(t, q)
<1>1. DOMAIN t \ T!Subtree(t, q) = {y \in DOMAIN t : ~Under(q, y)}
  BY UnderPrefix, PrefixSame DEF T!Subtree
<1> QED BY <1>1 DEF Without

\* A numbered tree is its own renumbering.
LEMMA CanonicalSame ==
  ASSUME NEW t, t \in [DOMAIN t -> T!Node], DOMAIN t \subseteq Path, Numbered(t)
  PROVE  T!Canonical(t) = t
<1> DEFINE u == T!Canonical(t)
<1>1. /\ u \in [DOMAIN t -> T!Node]
      /\ \A x \in DOMAIN t :
           /\ u[x].kind = t[x].kind /\ u[x].attr = t[x].attr /\ u[x].target = t[x].target
           /\ t[x].kind = "dir" => u[x] = t[x]
           /\ t[x].kind # "dir" => u[x].ino = Chosen(T!Links(t, x))
  BY CanonicalShape
<1> HIDE DEF u
<1>2. ASSUME NEW x \in DOMAIN t PROVE u[x] = t[x]
  <2>1. u[x] \in T!Node /\ t[x] \in T!Node
    BY <1>1
  <2>2. t[x].kind # "dir" => u[x].ino = t[x].ino
    BY <1>1 DEF Numbered
  <2> QED BY <1>1, <2>1, <2>2, NodeEqual
<1> QED BY <1>1, <1>2 DEF u

\* Removal from the upper tree, with a tombstone or without.
LEMMA Removed ==
  ASSUME NEW s, WellFormed(s), NEW q \in Path, q # <<>>, NEW tb, tb = s.tomb \/ tb = s.tomb \cup {q}
  PROVE  LET z == Layers(T!Canonical(Without(s.upper, q)), tb) IN
         /\ WellFormed(z)
         /\ (\A x \in DOMAIN Lower : Under(q, x) => isHidden(z, x))
              => Merged(z) = T!Canonical(Without(Merged(s), q))
<1> DEFINE t == Without(s.upper, q)
           u == T!Canonical(t)
           z == Layers(u, tb)
           m == Merged(s)
           c == Without(m, q)
           v == Visible(s)
           w == Visible(z)
<1>1. z.upper = u /\ z.tomb = tb /\ z = Layers(z.upper, z.tomb)
  BY LayersAre
<1>2. /\ s.upper \in [DOMAIN s.upper -> T!Node] /\ DOMAIN s.upper \subseteq Path /\ s.tomb \subseteq Path
      /\ IsFiniteSet(DOMAIN s.upper) /\ Plain(s.upper) /\ Numbered(s.upper)
  BY DEF WellFormed, StateOK
<1>3. /\ DOMAIN t = {y \in DOMAIN s.upper : ~Under(q, y)} /\ t = [x \in DOMAIN t |-> t[x]]
      /\ \A x \in DOMAIN t : t[x] = s.upper[x]
  BY DEF Without
<1>4. /\ DOMAIN c = {y \in DOMAIN m : ~Under(q, y)} /\ c = [x \in DOMAIN c |-> c[x]]
      /\ \A x \in DOMAIN c : c[x] = m[x]
  BY DEF Without
<1> HIDE DEF t, c, z
<1>5. t \in [DOMAIN t -> T!Node] /\ DOMAIN t \subseteq Path /\ Plain(t)
  BY <1>2, <1>3 DEF Plain
<1>6. /\ u \in [DOMAIN t -> T!Node] /\ Numbered(u) /\ Plain(u)
      /\ \A x \in DOMAIN t : u[x].kind = t[x].kind
  BY <1>5, CanonicalShape
<1> HIDE DEF u
<1>7. \A x : T!IsDir(u, x) <=> T!IsDir(s.upper, x) /\ ~Under(q, x)
  BY <1>3, <1>6 DEF T!IsDir
<1>8. StateOK(z)
  <2>1. IsFiniteSet(DOMAIN t)
    BY <1>2, <1>3, FS_Subset
  <2> QED BY <1>1, <1>2, <1>5, <1>6, <2>1 DEF StateOK
<1>9. <<>> \in Path /\ ~Under(q, <<>>)
  BY AncestorsOfRoot DEF Under, Path
<1>10. WellFormed(z)
  <2>1. Rooted(z)
    BY <1>1, <1>7, <1>9 DEF WellFormed, Rooted
  <2>2. Closed(z)
    <3> SUFFICES ASSUME NEW x \in DOMAIN u, NEW r \in Ancestors(x) PROVE T!IsDir(u, r)
      BY <1>1 DEF Closed, DirsTo
    <3>1. x \in DOMAIN s.upper /\ ~Under(q, x) /\ x \in Path
      BY <1>3, <1>5, <1>6
    <3>2. T!IsDir(s.upper, r)
      BY <3>1 DEF WellFormed, Closed, DirsTo
    <3>3. ~Under(q, r)
      BY <3>1, UnderAncestor
    <3> QED BY <1>7, <3>2, <3>3
  <2>3. Shadows(z)
    <3>1. \A x : isHidden(s, x) => isHidden(z, x)
      BY <1>1 DEF isHidden
    <3> QED BY <1>1, <1>7, <3>1 DEF WellFormed, Shadows
  <2> QED BY <1>1, <1>6, <1>8, <2>1, <2>2, <2>3 DEF WellFormed
<1>11. ASSUME \A x \in DOMAIN Lower : Under(q, x) => isHidden(z, x)
       PROVE  Merged(z) = T!Canonical(c)
  <2>1. Overlaid(m, s.upper)
    BY ViewOverlaid
  <2>2. m \in [DOMAIN m -> T!Node] /\ DOMAIN m \subseteq Path
    BY <2>1 DEF Overlaid
  <2>3. c \in [DOMAIN c -> T!Node] /\ DOMAIN c \subseteq Path
    BY <1>4, <2>2
  <2>4. Overlaid(c, t)
    <3>1. \A x \in DOMAIN t : x \in DOMAIN c /\ c[x] = t[x]
      BY <1>3, <1>4, <2>1 DEF Overlaid
    <3>2. \A x \in DOMAIN c : c[x].kind # "dir" /\ x \notin DOMAIN t => c[x].ino = x
      BY <1>3, <1>4, <2>1 DEF Overlaid
    <3>3. \A x \in DOMAIN t : t[x].kind # "dir" => t[x].ino \in DOMAIN t \/ t[x].ino \notin DOMAIN c
      BY <1>2, <1>3, <1>4, OwnNumber
    <3> QED BY <1>5, <2>3, <3>1, <3>2, <3>3 DEF Overlaid
  <2>5. T!Canonical(c) = Laid(c, DOMAIN c, u)
    BY <2>4, CanonicalOverlaid DEF u
  <2>6. \A x \in Path : ~Under(q, x) => (isHidden(z, x) <=> isHidden(s, x))
    <3>1. z.tomb \subseteq Path
      BY <1>1, <1>2
    <3>2. \A r \in Path : ~Under(q, r) => (r \in s.tomb <=> r \in z.tomb)
      BY <1>1 DEF Under
    <3> QED BY <1>2, <3>1, <3>2, HiddenOutside
  <2>7. ASSUME NEW x \in Path, ~Under(q, x)
        PROVE  /\ x \in DOMAIN w <=> x \in DOMAIN v
               /\ x \in DOMAIN v => w[x] = IF x \in DOMAIN u THEN u[x] ELSE v[x]
               /\ T!IsDir(w, x) <=> T!IsDir(v, x)
    <3>1. x \in DOMAIN u <=> x \in DOMAIN s.upper
      BY <1>3, <1>6, <2>7
    <3>2. x \in DOMAIN u => u[x].kind = s.upper[x].kind
      BY <1>3, <1>6
    <3> QED BY <1>1, <2>6, <2>7, <3>1, <3>2, VisibleAt DEF T!IsDir
  <2>8. \A x \in Path : Under(q, x) => x \notin DOMAIN w
    BY <1>1, <1>3, <1>6, <1>11, VisibleAt
  <2>9. \A x \in Path : ~Under(q, x) => (DirsTo(w, x) <=> DirsTo(v, x))
    BY <2>7, DirsOutside DEF Under
  <2> DEFINE l == Laid(c, DOMAIN c, u)
  <2>10. \A x \in Path : x \in DOMAIN l <=> x \in DOMAIN w /\ DirsTo(w, x)
    BY <1>4, <2>7, <2>8, <2>9, MergedAt DEF Laid
  <2>11. \A x \in DOMAIN l : l[x] = w[x]
    BY <1>4, <2>3, <2>7, MergedAt DEF Laid
  <2>12. l = [x \in DOMAIN l |-> l[x]] /\ DOMAIN l \subseteq Path
    BY <2>3 DEF Laid
  <2> HIDE DEF l
  <2>13. Merged(z) = l
    BY <1>8, <2>10, <2>11, <2>12, MergedIs
  <2> QED BY <2>5, <2>13 DEF l
<1> QED BY <1>10, <1>11 DEF t, u, c, z

\* ReadDir of a directory of the view lists that directory.
LEMMA ReadDirHere ==
  ASSUME NEW s, WellFormed(s), NEW q, T!IsDir(Merged(s), q)
  PROVE  ReadDir(s, q) = ListAt(s, q)
<1>1. q \in Path /\ DirsTo(Visible(s), q) /\ T!IsDir(Visible(s), q)
  BY MergedAt, MergedTree DEF WellFormed, T!IsDir
<1>2. PICK w : w = T!Walk(Visible(s), q, TRUE, FALSE)
  OBVIOUS
<1>3. PICK yes \in BOOLEAN : yes = TRUE
  OBVIOUS
<1>4. PICK no \in BOOLEAN : no = FALSE
  OBVIOUS
<1>5. T!Walk(Visible(s), q, yes, no) = T!Answer("found", q)
  BY <1>1, WalkHere DEF T!IsDir
<1>6. w = T!Answer("found", q)
  BY <1>2, <1>3, <1>4, <1>5, Zenon
<1>7. w.err = "found" /\ w.path = q
  BY <1>6 DEF T!Answer
<1> QED BY <1>2, <1>7, Zenon DEF ReadDir, resolveMerged

\* Taking an entry out of the upper tree.
LEMMA RemovesUpper ==
  ASSUME NEW s, WellFormed(s), NEW q \in DOMAIN s.upper, q # <<>>, NEW recursive \in BOOLEAN,
         recursive \/ T!Children(s.upper, q) = {} \/ ~T!IsDir(s.upper, q)
  PROVE  T!RemoveIn(s.upper, q, recursive) = T!Outcome(TRUE, T!Canonical(Without(s.upper, q)))
<1> DEFINE t == s.upper
<1>1. q \in Path /\ DOMAIN t \subseteq Path /\ DirsTo(t, q)
  BY DEF WellFormed, StateOK, Closed
<1>2. PICK w : w = T!Walk(t, q, FALSE, FALSE)
  OBVIOUS
<1>3. PICK no \in BOOLEAN : no = FALSE
  OBVIOUS
<1>4. T!Walk(t, q, no, no) = T!Answer("found", q)
  BY <1>1, <1>3, WalkHere
<1>5. w = T!Answer("found", q)
  BY <1>2, <1>3, <1>4, Zenon
<1>6. w.err = "found" /\ w.path = q
  BY <1>5 DEF T!Answer
<1>7. [x \in DOMAIN t \ T!Subtree(t, q) |-> t[x]] = Without(t, q)
  BY <1>1, WithoutSubtree
<1>8. T!RemoveIn(t, q, recursive) = T!Outcome(TRUE, T!Canonical([x \in DOMAIN t \ T!Subtree(t, q) |-> t[x]]))
  BY <1>2, <1>6, Zenon DEF T!RemoveIn
<1> QED BY <1>7, <1>8

\* Taking out of the upper tree what is not there changes nothing.
LEMMA WithoutAbsent ==
  ASSUME NEW s, WellFormed(s), NEW q \in Path, q \notin DOMAIN s.upper
  PROVE  T!Canonical(Without(s.upper, q)) = s.upper
<1>1. s.upper \in [DOMAIN s.upper -> T!Node] /\ DOMAIN s.upper \subseteq Path /\ Numbered(s.upper)
  BY DEF WellFormed, StateOK
<1>2. {y \in DOMAIN s.upper : ~Under(q, y)} = DOMAIN s.upper
  BY NothingUnder
<1>3. Without(s.upper, q) = s.upper
  BY <1>1, <1>2 DEF Without
<1> QED BY <1>1, <1>3, CanonicalSame

\* Remove and RemoveAll: the layers stay in order, and where no lower path is in the
\* way the view loses what one tree would lose.
LEMMA RemoveInView ==
  ASSUME NEW s, WellFormed(s), NEW p \in Path, NEW recursive \in BOOLEAN
  PROVE  /\ WellFormed(RemoveIn(s, p, recursive).s)
         /\ (\A x \in T!Subtree(Merged(s), T!Walk(Merged(s), p, FALSE, FALSE).path) : ~Obstructed(s, x))
              => Same(RemoveIn(s, p, recursive), T!RemoveIn(Merged(s), p, recursive))
<1> DEFINE m == Merged(s)
<1>1. PICK w : w = T!Walk(m, p, FALSE, FALSE)
  OBVIOUS
<1>2. resolveMerged(s, p, FALSE, FALSE) = w /\ Resolved(s, w, FALSE, FALSE)
  BY <1>1, Resolves, Zenon
<1> DEFINE q == w.path
           list == ReadDir(s, q)
           a == IF q \in DOMAIN s.upper THEN WithUpper(s, T!RemoveIn(s.upper, q, recursive).t) ELSE s
           low == LowerLstat(q)
           bad == \/ w.err # "found" \/ q = <<>>
                  \/ (Visible(s)[q].kind = "dir" /\ ~recursive /\ ~(list.ok /\ list.names = {}))
           Free == \A x \in T!Subtree(m, q) : ~Obstructed(s, x)
<1>3. RemoveIn(s, p, recursive) =
        IF bad THEN Fail(s)
        ELSE IF low.err = "found" THEN Done(Layers(a.upper, a.tomb \cup {q}))
        ELSE IF low.err = "notExist" THEN Done(a)
        ELSE Fail(a)
  BY <1>2, Zenon DEF RemoveIn
<1>4. T!RemoveIn(m, p, recursive) =
        IF \/ w.err # "found" \/ q = <<>>
           \/ (T!IsDir(m, q) /\ T!Children(m, q) # {} /\ ~recursive)
        THEN T!Outcome(FALSE, m)
        ELSE T!Outcome(TRUE, T!Canonical([x \in DOMAIN m \ T!Subtree(m, q) |-> m[x]]))
  BY <1>1, Zenon DEF T!RemoveIn
<1>5. w.err = "found" => /\ q \in Path /\ q \in DOMAIN m /\ q \in DOMAIN Visible(s) /\ Visible(s)[q] = m[q]
                         /\ DirsTo(Visible(s), q)
  BY <1>2 DEF Resolved
<1>6. DOMAIN m \subseteq Path
  BY MergedTree DEF WellFormed
<1>7. w.err = "found" => (Visible(s)[q].kind = "dir" <=> T!IsDir(m, q))
  BY <1>5 DEF T!IsDir
<1>8. q \in DOMAIN m => q \in T!Subtree(m, q)
  BY <1>6, PrefixIsAncestor, PrefixSame DEF T!Subtree
<1> HIDE DEF m
<1>9. T!IsDir(m, q) /\ list.ok => (list.names = {} <=> T!Children(m, q) = {})
  <2> SUFFICES ASSUME T!IsDir(m, q), list.ok PROVE list.names = {} <=> T!Children(m, q) = {}
    OBVIOUS
  <2>1. list = ListAt(s, q)
    BY ReadDirHere DEF m
  <2>2. list = [ok |-> TRUE, names |-> ChildNames(m, q)]
    BY <1>6, <2>1, ListAtView DEF m, T!IsDir
  <2> QED BY <2>2 DEF ChildNames
<1>10. T!IsDir(m, q) /\ Free => list.ok
  BY <1>6, <1>8, ReadDirHere, ListAtSucceeds DEF m, T!IsDir
<1>11. CASE bad
  <2>1. RemoveIn(s, p, recursive) = Fail(s)
    BY <1>3, <1>11
  <2>2. ASSUME Free PROVE T!RemoveIn(m, p, recursive) = T!Outcome(FALSE, m)
    BY <1>4, <1>7, <1>9, <1>10, <1>11, <2>2
  <2>3. WellFormed(Fail(s).s)
    BY DEF Fail
  <2> QED BY <1>1, <2>1, <2>2, <2>3, KeepsFailure DEF Keeps, m
<1>12. CASE ~bad
  <2> DEFINE u == T!Canonical(Without(s.upper, q))
  <2>1. w.err = "found" /\ q # <<>> /\ q \in Path /\ q \in DOMAIN m
    BY <1>5, <1>12
  <2>2. recursive \/ T!Children(m, q) = {} \/ ~T!IsDir(m, q)
    BY <1>7, <1>9, <1>12
  <2>3. a.upper = u /\ a.tomb = s.tomb
    <3>1. CASE q \in DOMAIN s.upper
      <4>1. recursive \/ T!Children(s.upper, q) = {} \/ ~T!IsDir(s.upper, q)
        <5>1. T!Children(s.upper, q) \subseteq T!Children(m, q)
          BY UpperInView DEF T!Children, m
        <5>2. T!IsDir(s.upper, q) => T!IsDir(m, q)
          BY UpperInView DEF T!IsDir, m
        <5> QED BY <2>2, <5>1, <5>2
      <4>2. T!RemoveIn(s.upper, q, recursive) = T!Outcome(TRUE, u)
        BY <2>1, <3>1, <4>1, RemovesUpper
      <4> HIDE DEF u
      <4> QED BY <3>1, <4>2, LayersAre DEF WithUpper, T!Outcome
    <3>2. CASE q \notin DOMAIN s.upper
      BY <2>1, <3>2, WithoutAbsent
    <3> QED BY <3>1, <3>2
  <2>4. a = Layers(u, s.tomb)
    <3>1. a = Layers(a.upper, a.tomb)
      BY LayersAre DEF WellFormed, StateOK, WithUpper
    <3> QED BY <2>3, <3>1
  <2> HIDE DEF u, a
  <2> DEFINE y == Layers(u, s.tomb)
             z == Layers(u, s.tomb \cup {q})
  <2>5. WellFormed(y) /\ WellFormed(z)
    BY <2>1, Removed DEF u
  <2>6. (\A x \in DOMAIN Lower : Under(q, x) => isHidden(y, x)) => Merged(y) = T!Canonical(Without(m, q))
    BY <2>1, Removed DEF u, m
  <2>7. (\A x \in DOMAIN Lower : Under(q, x) => isHidden(z, x)) => Merged(z) = T!Canonical(Without(m, q))
    BY <2>1, Removed DEF u, m
  <2>8. T!RemoveIn(m, p, recursive) = T!Outcome(TRUE, T!Canonical(Without(m, q)))
    BY <1>4, <1>6, <2>1, <2>2, WithoutSubtree
  <2>9. ASSUME NEW x \in DOMAIN Lower, Under(q, x) PROVE isHidden(z, x)
    <3>1. q \in Ancestors(x) \cup {x, <<>>}
      BY <2>9 DEF Under
    <3>2. q \in z.tomb
      BY LayersAre
    <3> QED BY <3>1, <3>2 DEF isHidden
  <2>10. ASSUME low.err = "notExist", NEW x \in DOMAIN Lower, Under(q, x) PROVE FALSE
    <3>1. q \in DOMAIN Lower
      BY <2>10, LowerTree DEF Under, DirsTo, T!IsDir
    <3> QED BY <2>10, <3>1, LowerFinds DEF T!Answer
  <2>11. ASSUME Free PROVE low.err \in {"found", "notExist"}
    <3>1. CASE q \in DOMAIN s.upper
      BY <1>8, <2>1, <2>11, <3>1 DEF Obstructed
    <3>2. CASE q \notin DOMAIN s.upper
      <4>1. q \in DOMAIN Lower
        BY <1>5, <2>1, <3>2, VisibleAt
      <4> QED BY <4>1, LowerFinds DEF T!Answer
    <3> QED BY <3>1, <3>2
  <2>12. CASE low.err = "found"
    <3>1. RemoveIn(s, p, recursive) = Done(z)
      BY <1>3, <1>12, <2>3, <2>12
    <3>2. Keeps(Done(z), T!Outcome(TRUE, T!Canonical(Without(m, q))))
      BY <2>5, <2>7, <2>9 DEF Keeps, Same, Done, T!Outcome
    <3> QED BY <2>8, <3>1, <3>2 DEF Keeps, m
  <2>13. CASE low.err = "notExist"
    <3>1. RemoveIn(s, p, recursive) = Done(y)
      BY <1>3, <1>12, <2>4, <2>13
    <3>2. Keeps(Done(y), T!Outcome(TRUE, T!Canonical(Without(m, q))))
      BY <2>5, <2>6, <2>10, <2>13 DEF Keeps, Same, Done, T!Outcome
    <3> QED BY <2>8, <3>1, <3>2 DEF Keeps, m
  <2>14. CASE low.err \notin {"found", "notExist"}
    <3>1. RemoveIn(s, p, recursive) = Fail(y)
      BY <1>3, <1>12, <2>4, <2>14
    <3>2. WellFormed(Fail(y).s)
      BY <2>5 DEF Fail
    <3>3. ~Free
      BY <2>11, <2>14
    <3> QED BY <1>1, <3>1, <3>2, <3>3 DEF m
  <2> QED BY <2>12, <2>13, <2>14
<1> QED BY <1>11, <1>12

-----------------------------------------------------------------------------
\* The memory filesystem's MkdirAll, one name after the other.
LEMMA MkdirStepsStep ==
  ASSUME NEW t, NEW p
  PROVE  /\ T!MkdirSteps(t, p)[0] = [ok |-> TRUE, t |-> t, at |-> <<>>]
         /\ \A n \in Nat : T!MkdirSteps(t, p)[n + 1] = T!MkdirStep(T!MkdirSteps(t, p)[n], p[n + 1])
<1> DEFINE start == [ok |-> TRUE, t |-> t, at |-> <<>>]
           Step(x, n) == T!MkdirStep(x, p[n])
           Run(g, n) == g = [i \in 0..n |-> IF i = 0 THEN start ELSE Step(g[i - 1], i)]
<1> HIDE DEF start, Step
<1>1. \A n \in Nat : \E g : Run(g, n)
  <2> DEFINE Bad == {n \in Nat : ~ \E g : Run(g, n)}
  <2>1. SUFFICES ASSUME Bad # {} PROVE FALSE
    OBVIOUS
  <2>2. PICK m \in Bad : \A k \in Bad : m <= k
    BY <2>1, LeastNatural
  <2>3. CASE m = 0
    <3>1. Run([i \in 0..0 |-> start], 0)
      OBVIOUS
    <3> QED BY <2>2, <2>3, <3>1
  <2>4. CASE m > 0
    <3>1. m - 1 \in Nat /\ m - 1 \notin Bad
      <4>1. Bad \subseteq Nat
        OBVIOUS
      <4> HIDE DEF Bad
      <4> QED BY <2>2, <2>4, <4>1
    <3>2. PICK g : Run(g, m - 1)
      BY <3>1
    <3> DEFINE h == [i \in 0..m |-> IF i = m THEN Step(g[m - 1], m) ELSE g[i]]
    <3>3. ASSUME NEW i \in 0..m PROVE h[i] = IF i = 0 THEN start ELSE Step(h[i - 1], i)
      <4>1. CASE i = m
        BY <2>4, <4>1
      <4>2. CASE i # m
        <5>1. i \in 0..(m - 1) /\ h[i] = g[i]
          BY <2>2, <4>2
        <5>2. g[i] = IF i = 0 THEN start ELSE Step(g[i - 1], i)
          BY <3>2, <5>1
        <5>3. i # 0 => h[i - 1] = g[i - 1]
          BY <2>2, <5>1
        <5> QED BY <5>1, <5>2, <5>3
      <4> QED BY <4>1, <4>2
    <3>4. h = [i \in 0..m |-> IF i = 0 THEN start ELSE Step(h[i - 1], i)]
      BY <3>3
    <3> QED BY <2>2, <3>4
  <2> QED BY <2>2, <2>3, <2>4
<1>2. ASSUME NEW m \in Nat, NEW n \in Nat, NEW g, NEW h, Run(g, m), Run(h, n),
             NEW i \in Nat, i <= m, i <= n
      PROVE  g[i] = h[i]
  <2> DEFINE Bad == {j \in Nat : j <= m /\ j <= n /\ g[j] # h[j]}
  <2>1. SUFFICES ASSUME Bad # {} PROVE FALSE
    BY <1>2
  <2>2. PICK j \in Bad : \A k \in Bad : j <= k
    BY <2>1, LeastNatural
  <2>3. j \in 0..m /\ j \in 0..n
    BY <2>2
  <2>4. /\ g[j] = IF j = 0 THEN start ELSE Step(g[j - 1], j)
        /\ h[j] = IF j = 0 THEN start ELSE Step(h[j - 1], j)
    BY <1>2, <2>3
  <2>5. j # 0 => g[j - 1] = h[j - 1]
    BY <2>2
  <2> QED BY <2>2, <2>4, <2>5
<1> HIDE DEF Run
<1> DEFINE r == [n \in Nat |-> (CHOOSE g : Run(g, n))[n]]
<1>3. ASSUME NEW n \in Nat PROVE r[n] = IF n = 0 THEN start ELSE Step(r[n - 1], n)
  <2>1. PICK g : g = CHOOSE x : Run(x, n)
    OBVIOUS
  <2>2. Run(g, n) /\ r[n] = g[n]
    BY <1>1, <2>1
  <2>3. g[n] = IF n = 0 THEN start ELSE Step(g[n - 1], n)
    BY <2>2 DEF Run
  <2>4. CASE n > 0
    <3>1. n - 1 \in Nat
      BY <2>4
    <3>2. PICK h : h = CHOOSE x : Run(x, n - 1)
      OBVIOUS
    <3>3. Run(h, n - 1) /\ r[n - 1] = h[n - 1]
      BY <1>1, <3>1, <3>2
    <3>4. n - 1 <= n - 1 /\ n - 1 <= n
      OBVIOUS
    <3>5. h[n - 1] = g[n - 1]
      BY <1>2, <2>2, <3>1, <3>3, <3>4
    <3> QED BY <2>2, <2>3, <2>4, <3>3, <3>5
  <2> QED BY <2>2, <2>3, <2>4
<1>4. r = [n \in Nat |-> IF n = 0 THEN start ELSE Step(r[n - 1], n)]
  <2>1. r = [n \in Nat |-> r[n]]
    OBVIOUS
  <2> HIDE DEF r
  <2> QED BY <1>3, <2>1
<1> HIDE DEF r
<1> DEFINE f == T!MkdirSteps(t, p)
<1>5. f = CHOOSE x : x = [n \in Nat |-> IF n = 0 THEN start ELSE Step(x[n - 1], n)]
  BY Zenon DEF T!MkdirSteps, start, Step
<1> HIDE DEF f
<1>6. f = [n \in Nat |-> IF n = 0 THEN start ELSE Step(f[n - 1], n)]
  BY <1>4, <1>5
<1>7. f[0] = start
  BY <1>6
<1>8. \A n \in Nat : f[n + 1] = Step(f[n], n + 1)
  BY <1>6
<1> QED BY <1>7, <1>8, Zenon DEF f, start, Step

\* The walk of the overlay's MkdirAll, one name after the other.
LEMMA MkdirWalkStep ==
  ASSUME NEW s, NEW p
  PROVE  /\ MkdirWalk(s, p)[0] = [err |-> "found", path |-> <<>>, rest |-> p]
         /\ \A n \in Nat : MkdirWalk(s, p)[n + 1] = MkdirStep(s, MkdirWalk(s, p)[n])
<1> DEFINE start == [err |-> "found", path |-> <<>>, rest |-> p]
           Step(x, n) == MkdirStep(s, x)
           Run(g, n) == g = [i \in 0..n |-> IF i = 0 THEN start ELSE Step(g[i - 1], i)]
<1> HIDE DEF start, Step
<1>1. \A n \in Nat : \E g : Run(g, n)
  <2> DEFINE Bad == {n \in Nat : ~ \E g : Run(g, n)}
  <2>1. SUFFICES ASSUME Bad # {} PROVE FALSE
    OBVIOUS
  <2>2. PICK m \in Bad : \A k \in Bad : m <= k
    BY <2>1, LeastNatural
  <2>3. CASE m = 0
    <3>1. Run([i \in 0..0 |-> start], 0)
      OBVIOUS
    <3> QED BY <2>2, <2>3, <3>1
  <2>4. CASE m > 0
    <3>1. m - 1 \in Nat /\ m - 1 \notin Bad
      <4>1. Bad \subseteq Nat
        OBVIOUS
      <4> HIDE DEF Bad
      <4> QED BY <2>2, <2>4, <4>1
    <3>2. PICK g : Run(g, m - 1)
      BY <3>1
    <3> DEFINE h == [i \in 0..m |-> IF i = m THEN Step(g[m - 1], m) ELSE g[i]]
    <3>3. ASSUME NEW i \in 0..m PROVE h[i] = IF i = 0 THEN start ELSE Step(h[i - 1], i)
      <4>1. CASE i = m
        BY <2>4, <4>1
      <4>2. CASE i # m
        <5>1. i \in 0..(m - 1) /\ h[i] = g[i]
          BY <2>2, <4>2
        <5>2. g[i] = IF i = 0 THEN start ELSE Step(g[i - 1], i)
          BY <3>2, <5>1
        <5>3. i # 0 => h[i - 1] = g[i - 1]
          BY <2>2, <5>1
        <5> QED BY <5>1, <5>2, <5>3
      <4> QED BY <4>1, <4>2
    <3>4. h = [i \in 0..m |-> IF i = 0 THEN start ELSE Step(h[i - 1], i)]
      BY <3>3
    <3> QED BY <2>2, <3>4
  <2> QED BY <2>2, <2>3, <2>4
<1>2. ASSUME NEW m \in Nat, NEW n \in Nat, NEW g, NEW h, Run(g, m), Run(h, n),
             NEW i \in Nat, i <= m, i <= n
      PROVE  g[i] = h[i]
  <2> DEFINE Bad == {j \in Nat : j <= m /\ j <= n /\ g[j] # h[j]}
  <2>1. SUFFICES ASSUME Bad # {} PROVE FALSE
    BY <1>2
  <2>2. PICK j \in Bad : \A k \in Bad : j <= k
    BY <2>1, LeastNatural
  <2>3. j \in 0..m /\ j \in 0..n
    BY <2>2
  <2>4. /\ g[j] = IF j = 0 THEN start ELSE Step(g[j - 1], j)
        /\ h[j] = IF j = 0 THEN start ELSE Step(h[j - 1], j)
    BY <1>2, <2>3
  <2>5. j # 0 => g[j - 1] = h[j - 1]
    BY <2>2
  <2> QED BY <2>2, <2>4, <2>5
<1> HIDE DEF Run
<1> DEFINE r == [n \in Nat |-> (CHOOSE g : Run(g, n))[n]]
<1>3. ASSUME NEW n \in Nat PROVE r[n] = IF n = 0 THEN start ELSE Step(r[n - 1], n)
  <2>1. PICK g : g = CHOOSE x : Run(x, n)
    OBVIOUS
  <2>2. Run(g, n) /\ r[n] = g[n]
    BY <1>1, <2>1
  <2>3. g[n] = IF n = 0 THEN start ELSE Step(g[n - 1], n)
    BY <2>2 DEF Run
  <2>4. CASE n > 0
    <3>1. n - 1 \in Nat
      BY <2>4
    <3>2. PICK h : h = CHOOSE x : Run(x, n - 1)
      OBVIOUS
    <3>3. Run(h, n - 1) /\ r[n - 1] = h[n - 1]
      BY <1>1, <3>1, <3>2
    <3>4. n - 1 <= n - 1 /\ n - 1 <= n
      OBVIOUS
    <3>5. h[n - 1] = g[n - 1]
      BY <1>2, <2>2, <3>1, <3>3, <3>4
    <3> QED BY <2>2, <2>3, <2>4, <3>3, <3>5
  <2> QED BY <2>2, <2>3, <2>4
<1>4. r = [n \in Nat |-> IF n = 0 THEN start ELSE Step(r[n - 1], n)]
  <2>1. r = [n \in Nat |-> r[n]]
    OBVIOUS
  <2> HIDE DEF r
  <2> QED BY <1>3, <2>1
<1> HIDE DEF r
<1> DEFINE f == MkdirWalk(s, p)
<1>5. f = CHOOSE x : x = [n \in Nat |-> IF n = 0 THEN start ELSE Step(x[n - 1], n)]
  BY Zenon DEF MkdirWalk, start, Step
<1> HIDE DEF f
<1>6. f = [n \in Nat |-> IF n = 0 THEN start ELSE Step(f[n - 1], n)]
  BY <1>4, <1>5
<1>7. f[0] = start
  BY <1>6
<1>8. \A n \in Nat : f[n + 1] = Step(f[n], n + 1)
  BY <1>6
<1> QED BY <1>7, <1>8, Zenon DEF f, start, Step

\* The calls of moveMerged, one after the other.
LEMMA MovesStep ==
  ASSUME NEW s, NEW src, NEW dst
  PROVE  /\ Moves(s, src, dst)[0] = [ok |-> TRUE, s |-> s, moves |-> <<[src |-> src, dst |-> dst]>>]
         /\ \A n \in Nat : Moves(s, src, dst)[n + 1] = MoveNext(Moves(s, src, dst)[n])
<1> DEFINE start == [ok |-> TRUE, s |-> s, moves |-> <<[src |-> src, dst |-> dst]>>]
           Step(x, n) == MoveNext(x)
           Run(g, n) == g = [i \in 0..n |-> IF i = 0 THEN start ELSE Step(g[i - 1], i)]
<1> HIDE DEF start, Step
<1>1. \A n \in Nat : \E g : Run(g, n)
  <2> DEFINE Bad == {n \in Nat : ~ \E g : Run(g, n)}
  <2>1. SUFFICES ASSUME Bad # {} PROVE FALSE
    OBVIOUS
  <2>2. PICK m \in Bad : \A k \in Bad : m <= k
    BY <2>1, LeastNatural
  <2>3. CASE m = 0
    <3>1. Run([i \in 0..0 |-> start], 0)
      OBVIOUS
    <3> QED BY <2>2, <2>3, <3>1
  <2>4. CASE m > 0
    <3>1. m - 1 \in Nat /\ m - 1 \notin Bad
      <4>1. Bad \subseteq Nat
        OBVIOUS
      <4> HIDE DEF Bad
      <4> QED BY <2>2, <2>4, <4>1
    <3>2. PICK g : Run(g, m - 1)
      BY <3>1
    <3> DEFINE h == [i \in 0..m |-> IF i = m THEN Step(g[m - 1], m) ELSE g[i]]
    <3>3. ASSUME NEW i \in 0..m PROVE h[i] = IF i = 0 THEN start ELSE Step(h[i - 1], i)
      <4>1. CASE i = m
        BY <2>4, <4>1
      <4>2. CASE i # m
        <5>1. i \in 0..(m - 1) /\ h[i] = g[i]
          BY <2>2, <4>2
        <5>2. g[i] = IF i = 0 THEN start ELSE Step(g[i - 1], i)
          BY <3>2, <5>1
        <5>3. i # 0 => h[i - 1] = g[i - 1]
          BY <2>2, <5>1
        <5> QED BY <5>1, <5>2, <5>3
      <4> QED BY <4>1, <4>2
    <3>4. h = [i \in 0..m |-> IF i = 0 THEN start ELSE Step(h[i - 1], i)]
      BY <3>3
    <3> QED BY <2>2, <3>4
  <2> QED BY <2>2, <2>3, <2>4
<1>2. ASSUME NEW m \in Nat, NEW n \in Nat, NEW g, NEW h, Run(g, m), Run(h, n),
             NEW i \in Nat, i <= m, i <= n
      PROVE  g[i] = h[i]
  <2> DEFINE Bad == {j \in Nat : j <= m /\ j <= n /\ g[j] # h[j]}
  <2>1. SUFFICES ASSUME Bad # {} PROVE FALSE
    BY <1>2
  <2>2. PICK j \in Bad : \A k \in Bad : j <= k
    BY <2>1, LeastNatural
  <2>3. j \in 0..m /\ j \in 0..n
    BY <2>2
  <2>4. /\ g[j] = IF j = 0 THEN start ELSE Step(g[j - 1], j)
        /\ h[j] = IF j = 0 THEN start ELSE Step(h[j - 1], j)
    BY <1>2, <2>3
  <2>5. j # 0 => g[j - 1] = h[j - 1]
    BY <2>2
  <2> QED BY <2>2, <2>4, <2>5
<1> HIDE DEF Run
<1> DEFINE r == [n \in Nat |-> (CHOOSE g : Run(g, n))[n]]
<1>3. ASSUME NEW n \in Nat PROVE r[n] = IF n = 0 THEN start ELSE Step(r[n - 1], n)
  <2>1. PICK g : g = CHOOSE x : Run(x, n)
    OBVIOUS
  <2>2. Run(g, n) /\ r[n] = g[n]
    BY <1>1, <2>1
  <2>3. g[n] = IF n = 0 THEN start ELSE Step(g[n - 1], n)
    BY <2>2 DEF Run
  <2>4. CASE n > 0
    <3>1. n - 1 \in Nat
      BY <2>4
    <3>2. PICK h : h = CHOOSE x : Run(x, n - 1)
      OBVIOUS
    <3>3. Run(h, n - 1) /\ r[n - 1] = h[n - 1]
      BY <1>1, <3>1, <3>2
    <3>4. n - 1 <= n - 1 /\ n - 1 <= n
      OBVIOUS
    <3>5. h[n - 1] = g[n - 1]
      BY <1>2, <2>2, <3>1, <3>3, <3>4
    <3> QED BY <2>2, <2>3, <2>4, <3>3, <3>5
  <2> QED BY <2>2, <2>3, <2>4
<1>4. r = [n \in Nat |-> IF n = 0 THEN start ELSE Step(r[n - 1], n)]
  <2>1. r = [n \in Nat |-> r[n]]
    OBVIOUS
  <2> HIDE DEF r
  <2> QED BY <1>3, <2>1
<1> HIDE DEF r
<1> DEFINE f == Moves(s, src, dst)
<1>5. f = CHOOSE x : x = [n \in Nat |-> IF n = 0 THEN start ELSE Step(x[n - 1], n)]
  BY Zenon DEF Moves, start, Step
<1> HIDE DEF f
<1>6. f = [n \in Nat |-> IF n = 0 THEN start ELSE Step(f[n - 1], n)]
  BY <1>4, <1>5
<1>7. f[0] = start
  BY <1>6
<1>8. \A n \in Nat : f[n + 1] = Step(f[n], n + 1)
  BY <1>6
<1> QED BY <1>7, <1>8, Zenon DEF f, start, Step

-----------------------------------------------------------------------------
\* MkdirAll.

\* The directories made for e when q is the first name missing.
MadeDirs(q, e) == {x \in Ancestors(e) \cup {e} : Under(q, x)}

\* The tree t with the directories made.
Made(t, q, e) == [x \in DOMAIN t \cup MadeDirs(q, e) |-> IF x \in DOMAIN t THEN t[x] ELSE T!Dir("new")]

\* The node of a directory that was just made.
LEMMA NewDir == T!Dir("new") \in T!Node /\ T!Dir("new").kind = "dir" /\ T!Dir("new").attr = "new"
<1>1. PICK attr \in {"seed", "edited", "new"} : attr = "new"
  OBVIOUS
<1> QED BY <1>1, DirNode

\* Directories lead to every made directory.
LEMMA MadeDirsTo ==
  ASSUME NEW t, NEW q \in Path, NEW e \in Path, \A x \in DOMAIN t : ~Under(q, x), DirsTo(t, q),
         NEW x \in MadeDirs(q, e)
  PROVE  x \in Path /\ DirsTo(Made(t, q, e), x)
<1> DEFINE u == Made(t, q, e)
<1>1. x \in Path /\ (x = e \/ x \in Ancestors(e)) /\ (x = q \/ q \in Ancestors(x))
  BY AncestorOf DEF MadeDirs, Under
<1>2. /\ DOMAIN u = DOMAIN t \cup MadeDirs(q, e)
      /\ \A y \in DOMAIN t : u[y] = t[y]
      /\ \A y \in MadeDirs(q, e) : u[y] = T!Dir("new")
  BY DEF Made, MadeDirs
<1> HIDE DEF u
<1>3. ASSUME NEW r \in Ancestors(x) PROVE T!IsDir(u, r)
  <2>1. r \in Ancestors(e)
    BY <1>1, AncestorTrans
  <2>2. CASE Under(q, r)
    <3>1. r \in MadeDirs(q, e)
      BY <2>1, <2>2 DEF MadeDirs
    <3> QED BY <1>2, <3>1, NewDir DEF T!IsDir
  <2>3. CASE ~Under(q, r)
    <3>1. r \in Ancestors(q)
      BY <1>1, <2>3, AncestorsOnLine DEF Under
    <3> QED BY <1>2, <3>1 DEF DirsTo, T!IsDir
  <2> QED BY <2>2, <2>3
<1> QED BY <1>1, <1>3 DEF DirsTo, u

\* A row of new directories in the upper tree is one in the view.
LEMMA AddDirs ==
  ASSUME NEW s, NEW q, FreeAt(s, q, s.tomb), NEW e \in Path, Under(q, e)
  PROVE  LET z == WithUpper(s, Made(s.upper, q, e)) IN
         WellFormed(z) /\ Merged(z) = Made(Merged(s), q, e)
<1> DEFINE t == s.upper
           D == MadeDirs(q, e)
           u == Made(t, q, e)
           z == WithUpper(s, u)
           m == Merged(s)
           c == Made(m, q, e)
           v == Visible(s)
           w == Visible(z)
<1>1. WellFormed(s) /\ q \in Path /\ q # <<>> /\ q \notin DOMAIN v /\ DirsTo(t, q)
  BY DEF FreeAt
<1>2. t \in [DOMAIN t -> T!Node] /\ DOMAIN t \subseteq Path /\ IsFiniteSet(DOMAIN t) /\ s.tomb \subseteq Path
      /\ Plain(t) /\ Numbered(t)
  BY <1>1 DEF WellFormed, StateOK
<1>3. q \notin DOMAIN t /\ \A x \in DOMAIN t : ~Under(q, x)
  BY <1>1, VisibleAt, NothingUnder
<1>4. \A x \in DOMAIN m : ~Under(q, x)
  <2>1. \A x \in DOMAIN m : x # q /\ DirsTo(v, x)
    BY <1>1, MergedAt
  <2> QED BY <1>1, <2>1 DEF DirsTo, Under, T!IsDir
<1>5. ASSUME NEW x \in DOMAIN Lower, Under(q, x) PROVE isHidden(s, x)
  <2>1. q \in DOMAIN Lower /\ x \in Path
    BY <1>5, LowerTree DEF Under, DirsTo, T!IsDir
  <2>2. isHidden(s, q)
    BY <1>1, <2>1, VisibleAt
  <2> QED BY <1>1, <1>5, <2>1, <2>2, HiddenBelow DEF Under
<1>6. /\ DOMAIN u = DOMAIN t \cup D /\ u = [x \in DOMAIN u |-> u[x]]
      /\ \A x \in DOMAIN t : u[x] = t[x]
      /\ \A x \in D : u[x] = T!Dir("new")
  BY <1>3 DEF Made, MadeDirs
<1>7. /\ DOMAIN c = DOMAIN m \cup D /\ c = [x \in DOMAIN c |-> c[x]]
      /\ \A x \in DOMAIN m : c[x] = m[x]
      /\ \A x \in D : c[x] = T!Dir("new")
  BY <1>4 DEF Made, MadeDirs
<1>8. \A x \in D : x \in Path /\ DirsTo(u, x) /\ Under(q, x)
  BY <1>1, <1>3, MadeDirsTo DEF MadeDirs
<1>9. IsFiniteSet(D)
  <2>1. IsFiniteSet(Ancestors(e))
    BY AncestorsFinite
  <2>2. IsFiniteSet(Ancestors(e) \cup {e})
    BY <2>1, FS_AddElement
  <2>3. D \subseteq Ancestors(e) \cup {e}
    BY DEF MadeDirs
  <2> HIDE DEF D
  <2> QED BY <2>2, <2>3, FS_Subset
<1>10. z.upper = u /\ z.tomb = s.tomb /\ z = Layers(z.upper, z.tomb)
  BY LayersAre DEF WithUpper
<1> HIDE DEF D, u, c, z
<1>11. u \in [DOMAIN u -> T!Node] /\ DOMAIN u \subseteq Path
  BY <1>2, <1>6, <1>8, NewDir
<1>12. StateOK(z)
  <2>1. IsFiniteSet(DOMAIN t \cup D)
    BY <1>2, <1>9, FS_Union
  <2> QED BY <1>2, <1>6, <1>10, <1>11, <2>1 DEF StateOK
<1>13. \A x : isHidden(z, x) <=> isHidden(s, x)
  BY <1>10 DEF isHidden
<1>14. WellFormed(z)
  <2>1. Rooted(z)
    BY <1>1, <1>6, <1>10 DEF WellFormed, Rooted, T!IsDir
  <2>2. Closed(z)
    <3>1. \A x \in DOMAIN t : DirsTo(u, x)
      BY <1>1, <1>6 DEF WellFormed, Closed, DirsTo, T!IsDir
    <3> QED BY <1>6, <1>8, <1>10, <3>1 DEF Closed
  <2>3. Shadows(z)
    <3> SUFFICES ASSUME NEW x \in DOMAIN Lower, T!IsDir(u, x), Lower[x].kind # "dir" PROVE isHidden(s, x)
      BY <1>10, <1>13 DEF Shadows
    <3>1. CASE x \in D
      BY <1>5, <1>8, <3>1
    <3>2. CASE x \in DOMAIN t
      BY <1>1, <1>6, <3>2 DEF WellFormed, Shadows, T!IsDir
    <3> QED BY <1>6, <3>1, <3>2 DEF T!IsDir
  <2>4. Plain(u)
    BY <1>2, <1>6, NewDir DEF Plain
  <2>5. Numbered(u)
    <3>1. ASSUME NEW x \in DOMAIN u, u[x].kind # "dir" PROVE x \in DOMAIN t /\ T!Links(u, x) = T!Links(t, x)
      <4>1. x \in DOMAIN t /\ u[x] = t[x]
        BY <1>6, <3>1, NewDir
      <4> QED BY <1>6, <3>1, <4>1, NewDir DEF T!Links
    <3> QED BY <1>2, <1>6, <3>1 DEF Numbered
  <2> QED BY <1>10, <1>12, <2>1, <2>2, <2>3, <2>4, <2>5 DEF WellFormed
<1>15. ASSUME NEW x \in Path, ~Under(q, x)
       PROVE  /\ x \in DOMAIN w <=> x \in DOMAIN v
              /\ x \in DOMAIN v => w[x] = v[x]
              /\ T!IsDir(w, x) <=> T!IsDir(v, x)
  <2>1. x \in DOMAIN u <=> x \in DOMAIN t
    BY <1>6, <1>8, <1>15
  <2> QED BY <1>6, <1>10, <1>13, <2>1, VisibleAt DEF T!IsDir
<1>16. ASSUME NEW x \in Path, Under(q, x)
       PROVE  /\ x \in DOMAIN w <=> x \in D
              /\ x \in D => w[x] = T!Dir("new")
  BY <1>3, <1>5, <1>6, <1>10, <1>13, <1>16, VisibleAt
<1>17. \A x \in D : DirsTo(w, x)
  BY <1>8, <1>10, VisibleAt DEF DirsTo, T!IsDir
<1>18. \A x \in Path : ~Under(q, x) => (DirsTo(w, x) <=> DirsTo(v, x))
  BY <1>1, <1>15, DirsOutside DEF Under
<1>19. DOMAIN m \subseteq Path
  BY <1>1, MergedTree DEF WellFormed
<1>20. \A x \in Path : x \in DOMAIN c <=> x \in DOMAIN w /\ DirsTo(w, x)
  BY <1>4, <1>7, <1>8, <1>15, <1>16, <1>17, <1>18, MergedAt
<1>21. \A x \in DOMAIN c : c[x] = w[x]
  BY <1>4, <1>7, <1>8, <1>15, <1>16, <1>19, MergedAt
<1>22. DOMAIN c \subseteq Path
  BY <1>7, <1>8, <1>19
<1>23. Merged(z) = c
  BY <1>7, <1>12, <1>20, <1>21, <1>22, MergedIs
<1> QED BY <1>14, <1>23 DEF c, u, z

\* The path that MkdirAll has come to after name j of p, when it was at a after
\* name k.
Along(a, p, k, j) == a \o SubSeq(p, k + 1, j)

\* What Along is, name by name.
IsAlong(e, a, p, k, j) ==
  /\ e \in Path /\ Len(e) = Len(a) + (j - k)
  /\ \A i \in 1..Len(a) : e[i] = a[i]
  /\ \A i \in 1..(j - k) : e[Len(a) + i] = p[k + i]

\* Along is that path.
LEMMA AlongAt ==
  ASSUME NEW a \in Path, NEW p \in Path, NEW k \in Nat, NEW j \in Nat, k <= j, j <= Len(p)
  PROVE  IsAlong(Along(a, p, k, j), a, p, k, j)
<1> DEFINE r == SubSeq(p, k + 1, j)
           e == a \o r
<1>1. p \in Seq(STRING) /\ a \in Seq(STRING) /\ k + 1 \in 1..(Len(p) + 1) /\ j \in 0..Len(p)
      /\ \A i \in (k + 1)..j : p[i] \in STRING
  BY DEF Path
<1>2. r \in Seq(STRING) /\ Len(r) = j - k
  <2>1. r \in Seq(STRING)
    BY <1>1, SubSeqProperties
  <2>2. Len(r) = IF k + 1 <= j THEN j - (k + 1) + 1 ELSE 0
    BY <1>1, SubSeqProperties
  <2> HIDE DEF r
  <2>3. CASE k + 1 <= j
    BY <2>1, <2>2, <2>3
  <2>4. CASE ~(k + 1 <= j)
    BY <2>1, <2>2, <2>4
  <2> QED BY <2>3, <2>4
<1>3. \A i \in 1..(j - k) : r[i] = p[k + i]
  BY <1>1, <1>2
<1> HIDE DEF r
<1>4. e \in Seq(STRING)
  BY <1>1, <1>2, ConcatProperties
<1>5. Len(e) = Len(a) + Len(r)
  <2>1. a \in Seq(STRING) /\ r \in Seq(STRING)
    BY <1>1, <1>2
  <2> QED BY <2>1, ConcatProperties
<1>6. \A i \in 1..(Len(a) + Len(r)) : e[i] = IF i <= Len(a) THEN a[i] ELSE r[i - Len(a)]
  BY <1>1, <1>2
<1> HIDE DEF e
<1>7. Len(a) \in Nat
  BY DEF Path
<1>8. \A i \in 1..Len(a) : e[i] = a[i]
  BY <1>2, <1>6, <1>7
<1>9. ASSUME NEW i \in 1..(j - k) PROVE e[Len(a) + i] = p[k + i]
  <2>1. Len(a) + i \in 1..(Len(a) + Len(r)) /\ ~(Len(a) + i <= Len(a)) /\ Len(a) + i - Len(a) = i
    BY <1>2, <1>7
  <2> QED BY <1>3, <1>6, <2>1
<1> QED BY <1>2, <1>4, <1>5, <1>8, <1>9 DEF Along, IsAlong, Path, e, r

\* It starts at a.
LEMMA AlongStart ==
  ASSUME NEW a \in Path, NEW p \in Path, NEW k \in Nat, k <= Len(p)
  PROVE  Along(a, p, k, k) = a
<1> DEFINE e == Along(a, p, k, k)
<1>0. IsAlong(e, a, p, k, k)
  BY AlongAt
<1>1. e \in Path /\ Len(e) = Len(a) /\ \A i \in 1..Len(a) : e[i] = a[i]
  BY <1>0 DEF IsAlong, Path
<1> HIDE DEF e
<1> QED BY <1>1, SeqEqual DEF Path, e

\* Its next step appends the next name of p.
LEMMA AlongNext ==
  ASSUME NEW a \in Path, NEW p \in Path, NEW k \in Nat, NEW j \in Nat, k <= j, j < Len(p)
  PROVE  p[j + 1] \in STRING /\ Along(a, p, k, j + 1) = Append(Along(a, p, k, j), p[j + 1])
<1> DEFINE e == Along(a, p, k, j)
           g == Along(a, p, k, j + 1)
           c == Append(e, p[j + 1])
<1>1. p[j + 1] \in STRING /\ Len(a) \in Nat /\ Len(p) \in Nat
  BY DEF Path
<1>2. e \in Path /\ Len(e) = Len(a) + (j - k) /\ (\A i \in 1..Len(a) : e[i] = a[i])
      /\ \A i \in 1..(j - k) : e[Len(a) + i] = p[k + i]
  <2>1. j <= Len(p)
    BY <1>1
  <2>2. IsAlong(e, a, p, k, j)
    BY <2>1, AlongAt
  <2> QED BY <2>2 DEF IsAlong
<1>3. g \in Path /\ Len(g) = Len(a) + (j + 1 - k) /\ (\A i \in 1..Len(a) : g[i] = a[i])
      /\ \A i \in 1..(j + 1 - k) : g[Len(a) + i] = p[k + i]
  <2>1. j + 1 \in Nat /\ k <= j + 1 /\ j + 1 <= Len(p)
    BY <1>1
  <2>2. IsAlong(g, a, p, k, j + 1)
    BY <2>1, AlongAt
  <2> QED BY <2>2 DEF IsAlong
<1> HIDE DEF e, g
<1>4. e \in Seq(STRING)
  BY <1>2 DEF Path
<1>5. c \in Seq(STRING)
  BY <1>1, <1>4, AppendProperties
<1>6. Len(c) = Len(e) + 1
  BY <1>1, <1>4, AppendProperties
<1>7. c[Len(e) + 1] = p[j + 1]
  BY <1>1, <1>4, AppendProperties
<1>8. \A i \in 1..Len(e) : c[i] = e[i]
  BY <1>1, <1>4, AppendProperties
<1> HIDE DEF c
<1>9. ASSUME NEW i \in 1..Len(g) PROVE c[i] = g[i]
  <2>1. CASE i <= Len(a)
    BY <1>1, <1>2, <1>3, <1>8, <2>1
  <2>2. CASE i > Len(a) /\ i < Len(g)
    <3>1. PICK d \in Nat : d = i - Len(a)
      <4>1. Len(g) \in Nat /\ i \in Nat
        BY <1>3 DEF Path
      <4>2. i - Len(a) \in Nat
        BY <1>1, <2>2, <4>1
      <4> QED BY <4>2
    <3>2. d \in 1..(j - k) /\ d \in 1..(j + 1 - k) /\ i \in 1..Len(e) /\ i = Len(a) + d
      BY <1>1, <1>2, <1>3, <2>2, <3>1
    <3> QED BY <1>2, <1>3, <1>8, <3>2
  <2>3. CASE i = Len(g)
    <3>1. PICK d \in Nat : d = j + 1 - k
      BY <1>1
    <3>2. d \in 1..(j + 1 - k) /\ i = Len(a) + d /\ i = Len(e) + 1 /\ k + d = j + 1
      BY <1>1, <1>2, <1>3, <2>3, <3>1
    <3> QED BY <1>3, <1>7, <3>2
  <2> QED BY <1>1, <1>3, <2>1, <2>2, <2>3
<1>10. g = c
  <2>1. Len(g) = Len(c)
    BY <1>1, <1>2, <1>3, <1>6
  <2> QED BY <1>3, <1>5, <1>9, <2>1, SeqEqual DEF Path
<1> QED BY <1>1, <1>10 DEF c, e, g

\* The rest of p after its next name, put behind that name.
LEMMA AlongRest ==
  ASSUME NEW a \in Path, NEW p \in Path, NEW k \in Nat, k < Len(p)
  PROVE  Append(a, p[k + 1]) \o SubSeq(p, k + 2, Len(p)) = Along(a, p, k, Len(p))
<1> DEFINE n == Append(a, p[k + 1])
           e == Along(a, p, k, Len(p))
           g == Along(n, p, k + 1, Len(p))
<1>1. /\ p[k + 1] \in STRING /\ Len(a) \in Nat /\ Len(p) \in Nat /\ k + 1 \in Nat /\ k + 1 <= Len(p)
      /\ a \in Seq(STRING)
  BY DEF Path
<1>2. n \in Seq(STRING)
  BY <1>1, AppendProperties
<1>3. Len(n) = Len(a) + 1
  BY <1>1, AppendProperties
<1>4. n[Len(a) + 1] = p[k + 1]
  BY <1>1, AppendProperties
<1>5. \A i \in 1..Len(a) : n[i] = a[i]
  BY <1>1, AppendProperties
<1>6. n \in Path
  BY <1>2 DEF Path
<1>7. g = n \o SubSeq(p, k + 2, Len(p))
  <2>1. (k + 1) + 1 = k + 2
    OBVIOUS
  <2> HIDE DEF n
  <2> QED BY <2>1, Zenon DEF Along
<1> HIDE DEF n
<1>8. e \in Path /\ Len(e) = Len(a) + (Len(p) - k) /\ (\A i \in 1..Len(a) : e[i] = a[i])
      /\ \A i \in 1..(Len(p) - k) : e[Len(a) + i] = p[k + i]
  <2>1. k <= Len(p) /\ Len(p) <= Len(p)
    BY <1>1
  <2>2. IsAlong(e, a, p, k, Len(p))
    BY <1>1, <2>1, AlongAt
  <2> QED BY <2>2 DEF IsAlong
<1>9. g \in Path /\ Len(g) = Len(n) + (Len(p) - (k + 1)) /\ (\A i \in 1..Len(n) : g[i] = n[i])
      /\ \A i \in 1..(Len(p) - (k + 1)) : g[Len(n) + i] = p[k + 1 + i]
  <2>1. Len(p) <= Len(p)
    BY <1>1
  <2>2. IsAlong(g, n, p, k + 1, Len(p))
    BY <1>1, <1>6, <2>1, AlongAt
  <2> QED BY <2>2 DEF IsAlong
<1> HIDE DEF e, g
<1>10. ASSUME NEW i \in 1..Len(g) PROVE e[i] = g[i]
  <2>1. CASE i <= Len(a)
    BY <1>1, <1>3, <1>5, <1>8, <1>9, <2>1
  <2>2. CASE i = Len(a) + 1
    <3>1. 1 \in 1..(Len(p) - k) /\ i \in 1..Len(n)
      BY <1>1, <1>3, <2>2
    <3> QED BY <1>4, <1>8, <1>9, <2>2, <3>1
  <2>3. CASE i > Len(a) + 1
    <3>0. i \in Nat /\ i - Len(n) \in Nat
      BY <1>1, <1>3, <1>9, <2>3
    <3>1. PICK d \in Nat : d = i - Len(n)
      BY <3>0
    <3>2. d \in 1..(Len(p) - (k + 1)) /\ i = Len(n) + d
      BY <1>1, <1>3, <1>9, <2>3, <3>1
    <3>3. d + 1 \in 1..(Len(p) - k) /\ i = Len(a) + (d + 1) /\ k + (d + 1) = k + 1 + d
      BY <1>1, <1>3, <3>2
    <3>4. e[Len(a) + (d + 1)] = p[k + (d + 1)]
      BY <1>8, <3>3
    <3>5. g[Len(n) + d] = p[k + 1 + d]
      BY <1>9, <3>2
    <3> QED BY <3>2, <3>3, <3>4, <3>5
  <2> QED BY <1>1, <2>1, <2>2, <2>3
<1>11. e = g
  <2>1. Len(e) = Len(g)
    BY <1>1, <1>3, <1>8, <1>9
  <2> QED BY <1>8, <1>9, <1>10, <2>1, SeqEqual DEF Path
<1> QED BY <1>7, <1>11 DEF e, n

\* One directory more is made for a longer path.
LEMMA UnderAppend ==
  ASSUME NEW q \in Path, q # <<>>, NEW x \in Path, NEW n \in STRING
  PROVE  /\ Under(q, x) => Under(q, Append(x, n))
         /\ Under(q, Append(x, n)) =>
              /\ MadeDirs(q, Append(x, n)) = MadeDirs(q, x) \cup {Append(x, n)}
              /\ Append(x, n) \notin MadeDirs(q, x)
<1> DEFINE c == Append(x, n)
<1>1. c \in Path /\ c # <<>> /\ Ancestors(c) = Ancestors(x) \cup ({x} \ {<<>>})
  BY AppendPath
<1> HIDE DEF c
<1>2. ~Under(q, <<>>)
  BY AncestorsOfRoot DEF Under
<1>3. Under(q, x) => Under(q, c)
  BY <1>1, <1>2 DEF Under
<1>4. c \notin Ancestors(x) /\ c # x
  <2>1. c \notin Ancestors(c)
    BY <1>1, AncestorOf
  <2>2. x # c
    <3>1. x # <<>> => x \in Ancestors(c)
      BY <1>1
    <3> QED BY <1>1, <2>1, <3>1
  <2> QED BY <1>1, <2>1, <2>2
<1>5. ASSUME Under(q, c) PROVE MadeDirs(q, c) = MadeDirs(q, x) \cup {c} /\ c \notin MadeDirs(q, x)
  BY <1>1, <1>2, <1>4, <1>5 DEF MadeDirs
<1> QED BY <1>3, <1>5 DEF c

\* Once a name is missing, MkdirAll makes it and every name after it.
MadeTo(t0, q, e) == [ok |-> TRUE, t |-> Made(t0, q, e), at |-> e]

\* The tree has nothing at q or below it.
Vacant(t, q) == \A x \in DOMAIN t : ~Under(q, x)

\* The tree is a function.
IsMap(t) == t = [x \in DOMAIN t |-> t[x]]

\* MkdirAll has come to the directory a without making any.
ReachedDir(t, a) == [ok |-> TRUE, t |-> t, at |-> a]

\* One name of MkdirAll after the first missing one.
LEMMA MadeNext ==
  ASSUME NEW t0, NEW q \in Path, q # <<>>, Vacant(t0, q),
         NEW x \in Path, NEW n \in STRING, Under(q, Append(x, n))
  PROVE  T!MkdirStep(MadeTo(t0, q, x), n) = MadeTo(t0, q, Append(x, n))
<1> DEFINE c == Append(x, n)
           m == MadeTo(t0, q, x)
           u == Made(t0, q, x)
<1>1. MadeDirs(q, c) = MadeDirs(q, x) \cup {c} /\ c \notin MadeDirs(q, x) /\ c \notin DOMAIN t0
  BY UnderAppend DEF Vacant
<1>2. m.ok = TRUE /\ m.t = u /\ m.at = x
  BY DEF MadeTo
<1>3. c \notin DOMAIN u
  BY <1>1 DEF Made
<1>4. T!Put(u, c, T!Dir("new")) = Made(t0, q, c)
  BY <1>1, <1>3 DEF T!Put, Made
<1> HIDE DEF m, u
<1>5. T!MkdirStep(m, n) = [ok |-> TRUE, t |-> T!Put(u, c, T!Dir("new")), at |-> c]
  <2>1. Append(m.at, n) = c /\ Append(m.at, n) \notin DOMAIN m.t
    BY <1>2, <1>3
  <2> HIDE DEF c
  <2> QED BY <1>2, <2>1, Zenon DEF T!MkdirStep
<1> QED BY <1>4, <1>5 DEF MadeTo, m

\* After k names of p MkdirAll is at a and the next name, q, is missing.
MissesName(t, t0, p, a, k, q) ==
  /\ p \in Path /\ a \in Path /\ k \in Nat /\ k < Len(p) /\ q = Append(a, p[k + 1])
  /\ T!MkdirSteps(t, p)[k] = ReachedDir(t0, a) /\ IsMap(t0) /\ Vacant(t0, q)

\* All the names after the first missing one.
LEMMA MakesRest ==
  ASSUME NEW t, NEW t0, NEW p, NEW a, NEW k, NEW q, MissesName(t, t0, p, a, k, q)
  PROVE  T!MkdirSteps(t, p)[Len(p)] = MadeTo(t0, q, Along(a, p, k, Len(p)))
<1>0. /\ p \in Path /\ a \in Path /\ k \in Nat /\ k < Len(p) /\ q = Append(a, p[k + 1])
      /\ T!MkdirSteps(t, p)[k] = ReachedDir(t0, a) /\ IsMap(t0) /\ Vacant(t0, q)
  BY DEF MissesName
<1> USE <1>0
<1> DEFINE f == T!MkdirSteps(t, p)
           e(j) == Along(a, p, k, j)
           Bad == {j \in Nat : k <= j /\ j <= Len(p) /\ f[j] # MadeTo(t0, q, e(j))}
<1>1. p[k + 1] \in STRING /\ Len(p) \in Nat
  BY DEF Path
<1>2. q \in Path /\ q # <<>> /\ Ancestors(q) = Ancestors(a) \cup ({a} \ {<<>>})
  BY <1>1, AppendPath
<1>3. \A n \in Nat : f[n + 1] = T!MkdirStep(f[n], p[n + 1])
  BY MkdirStepsStep
<1>4. f[k] = MadeTo(t0, q, e(k))
  <2>1. e(k) = a
    BY <1>1, AlongStart
  <2>2. q \notin Ancestors(a) /\ q # a
    <3>1. q \notin Ancestors(q)
      BY <1>2, AncestorOf
    <3> QED BY <1>2, <3>1
  <2>3. MadeDirs(q, a) = {}
    <3>1. ASSUME NEW x \in Ancestors(a) PROVE ~Under(q, x)
      BY <1>2, <2>2, AncestorTrans, AncestorOf DEF Under
    <3>2. ~Under(q, a)
      BY <2>2 DEF Under
    <3> QED BY <3>1, <3>2 DEF MadeDirs
  <2>4. Made(t0, q, a) = t0
    BY <2>3 DEF Made, IsMap
  <2> QED BY <2>1, <2>4 DEF MadeTo, ReachedDir
<1>5. ASSUME NEW j \in Nat, k < j, j <= Len(p) PROVE e(j) \in Path /\ Under(q, e(j))
  <2>1. e(j) \in Path /\ Len(e(j)) = Len(a) + (j - k) /\ (\A i \in 1..Len(a) : e(j)[i] = a[i])
        /\ \A i \in 1..(j - k) : e(j)[Len(a) + i] = p[k + i]
    <3>1. k <= j
      BY <1>5
    <3>2. IsAlong(e(j), a, p, k, j)
      BY <1>5, <3>1, AlongAt
    <3> QED BY <3>2 DEF IsAlong
  <2> HIDE DEF e
  <2>2. Len(a) \in Nat
    BY DEF Path
  <2>3. Len(q) = Len(a) + 1 /\ q[Len(a) + 1] = p[k + 1] /\ \A i \in 1..Len(a) : q[i] = a[i]
    BY <1>1, AppendProperties DEF Path
  <2>4. \A i \in 1..Len(q) : q[i] = e(j)[i]
    <3>1. 1 \in 1..(j - k)
      BY <1>5
    <3>2. e(j)[Len(a) + 1] = p[k + 1]
      BY <2>1, <3>1
    <3>3. ASSUME NEW i \in 1..Len(q) PROVE q[i] = e(j)[i]
      <4>1. CASE i = Len(a) + 1
        BY <2>3, <3>2, <4>1
      <4>2. CASE i # Len(a) + 1
        <5>1. i \in 1..Len(a)
          BY <2>2, <2>3, <4>2
        <5> QED BY <2>1, <2>3, <5>1
      <4> QED BY <4>1, <4>2
    <3> QED BY <3>3
  <2>5. CASE j = k + 1
    <3>1. Len(e(j)) = Len(q)
      BY <2>1, <2>2, <2>3, <2>5
    <3> QED BY <1>2, <2>1, <2>4, <3>1, SeqEqual DEF Under, Path
  <2>6. CASE j > k + 1
    <3>1. 1 <= Len(q) /\ Len(q) < Len(e(j))
      BY <2>1, <2>2, <2>3, <2>6
    <3> QED BY <1>2, <2>1, <2>4, <3>1, AncestorOf DEF Under
  <2> QED BY <1>5, <2>1, <2>5, <2>6
<1>6. ASSUME NEW j \in Nat, k <= j, j <= Len(p) PROVE e(j) \in Path
  BY <1>1, <1>6, AlongAt DEF IsAlong
<1>7. Bad = {}
  <2>1. SUFFICES ASSUME Bad # {} PROVE FALSE
    OBVIOUS
  <2>2. PICK m \in Bad : \A j \in Bad : m <= j
    BY <2>1, LeastNatural
  <2>3. m \in Nat /\ k <= m /\ m <= Len(p) /\ f[m] # MadeTo(t0, q, e(m))
    BY <2>2
  <2>4. m # k
    BY <1>4, <2>3
  <2>5. PICK j \in Nat : j = m - 1
    BY <2>3, <2>4
  <2>6. k <= j /\ j < Len(p) /\ j <= Len(p) /\ m = j + 1 /\ j \notin Bad
    BY <1>1, <2>2, <2>3, <2>4, <2>5
  <2>7. f[j] = MadeTo(t0, q, e(j))
    BY <2>6
  <2>8. f[m] = T!MkdirStep(f[j], p[j + 1])
    BY <1>3, <2>6
  <2>9. p[j + 1] \in STRING /\ e(m) = Append(e(j), p[j + 1])
    BY <2>6, AlongNext
  <2>10. e(j) \in Path /\ Under(q, e(m))
    BY <1>5, <1>6, <2>3, <2>4, <2>6
  <2> HIDE DEF e, f, Bad
  <2>11. T!MkdirStep(MadeTo(t0, q, e(j)), p[j + 1]) = MadeTo(t0, q, e(m))
    <3>1. PICK x \in Path, n \in STRING : x = e(j) /\ n = p[j + 1]
      BY <2>9, <2>10
    <3>2. Under(q, Append(x, n)) /\ q \in Path /\ q # <<>> /\ Vacant(t0, q) /\ e(m) = Append(x, n)
      BY <1>2, <2>9, <2>10, <3>1
    <3>3. T!MkdirStep(MadeTo(t0, q, x), n) = MadeTo(t0, q, Append(x, n))
      BY <3>2, MadeNext, Zenon
    <3> QED BY <3>1, <3>2, <3>3
  <2> QED BY <2>3, <2>7, <2>8, <2>11
<1>8. Len(p) \notin Bad
  BY <1>7
<1> QED BY <1>1, <1>8

\* One name of MkdirAll that is a directory.
LEMMA MkdirFound ==
  ASSUME NEW t, NEW a \in Path, NEW n \in STRING, T!IsDir(t, Append(a, n)), DirsTo(t, Append(a, n))
  PROVE  T!MkdirStep(ReachedDir(t, a), n) = ReachedDir(t, Append(a, n))
<1> DEFINE c == Append(a, n)
           m == ReachedDir(t, a)
<1>1. c \in Path
  BY AppendPath
<1>2. m.ok = TRUE /\ m.t = t /\ m.at = a
  BY DEF ReachedDir
<1>3. PICK w : w = T!Walk(t, c, TRUE, FALSE)
  OBVIOUS
<1>4. c \in DOMAIN t /\ t[c].kind # "link"
  BY DEF T!IsDir
<1> HIDE DEF m
<1>5. w = T!Answer("found", c)
  BY <1>1, <1>3, <1>4, WalkHere, Zenon
<1>6. w.err = "found" /\ w.path = c
  BY <1>5 DEF T!Answer
<1>7. Append(m.at, n) = c
  BY <1>2
<1>8. T!IsDir(t, c)
  OBVIOUS
<1> HIDE DEF c
<1>9. T!MkdirStep(m, n) = ReachedDir(t, c)
  BY <1>2, <1>3, <1>4, <1>6, <1>7, <1>8, Zenon DEF T!MkdirStep, ReachedDir
<1> QED BY <1>9 DEF c, m

\* MkdirAll in the upper tree, which has every directory above q and nothing at
\* it.
LEMMA MkdirUpper ==
  ASSUME NEW u, IsMap(u), NEW q \in Path, q # <<>>, DirsTo(u, q),
         \A x \in DOMAIN u : ~Under(q, x), NEW p \in Path, Under(q, p)
  PROVE  T!MkdirAllIn(u, p) = T!Outcome(TRUE, Made(u, q, p))
<1> DEFINE f == T!MkdirSteps(u, p)
           e(j) == Along(<<>>, p, 0, j)
           here(x) == ReachedDir(u, x)
           Bad == {j \in Nat : j < Len(q) /\ f[j] # here(e(j))}
<1>1. /\ Len(p) \in Nat /\ Len(q) \in Nat /\ Len(q) >= 1 /\ Len(q) <= Len(p)
      /\ \A i \in 1..Len(q) : q[i] = p[i]
  <2>1. CASE q = p
    BY <2>1, NonEmptyPath
  <2>2. CASE q \in Ancestors(p)
    BY <2>2, NonEmptyPath, AncestorOf
  <2> QED BY <2>1, <2>2 DEF Under
<1>2. <<>> \in Path /\ Len(<<>>) = 0
  BY DEF Path
<1>3. ASSUME NEW j \in Nat, j <= Len(p)
      PROVE  e(j) \in Path /\ Len(e(j)) = j /\ \A i \in 1..j : e(j)[i] = p[i]
  <2>1. 0 \in Nat /\ 0 <= j
    OBVIOUS
  <2>2. IsAlong(e(j), <<>>, p, 0, j)
    BY <1>2, <1>3, <2>1, AlongAt
  <2> HIDE DEF e
  <2>3. e(j) \in Path /\ Len(e(j)) = 0 + (j - 0) /\ \A i \in 1..(j - 0) : e(j)[0 + i] = p[0 + i]
    BY <1>2, <2>2 DEF IsAlong
  <2> QED BY <2>3
<1>4. ASSUME NEW j \in Nat, j < Len(p)
      PROVE  p[j + 1] \in STRING /\ e(j + 1) = Append(e(j), p[j + 1])
  <2>1. 0 \in Nat /\ 0 <= j
    OBVIOUS
  <2> QED BY <1>2, <1>4, <2>1, AlongNext
<1>5. ASSUME NEW j \in Nat, 1 <= j, j < Len(q) PROVE e(j) \in Ancestors(q)
  <2>1. j <= Len(p)
    BY <1>1, <1>5
  <2> QED BY <1>1, <1>3, <1>5, <2>1, AncestorOf
<1>6. e(Len(q)) = q
  BY <1>1, <1>3, SeqEqual DEF Path
<1>7. e(0) = <<>>
  BY <1>1, <1>3, NonEmptyPath
<1> HIDE DEF e
<1>8. f[0] = here(<<>>) /\ \A n \in Nat : f[n + 1] = T!MkdirStep(f[n], p[n + 1])
  BY MkdirStepsStep DEF ReachedDir
<1>9. Bad = {}
  <2>1. SUFFICES ASSUME Bad # {} PROVE FALSE
    OBVIOUS
  <2>2. PICK m \in Bad : \A j \in Bad : m <= j
    BY <2>1, LeastNatural
  <2>3. m \in Nat /\ m < Len(q) /\ f[m] # here(e(m))
    BY <2>2
  <2>4. m # 0
    BY <1>7, <1>8, <2>3
  <2>5. PICK j \in Nat : j = m - 1
    BY <2>3, <2>4
  <2>6. j < Len(q) /\ j < Len(p) /\ j <= Len(p) /\ m = j + 1 /\ j \notin Bad /\ 1 <= m
    BY <1>1, <2>2, <2>3, <2>4, <2>5
  <2>7. f[j] = here(e(j)) /\ f[m] = T!MkdirStep(f[j], p[j + 1])
    BY <1>8, <2>6
  <2>8. p[j + 1] \in STRING /\ e(m) = Append(e(j), p[j + 1]) /\ e(j) \in Path
    BY <1>3, <1>4, <2>6
  <2>9. e(m) \in Ancestors(q)
    BY <1>5, <2>3, <2>6
  <2>10. T!IsDir(u, e(m)) /\ DirsTo(u, e(m))
    BY <2>9, AncestorTrans DEF DirsTo
  <2> HIDE DEF f, Bad
  <2>11. T!MkdirStep(here(e(j)), p[j + 1]) = here(e(m))
    BY <2>8, <2>10, MkdirFound
  <2> QED BY <2>3, <2>7, <2>11
<1>10. PICK k \in Nat : k + 1 = Len(q)
  <2>1. Len(q) - 1 \in Nat /\ (Len(q) - 1) + 1 = Len(q)
    BY <1>1
  <2> QED BY <2>1
<1>11. k < Len(q) /\ k < Len(p) /\ k <= Len(p) /\ k \notin Bad
  BY <1>1, <1>9, <1>10
<1>12. f[k] = here(e(k)) /\ e(k) \in Path /\ Append(e(k), p[k + 1]) = q
  BY <1>3, <1>4, <1>6, <1>10, <1>11
<1> DEFINE g == Along(e(k), p, k, Len(p))
<1>13. g = p
  <2>1. IsAlong(g, e(k), p, k, Len(p))
    BY <1>1, <1>11, <1>12, AlongAt
  <2> HIDE DEF g
  <2>2. Len(e(k)) = k /\ \A i \in 1..k : e(k)[i] = p[i]
    BY <1>3, <1>11
  <2>3. g \in Path /\ Len(g) = k + (Len(p) - k) /\ (\A i \in 1..k : g[i] = e(k)[i])
        /\ \A i \in 1..(Len(p) - k) : g[k + i] = p[k + i]
    BY <2>1, <2>2 DEF IsAlong
  <2>4. Len(g) = Len(p)
    BY <1>1, <2>3
  <2>5. ASSUME NEW i \in 1..Len(p) PROVE g[i] = p[i]
    <3>1. CASE i <= k
      BY <2>2, <2>3, <3>1
    <3>2. CASE i > k
      <4>1. i - k \in 1..(Len(p) - k) /\ k + (i - k) = i
        BY <1>1, <3>2
      <4>2. g[k + (i - k)] = p[k + (i - k)]
        BY <2>3, <4>1
      <4> QED BY <4>1, <4>2
    <3> QED BY <3>1, <3>2
  <2> QED BY <2>3, <2>4, <2>5, SeqEqual DEF Path
<1>14. T!MkdirSteps(u, p)[Len(p)] = MadeTo(u, q, p)
  <2>1. T!MkdirSteps(u, p)[k] = ReachedDir(u, e(k))
    BY <1>12
  <2>2. Vacant(u, q)
    BY DEF Vacant
  <2> HIDE DEF f, Bad, here
  <2>3. T!MkdirSteps(u, p)[Len(p)] = MadeTo(u, q, g)
    <3>1. MissesName(u, u, p, e(k), k, q)
      BY <1>11, <1>12, <2>1, <2>2 DEF MissesName
    <3> QED BY <3>1, MakesRest
  <2> QED BY <1>12, <1>13, <2>3
<1>15. MadeTo(u, q, p).ok = TRUE /\ MadeTo(u, q, p).t = Made(u, q, p)
  BY DEF MadeTo
<1> QED BY <1>14, <1>15, Zenon DEF T!MkdirAllIn

-----------------------------------------------------------------------------
\* An outcome of one tree that changes it only if it succeeds.
Whole(c, t) == c.ok \/ c.t = t

\* MkdirAll's walk through the view and the steps it would take on the view.
Onward(m, p, f, x, n) ==
  /\ f[n] = ReachedDir(m, x.path) /\ x.path \in Path
  /\ T!IsDir(m, x.path) /\ DirsTo(m, x.path) /\ x.rest = SubSeq(p, n + 1, Len(p))

\* The overlay found name k + 1 missing in the directory a.
MissingAt(m, p, f, x, k, a) ==
  /\ k < Len(p) /\ f[k] = ReachedDir(m, a) /\ T!IsDir(m, a) /\ DirsTo(m, a)
  /\ x.path = Append(a, p[k + 1]) /\ x.path \notin DOMAIN m /\ x.rest = SubSeq(p, k + 2, Len(p))

\* The overlay and the tree have come equally far after n names.
Walked(m, p, f, x, n) ==
  \/ x.err = "found" /\ Onward(m, p, f, x, n)
  \/ x.err = "invalid" /\ f[n].ok = FALSE /\ f[n].t = m
  \/ x.err = "absent" /\ \E k \in Nat, a \in Path : MissingAt(m, p, f, x, k, a)

\* The names left after n.
LEMMA RestOf ==
  ASSUME NEW p \in Path, NEW n \in Nat, n < Len(p)
  PROVE  LET r == SubSeq(p, n + 1, Len(p)) IN
         r # <<>> /\ Head(r) = p[n + 1] /\ Tail(r) = SubSeq(p, n + 2, Len(p)) /\ p[n + 1] \in STRING
<1> DEFINE r == SubSeq(p, n + 1, Len(p))
           h == SubSeq(p, n + 2, Len(p))
<1>1. Len(p) \in Nat /\ p \in Seq(STRING) /\ p[n + 1] \in STRING
  BY DEF Path
<1>2. r \in Seq(STRING) /\ Len(r) = Len(p) - n /\ \A i \in 1..(Len(p) - n) : r[i] = p[n + i]
  BY <1>1
<1>3. h \in Seq(STRING) /\ Len(h) = Len(p) - n - 1 /\ \A i \in 1..(Len(p) - n - 1) : h[i] = p[n + 1 + i]
  BY <1>1
<1> HIDE DEF r, h
<1>4. r # <<>>
  BY <1>1, <1>2
<1>5. Head(r) = p[n + 1]
  BY <1>1, <1>2, <1>4
<1>6. Tail(r) \in Seq(STRING) /\ Len(Tail(r)) = Len(r) - 1 /\ \A i \in 1..(Len(r) - 1) : Tail(r)[i] = r[i + 1]
  BY <1>2, <1>4
<1>7. Len(Tail(r)) = Len(h)
  BY <1>1, <1>2, <1>3, <1>6
<1>8. ASSUME NEW i \in 1..Len(h) PROVE Tail(r)[i] = h[i]
  <2>1. i \in 1..(Len(r) - 1) /\ i \in 1..(Len(p) - n - 1) /\ i + 1 \in 1..(Len(p) - n) /\ n + (i + 1) = n + 1 + i
    BY <1>1, <1>2, <1>3
  <2> QED BY <1>2, <1>3, <1>6, <2>1
<1>9. Tail(r) = h
  BY <1>3, <1>6, <1>7, <1>8, SeqEqual
<1> QED BY <1>1, <1>4, <1>5, <1>9 DEF r, h

\* One name more.
LEMMA WalkedOn ==
  ASSUME NEW s, WellFormed(s), NEW p \in Path, NEW n \in Nat, n < Len(p), NEW f, NEW x,
         f[n + 1] = T!MkdirStep(f[n], p[n + 1]), x.err = "found", Onward(Merged(s), p, f, x, n)
  PROVE  Walked(Merged(s), p, f, MkdirStep(s, x), n + 1)
<1> DEFINE m == Merged(s)
           v == Visible(s)
           next == Append(x.path, p[n + 1])
           y == MkdirStep(s, x)
           b == f[n]
           at(err, q) == [err |-> err, path |-> q, rest |-> Tail(x.rest)]
<1>1. /\ f[n] = ReachedDir(m, x.path) /\ x.path \in Path
      /\ T!IsDir(m, x.path) /\ DirsTo(m, x.path) /\ x.rest = SubSeq(p, n + 1, Len(p))
  BY DEF Onward
<1>2. x.rest # <<>> /\ Head(x.rest) = p[n + 1] /\ Tail(x.rest) = SubSeq(p, n + 2, Len(p)) /\ p[n + 1] \in STRING
  BY <1>1, RestOf
<1>3. next \in Path /\ Ancestors(next) = Ancestors(x.path) \cup ({x.path} \ {<<>>})
  BY <1>1, <1>2, AppendPath
<1>4. b.ok = TRUE /\ b.t = m /\ b.at = x.path /\ f[n + 1] = T!MkdirStep(b, p[n + 1])
  BY <1>1 DEF ReachedDir
<1>5. Append(b.at, p[n + 1]) = next /\ Append(x.path, Head(x.rest)) = next
  BY <1>2, <1>4
<1>6. PICK w : w = T!Walk(m, next, TRUE, FALSE)
  OBVIOUS
<1> HIDE DEF next, b, m, v
<1>7. DirsTo(m, next)
  BY <1>1, <1>3 DEF DirsTo
<1>8. next \in DOMAIN v <=> next \in DOMAIN m
  <2>1. Agree(v, m)
    BY MergedAgrees DEF WellFormed, m, v
  <2> QED BY <1>3, <1>7, <2>1 DEF Agree
<1>9. resolveMerged(s, next, TRUE, FALSE) = w /\ Resolved(s, w, TRUE, FALSE)
  BY <1>3, <1>6, Resolves, Zenon DEF m
<1>10. y = IF next \notin DOMAIN v THEN at("absent", next)
           ELSE IF w.err = "found" /\ T!IsDir(v, w.path) THEN at("found", w.path)
           ELSE at("invalid", x.path)
  BY <1>2, <1>5, <1>9, Zenon DEF MkdirStep, v
<1>11. f[n + 1] = IF next \notin DOMAIN m
                  THEN [ok |-> TRUE, t |-> T!Put(m, next, T!Dir("new")), at |-> next]
                  ELSE IF w.err = "found" /\ T!IsDir(m, w.path) THEN ReachedDir(m, w.path)
                  ELSE [ok |-> FALSE, t |-> m, at |-> b.at]
  BY <1>4, <1>5, <1>6, Zenon DEF T!MkdirStep, ReachedDir
<1>12. (n + 1) + 1 = n + 2
  OBVIOUS
<1> HIDE DEF y
<1>13. CASE next \notin DOMAIN m
  <2>1. y = at("absent", next)
    BY <1>8, <1>10, <1>13
  <2>2. y.err = "absent" /\ y.path = next /\ y.rest = SubSeq(p, n + 2, Len(p))
    BY <1>2, <2>1
  <2>3. MissingAt(m, p, f, y, n, x.path)
    BY <1>1, <1>13, <2>2 DEF MissingAt, next
  <2> QED BY <1>1, <2>2, <2>3 DEF Walked, y, m
<1>14. CASE next \in DOMAIN m /\ w.err = "found" /\ T!IsDir(m, w.path)
  <2>1. T!IsDir(v, w.path) /\ DirsTo(v, w.path) /\ w.path \in Path
    BY <1>9, <1>14 DEF Resolved, T!IsDir, m, v
  <2>2. DirsTo(m, w.path)
    <3>1. Agree(v, m)
      BY MergedAgrees DEF WellFormed, m, v
    <3> QED BY <2>1, <3>1 DEF Agree
  <2>3. y = at("found", w.path)
    BY <1>8, <1>10, <1>14, <2>1
  <2>4. y.err = "found" /\ y.path = w.path /\ y.rest = SubSeq(p, n + 2, Len(p))
    BY <1>2, <2>3
  <2>5. f[n + 1] = ReachedDir(m, w.path)
    BY <1>11, <1>14
  <2>6. Onward(m, p, f, y, n + 1)
    BY <1>12, <1>14, <2>1, <2>2, <2>4, <2>5 DEF Onward
  <2> QED BY <2>4, <2>6 DEF Walked, y, m
<1>15. CASE next \in DOMAIN m /\ ~(w.err = "found" /\ T!IsDir(m, w.path))
  <2>1. ~(w.err = "found" /\ T!IsDir(v, w.path))
    BY <1>9, <1>15 DEF Resolved, T!IsDir, m, v
  <2>2. y = at("invalid", x.path)
    BY <1>8, <1>10, <1>15, <2>1
  <2>3. y.err = "invalid"
    BY <2>2
  <2>4. f[n + 1] = [ok |-> FALSE, t |-> m, at |-> b.at]
    BY <1>11, <1>15
  <2>5. f[n + 1].ok = FALSE /\ f[n + 1].t = m
    BY <2>4
  <2> QED BY <2>3, <2>5 DEF Walked, y, m
<1> QED BY <1>13, <1>14, <1>15

\* After all names.
LEMMA WalksTheView ==
  ASSUME NEW s, WellFormed(s), NEW p \in Path
  PROVE  Walked(Merged(s), p, T!MkdirSteps(Merged(s), p), MkdirWalk(s, p)[Len(p)], Len(p))
<1> DEFINE m == Merged(s)
           f == T!MkdirSteps(m, p)
           g == MkdirWalk(s, p)
           Bad == {n \in Nat : n <= Len(p) /\ ~Walked(m, p, f, g[n], n)}
<1>1. f[0] = ReachedDir(m, <<>>) /\ \A n \in Nat : f[n + 1] = T!MkdirStep(f[n], p[n + 1])
  BY MkdirStepsStep DEF ReachedDir
<1>2. g[0] = [err |-> "found", path |-> <<>>, rest |-> p] /\ \A n \in Nat : g[n + 1] = MkdirStep(s, g[n])
  BY MkdirWalkStep
<1>3. Len(p) \in Nat /\ SubSeq(p, 0 + 1, Len(p)) = p /\ <<>> \in Path
  BY DEF Path
<1>4. T!IsDir(m, <<>>) /\ DirsTo(m, <<>>)
  BY RootInView, AncestorsOfRoot DEF DirsTo
<1> HIDE DEF f, g, m
<1>5. Walked(m, p, f, g[0], 0)
  <2>1. g[0].err = "found" /\ g[0].path = <<>> /\ g[0].rest = p
    BY <1>2
  <2>2. Onward(m, p, f, g[0], 0)
    BY <1>1, <1>3, <1>4, <2>1 DEF Onward
  <2> QED BY <2>1, <2>2 DEF Walked
<1>6. ASSUME NEW n \in Nat, n < Len(p), Walked(m, p, f, g[n], n) PROVE Walked(m, p, f, g[n + 1], n + 1)
  <2> DEFINE x == g[n]
             y == MkdirStep(s, x)
  <2>1. g[n + 1] = y /\ f[n + 1] = T!MkdirStep(f[n], p[n + 1])
    BY <1>1, <1>2
  <2>2. CASE x.err = "found"
    <3>1. Onward(m, p, f, x, n)
      BY <1>6, <2>2 DEF Walked
    <3>2. Walked(m, p, f, y, n + 1)
      <4> HIDE DEF x
      <4> QED BY <1>6, <2>1, <2>2, <3>1, WalkedOn DEF m
    <3> QED BY <2>1, <3>2
  <2>3. CASE x.err # "found"
    <3>1. y = x
      BY <2>3 DEF MkdirStep
    <3>2. CASE x.err = "absent"
      BY <1>6, <2>1, <3>1, <3>2 DEF Walked
    <3>3. CASE x.err = "invalid"
      <4>1. f[n].ok = FALSE /\ f[n].t = m
        BY <1>6, <3>3 DEF Walked
      <4>2. f[n + 1] = f[n]
        BY <2>1, <4>1 DEF T!MkdirStep
      <4> QED BY <2>1, <3>1, <3>3, <4>1, <4>2 DEF Walked
    <3> QED BY <1>6, <2>3, <3>2, <3>3 DEF Walked
  <2> QED BY <2>2, <2>3
<1>7. Bad = {}
  <2>1. SUFFICES ASSUME Bad # {} PROVE FALSE
    OBVIOUS
  <2>2. PICK k \in Bad : \A n \in Bad : k <= n
    BY <2>1, LeastNatural
  <2>3. k \in Nat /\ k <= Len(p) /\ k # 0 /\ ~Walked(m, p, f, g[k], k)
    BY <1>5, <2>2
  <2>4. PICK n \in Nat : n = k - 1
    BY <2>3
  <2>5. n < Len(p) /\ n <= Len(p) /\ k = n + 1 /\ n \notin Bad
    BY <1>3, <2>2, <2>3, <2>4
  <2>6. Walked(m, p, f, g[n], n)
    BY <2>5
  <2> QED BY <1>6, <2>3, <2>5, <2>6
<1>8. Len(p) \notin Bad
  BY <1>7
<1> QED BY <1>3, <1>8 DEF f, g, m

\* MkdirAll: walking the view and making the rest in the upper tree is what MkdirAll
\* does on one tree, name by name.
LEMMA MkdirAllInView ==
  ASSUME NEW s, WellFormed(s), NEW p \in Path
  PROVE  Keeps(MkdirAllIn(s, p), T!MkdirAllIn(Merged(s), p)) /\ Whole(T!MkdirAllIn(Merged(s), p), Merged(s))
<1> DEFINE m == Merged(s)
           f == T!MkdirSteps(m, p)
           x == MkdirWalk(s, p)[Len(p)]
           y == f[Len(p)]
           a == CopyUpAncestors(s, x.path)
           e == x.path \o x.rest
<1>1. Walked(m, p, f, x, Len(p))
  BY WalksTheView
<1>2. T!MkdirAllIn(m, p) = T!Outcome(y.ok, y.t)
  BY Zenon DEF T!MkdirAllIn
<1>3. MkdirAllIn(s, p) = IF x.err = "found" THEN Done(s)
                         ELSE IF x.err = "absent" THEN Upper(a, T!MkdirAllIn(a.upper, e))
                         ELSE Fail(s)
  BY Zenon DEF MkdirAllIn
<1> HIDE DEF f, x, a, e
<1>4. CASE x.err = "found"
  <2>1. y = ReachedDir(m, x.path)
    BY <1>1, <1>4 DEF Walked, Onward
  <2>2. y.ok = TRUE /\ y.t = m
    BY <2>1 DEF ReachedDir
  <2> HIDE DEF y
  <2>3. MkdirAllIn(s, p) = Done(s) /\ T!MkdirAllIn(m, p) = T!Outcome(TRUE, m)
    BY <1>2, <1>3, <1>4, <2>2
  <2> QED BY <2>3 DEF Keeps, Same, Done, Whole, T!Outcome
<1>5. CASE x.err = "invalid"
  <2>1. y.ok = FALSE /\ y.t = m
    BY <1>1, <1>5 DEF Walked
  <2> HIDE DEF y
  <2>2. MkdirAllIn(s, p) = Fail(s) /\ T!MkdirAllIn(m, p) = T!Outcome(FALSE, m)
    BY <1>2, <1>3, <1>5, <2>1
  <2>3. Whole(T!MkdirAllIn(m, p), m)
    BY <2>2 DEF Whole, T!Outcome
  <2> QED BY <2>2, <2>3, KeepsFailure
<1>6. CASE x.err = "absent"
  <2>1. PICK k \in Nat, d \in Path : MissingAt(m, p, f, x, k, d)
    BY <1>1, <1>6 DEF Walked
  <2>2. /\ k < Len(p) /\ f[k] = ReachedDir(m, d) /\ T!IsDir(m, d) /\ DirsTo(m, d)
        /\ x.path = Append(d, p[k + 1]) /\ x.path \notin DOMAIN m /\ x.rest = SubSeq(p, k + 2, Len(p))
    BY <2>1 DEF MissingAt
  <2>3. p[k + 1] \in STRING /\ Len(p) \in Nat /\ k <= Len(p)
    BY <2>2 DEF Path
  <2>4. PICK q \in Path : q = x.path
    BY <2>2, <2>3, AppendPath
  <2>5. q # <<>> /\ Ancestors(q) = Ancestors(d) \cup ({d} \ {<<>>})
    <3>1. d \in Path /\ q = Append(d, p[k + 1])
      BY <2>2, <2>4
    <3> QED BY <2>3, <3>1, AppendPath
  <2>6. DirsTo(m, q)
    BY <2>2, <2>5 DEF DirsTo
  <2>7. DirsTo(Visible(s), q) /\ q \notin DOMAIN Visible(s)
    <3>1. Agree(Visible(s), m)
      BY MergedAgrees DEF WellFormed
    <3> QED BY <2>2, <2>4, <2>6, <3>1 DEF Agree
  <2>8. /\ WellFormed(a) /\ Visible(a) = Visible(s) /\ Merged(a) = m /\ DirsTo(a.upper, q)
    BY <2>4, <2>7, CopyUpAncestorsKeepsTheView DEF a
  <2>9. FreeAt(a, q, a.tomb)
    BY <2>4, <2>5, <2>7, <2>8 DEF FreeAt
  <2>10. e = Along(d, p, k, Len(p))
    BY <2>2, <2>3, AlongRest DEF e
  <2>11. e \in Path
    <3>1. IsAlong(Along(d, p, k, Len(p)), d, p, k, Len(p))
      BY <2>3, AlongAt
    <3> QED BY <2>10, <3>1 DEF IsAlong
  <2>12. Vacant(m, q)
    <3>1. ASSUME NEW z \in DOMAIN m, Under(q, z) PROVE FALSE
      <4>1. DirsTo(Visible(s), z)
        BY MergedAt
      <4>2. z # q
        BY <2>2, <2>4
      <4> QED BY <2>7, <3>1, <4>1, <4>2 DEF Under, DirsTo, T!IsDir
    <3> QED BY <3>1 DEF Vacant
  <2>13. Vacant(a.upper, q)
    <3>1. DOMAIN a.upper \subseteq DOMAIN m
      BY <2>8, UpperInView
    <3> QED BY <2>12, <3>1 DEF Vacant
  <2>14. IsMap(m) /\ IsMap(a.upper)
    <3>1. IsMap(m)
      BY DEF Merged, IsMap
    <3>2. a.upper \in [DOMAIN a.upper -> T!Node]
      BY <2>8 DEF WellFormed, StateOK
    <3>3. IsMap(a.upper)
      BY <3>2 DEF IsMap
    <3> QED BY <3>1, <3>3
  <2>15. y = MadeTo(m, q, e)
    <3>1. PICK c : c = m
      OBVIOUS
    <3>2. /\ T!MkdirSteps(c, p)[k] = ReachedDir(c, d) /\ q = Append(d, p[k + 1]) /\ k < Len(p)
          /\ IsMap(c) /\ Vacant(c, q)
      BY <2>2, <2>4, <2>12, <2>14, <3>1 DEF f
    <3> HIDE DEF m, y
    <3>4. MissesName(c, c, p, d, k, q)
      BY <3>2 DEF MissesName
    <3>3. T!MkdirSteps(c, p)[Len(p)] = MadeTo(c, q, Along(d, p, k, Len(p)))
      BY <3>4, MakesRest
    <3> QED BY <2>10, <3>1, <3>3 DEF f, y
  <2>16. y.ok = TRUE /\ y.t = Made(m, q, e)
    BY <2>15 DEF MadeTo
  <2>17. Under(q, e)
    <3>1. e = x.path \o x.rest /\ x.rest \in Seq(STRING)
      BY <2>2 DEF e, Path
    <3>2. q \in Seq(STRING) /\ Len(q) \in Nat /\ Len(q) >= 1 /\ Len(x.rest) \in Nat
      BY <2>5, <3>1, NonEmptyPath DEF Path
    <3>3. Len(e) = Len(q) + Len(x.rest) /\ \A i \in 1..Len(q) : e[i] = q[i]
      <4>1. PICK r \in Seq(STRING) : r = x.rest
        BY <3>1
      <4>2. e = q \o r
        BY <2>4, <3>1, <4>1
      <4> QED BY <3>2, <4>1, <4>2
    <3>4. CASE Len(x.rest) = 0
      <4>1. Len(e) = Len(q)
        BY <3>2, <3>3, <3>4
      <4> QED BY <2>11, <3>3, <4>1, SeqEqual DEF Under, Path
    <3>5. CASE Len(x.rest) # 0
      <4>1. Len(q) < Len(e)
        BY <3>2, <3>3, <3>5
      <4> QED BY <2>11, <3>2, <3>3, <4>1, AncestorOf DEF Under
    <3> QED BY <3>4, <3>5
  <2>18. T!MkdirAllIn(a.upper, e) = T!Outcome(TRUE, Made(a.upper, q, e))
    BY <2>5, <2>8, <2>11, <2>13, <2>14, <2>17, MkdirUpper DEF Vacant
  <2> DEFINE z == WithUpper(a, Made(a.upper, q, e))
  <2>19. WellFormed(z) /\ Merged(z) = Made(m, q, e)
    BY <2>8, <2>9, <2>11, <2>17, AddDirs
  <2> HIDE DEF y
  <2>20. T!MkdirAllIn(m, p) = T!Outcome(TRUE, Made(m, q, e))
    BY <1>2, <2>16
  <2>21. MkdirAllIn(s, p) = [ok |-> TRUE, s |-> z]
    <3>1. T!Outcome(TRUE, Made(a.upper, q, e)).ok = TRUE /\ T!Outcome(TRUE, Made(a.upper, q, e)).t = Made(a.upper, q, e)
      BY DEF T!Outcome
    <3>2. Upper(a, T!MkdirAllIn(a.upper, e)) = [ok |-> TRUE, s |-> z]
      BY <2>18, <3>1, Zenon DEF Upper
    <3> QED BY <1>3, <1>6, <3>2
  <2> HIDE DEF z
  <2>22. MkdirAllIn(s, p).ok = TRUE /\ MkdirAllIn(s, p).s = z
    BY <2>21
  <2>23. T!MkdirAllIn(m, p).ok = TRUE /\ T!MkdirAllIn(m, p).t = Made(m, q, e)
    BY <2>20 DEF T!Outcome
  <2> QED BY <2>19, <2>22, <2>23 DEF Keeps, Same, Whole
<1> QED BY <1>1, <1>4, <1>5, <1>6 DEF Walked
=============================================================================
