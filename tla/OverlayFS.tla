----------------------------- MODULE OverlayFS -----------------------------
(***************************************************************************)
(* The copy-on-write filesystem of src/fs/overlay.go: a read-only lower    *)
(* tree, an in-memory upper tree that takes every change, and tombstones   *)
(* that hide what was removed of the lower tree.  What a caller sees is    *)
(* the merged view.  The module has the overlay's own steps (resolution    *)
(* against the view, copy-up, tombstones, the recursive move) and says     *)
(* that the view behaves like one tree, FileTree with the view as its      *)
(* variable.  One operation is one step: OverlayFS itself takes no lock    *)
(* across an operation, so this is the overlay under a single caller.      *)
(*                                                                         *)
(* The cache lowerDirs only remembers that a lower path is a directory;    *)
(* the lower tree never changes here, so the cache is not a variable.      *)
(***************************************************************************)
EXTENDS Naturals, Sequences, FiniteSets, TLC

SX == INSTANCE SequencesExt

CONSTANTS
  Paths, Targets, MaxSymlinkDepth,   \* as in FileTree
  Lower                              \* the lower tree

ASSUME PathsAssumption ==
  /\ Paths \subseteq Seq(STRING) /\ IsFiniteSet(Paths)
  /\ <<>> \in Paths /\ Targets \subseteq Paths
  /\ \A p \in Paths : p # <<>> => SX!Front(p) \in Paths
  /\ DOMAIN Lower \subseteq Paths
  /\ MaxSymlinkDepth \in Nat

VARIABLES
  upper,   \* the upper tree
  tomb     \* the paths with a tombstone

vars == <<upper, tomb>>

\* The state of the overlay as a value, for operations made of operations.
Layers(u, tb) == [upper |-> u, tomb |-> tb]
Now == Layers(upper, tomb)
WithUpper(s, u) == Layers(u, s.tomb)

Ancestors(p) == {SubSeq(p, 1, i) : i \in 1..(Len(p) - 1)}

\* Mutant of isHidden: a tombstone hides its own path only.
isHiddenExactly(s, p) == p \in s.tomb

isHidden(s, p) == \E q \in Ancestors(p) \cup {p, <<>>} : q \in s.tomb

\* The entries visibleInfo finds: the upper one, else the lower one if no
\* tombstone is on it or above it.
Visible(s) ==
  [p \in DOMAIN s.upper \cup {q \in DOMAIN Lower : ~isHidden(s, q)} |->
     IF p \in DOMAIN s.upper THEN s.upper[p] ELSE Lower[p]]

\* Those that can be reached: below a visible directory all the way.
Merged(s) ==
  LET v == Visible(s)
  IN [p \in {q \in DOMAIN v : \A r \in Ancestors(q) : r \in DOMAIN v /\ v[r].kind = "dir"}
        |-> v[p]]

View == Merged(Now)

\* The contract: one tree, whose resolution keeps followFinal as
\* resolveMergedDepth does.
T == INSTANCE FileTree
       WITH tree <- View, FinalKept <- TRUE, Seed <- [Lower EXCEPT ![<<>>].attr = "new"]

\* The lower tree is a tree, in which no node has two paths.
ASSUME LowerAssumption ==
  /\ Lower \in [DOMAIN Lower -> T!Node]
  /\ T!IsDir(Lower, <<>>)
  /\ \A p \in DOMAIN Lower :
       /\ \A q \in Ancestors(p) : T!IsDir(Lower, q)
       /\ Lower[p] = IF Lower[p].kind = "dir" THEN T!Dir(Lower[p].attr)
                     ELSE T!Leaf(Lower[p].kind, p, Lower[p].target, Lower[p].attr)

resolveMerged(s, p, follow, missing) == T!Walk(Visible(s), p, follow, missing)

\* Lstat of the lower layer, which keeps the last name as a host's does.
LowerLstat(p) == T!Walk(Lower, p, FALSE, FALSE)

Fail(s) == [ok |-> FALSE, s |-> s]
Done(s) == [ok |-> TRUE, s |-> s]

\* An outcome of the upper tree as one of the overlay.
Upper(s, outcome) == [ok |-> outcome.ok, s |-> WithUpper(s, outcome.t)]

-----------------------------------------------------------------------------
\* Copying up.  A node copied from the lower tree keeps its attr: content
\* and metadata are the lower ones until they are changed.

CopyUpAncestors(s, p) ==
  LET new == Ancestors(p) \ DOMAIN s.upper
  IN WithUpper(s, [q \in DOMAIN s.upper \cup new |->
                     IF q \in new THEN T!Dir(Lower[q].attr) ELSE s.upper[q]])

CopyUpLowerEntry(s, src, dst) ==
  LET node == Lower[src]
  IN WithUpper(s, T!Put(s.upper, dst, T!Leaf(node.kind, dst, node.target, node.attr)))

CopyUpNode(s, p) ==
  LET a == CopyUpAncestors(s, p)
  IN IF Lower[p].kind = "dir"
     THEN WithUpper(a, T!Put(a.upper, p, T!Dir(Lower[p].attr)))
     ELSE CopyUpLowerEntry(a, p, p)

\* The state in which an existing entry is in the upper tree.
InUpper(s, p) == IF p \in DOMAIN s.upper THEN s ELSE CopyUpNode(s, p)

ClearTombstonesUnder(s, p) == Layers(s.upper, {q \in s.tomb : ~SX!IsPrefix(p, q)})

-----------------------------------------------------------------------------
\* Mutant of LowerNames: entries that were removed are listed.
LowerNamesAll(s, p) == T!ReadDirIn(Lower, p).names

\* What a listing takes from the lower tree.
LowerNames(s, p) == {n \in T!ReadDirIn(Lower, p).names : ~isHidden(s, Append(p, n))}

\* ReadDir asks the lower tree about the path before it looks for tombstones
\* above it: an error of the lower tree, or an entry there that is not a
\* directory, fails the listing of a directory that only the upper tree has.
ListAt(s, q) ==
  LET low   == LowerLstat(q)
      names == {SX!Last(c) : c \in T!Children(s.upper, q)}
      error == [ok |-> FALSE, names |-> {}]
  IN IF q \in DOMAIN s.upper /\ s.upper[q].kind # "dir" THEN error
     ELSE IF low.err \notin {"found", "notExist"} THEN error
     ELSE IF low.err = "notExist" \/ q \in s.tomb THEN [ok |-> TRUE, names |-> names]
     ELSE IF ~T!ReadDirIn(Lower, q).ok THEN error
     ELSE [ok |-> TRUE, names |-> names \cup LowerNames(s, q)]

ReadDir(s, p) ==
  LET w == resolveMerged(s, p, TRUE, FALSE)
  IN IF w.err # "found" THEN [ok |-> FALSE, names |-> {}] ELSE ListAt(s, w.path)

OpenIn(s, p, create, excl, trunc) ==
  LET x == create /\ excl
      w == resolveMerged(s, p, ~x, create)
      a == IF w.err = "absent" THEN CopyUpAncestors(s, w.path) ELSE InUpper(s, w.path)
  IN IF \/ w.err \notin {"found", "absent"} \/ (x /\ w.err = "found")
        \/ (w.err = "found" /\ Visible(s)[w.path].kind = "dir")
     THEN Fail(s)
     ELSE Upper(a, T!OpenIn(a.upper, w.path, create, excl, trunc))

\* A new entry at an absent path, made in the upper tree by one of its own
\* operations; tombstones at the path and below it are dropped.
Created(s, p, outcome) ==
  IF outcome.ok THEN Done(ClearTombstonesUnder(WithUpper(s, outcome.t), p)) ELSE Fail(s)

SymlinkIn(s, target, p) ==
  LET w == resolveMerged(s, p, FALSE, TRUE)
      a == CopyUpAncestors(s, w.path)
  IN IF w.err # "absent" THEN Fail(s)
     ELSE Created(a, w.path, T!SymlinkIn(a.upper, target, w.path))

MkfifoIn(s, p) ==
  LET w == resolveMerged(s, p, FALSE, TRUE)
      a == CopyUpAncestors(s, w.path)
  IN IF w.err # "absent" THEN Fail(s)
     ELSE Created(a, w.path, T!MkfifoIn(a.upper, w.path))

LinkIn(s, old, new) ==
  LET o == resolveMerged(s, old, FALSE, FALSE)
      n == resolveMerged(s, new, FALSE, TRUE)
      a == InUpper(CopyUpAncestors(s, n.path), o.path)
  IN IF o.err # "found" \/ Visible(s)[o.path].kind = "dir" \/ n.err # "absent" THEN Fail(s)
     ELSE Created(a, n.path, T!LinkIn(a.upper, o.path, n.path))

\* Chmod, Chown, Chtimes and Lchtimes.
TouchIn(s, p, follow) ==
  LET w == resolveMerged(s, p, follow, FALSE)
      a == InUpper(s, w.path)
  IN IF w.err # "found" THEN Fail(s) ELSE Upper(a, T!TouchIn(a.upper, w.path, follow))

\* MkdirAll walks the view, following links, as far as its directories lead;
\* at the first missing name it makes the rest in the upper tree.
MkdirStep(s, m) ==
  LET next == Append(m.path, Head(m.rest))
      w    == resolveMerged(s, next, TRUE, FALSE)
      at(err, q) == [err |-> err, path |-> q, rest |-> Tail(m.rest)]
  IN IF m.err # "found" \/ m.rest = <<>> THEN m
     ELSE IF next \notin DOMAIN Visible(s) THEN at("absent", next)
     ELSE IF w.err = "found" /\ T!IsDir(Visible(s), w.path) THEN at("found", w.path)
     ELSE at("invalid", m.path)

\* After n names of p.
MkdirWalk(s, p) ==
  LET walk[n \in Nat] == IF n = 0 THEN [err |-> "found", path |-> <<>>, rest |-> p]
                         ELSE MkdirStep(s, walk[n - 1])
  IN walk

MkdirAllIn(s, p) ==
  LET m == MkdirWalk(s, p)[Len(p)]
      a == CopyUpAncestors(s, m.path)
  IN IF m.err = "found" THEN Done(s)
     ELSE IF m.err = "absent" THEN Upper(a, T!MkdirAllIn(a.upper, m.path \o m.rest))
     ELSE Fail(s)

\* Remove takes the entry out of the upper tree, then asks the lower tree
\* whether it needs a tombstone; an error of the lower tree comes after the
\* entry is gone.
RemoveIn(s, p, recursive) ==
  LET w    == resolveMerged(s, p, FALSE, FALSE)
      q    == w.path
      list == ReadDir(s, q)
      a    == IF q \in DOMAIN s.upper
              THEN WithUpper(s, T!RemoveIn(s.upper, q, recursive).t) ELSE s
      low  == LowerLstat(q)
  IN IF \/ w.err # "found" \/ q = <<>>
        \/ (Visible(s)[q].kind = "dir" /\ ~recursive /\ ~(list.ok /\ list.names = {}))
     THEN Fail(s)
     ELSE IF low.err = "found" THEN Done(Layers(a.upper, a.tomb \cup {q}))
     ELSE IF low.err = "notExist" THEN Done(a)
     ELSE Fail(a)

\* What one call of moveMerged does itself: an upper leaf is renamed, a lower
\* one copied up, a directory made with its attributes; below are the calls it
\* then makes, one for each merged child.
MoveOne(s, src, dst) ==
  LET node == Visible(s)[src]
      made == WithUpper(s, T!Put(s.upper, dst, T!Dir(node.attr)))
      list == ReadDir(made, src)
      leaf == IF src \in DOMAIN s.upper THEN Upper(s, T!RenameIn(s.upper, src, dst))
              ELSE Done(CopyUpLowerEntry(s, src, dst))
      child(n) == [src |-> Append(src, n), dst |-> Append(dst, n)]
  IN IF node.kind = "dir"
     THEN [ok |-> list.ok, s |-> made, below |-> SX!SetToSeq({child(n) : n \in list.names})]
     ELSE [ok |-> leaf.ok, s |-> leaf.s, below |-> <<>>]

\* The moves still to be made are a stack; after the first one, with the outcome
\* one, its own calls come next, and a failure leaves what was moved so far.
Continue(c, one) ==
  [ok |-> one.ok, s |-> one.s, moves |-> IF one.ok THEN one.below \o Tail(c.moves) ELSE <<>>]

MoveNext(c) ==
  IF ~c.ok \/ c.moves = <<>> THEN c
  ELSE Continue(c, MoveOne(c.s, Head(c.moves).src, Head(c.moves).dst))

\* After n calls of moveMerged.
Moves(s, src, dst) ==
  LET moved[n \in Nat] ==
        IF n = 0 THEN [ok |-> TRUE, s |-> s, moves |-> <<[src |-> src, dst |-> dst]>>]
        ELSE MoveNext(moved[n - 1])
  IN moved

\* After the last call Rename removes what is left of its source.
AfterMoves(c, src) ==
  IF ~c.ok \/ resolveMerged(c.s, src, FALSE, FALSE).err # "found" THEN [ok |-> c.ok, s |-> c.s]
  ELSE RemoveIn(c.s, src, TRUE)

\* One call for every entry at the source and below it.
MoveMerged(s, src, dst) ==
  AfterMoves(Moves(s, src, dst)[Cardinality(T!Subtree(Merged(s), src))], src)

RenameIn(s, old, new) ==
  LET o == resolveMerged(s, old, FALSE, FALSE)
      n == resolveMerged(s, new, FALSE, TRUE)
  IN IF o.err # "found" \/ n.err \notin {"found", "absent"} \/ <<>> \in {o.path, n.path} THEN Fail(s)
     ELSE IF o.path = n.path THEN Done(s)
     ELSE IF n.err = "found" \/ SX!IsStrictPrefix(o.path, n.path) THEN Fail(s)
     ELSE MoveMerged(CopyUpAncestors(s, n.path), o.path, n.path)

-----------------------------------------------------------------------------
Init == upper = [p \in {<<>>} |-> T!Dir("new")] /\ tomb = {}

\* The step an operation takes, if its result fits the paths of the instance.
\* A failed operation is a step too: it may have copied something up.
Become(outcome) ==
  /\ DOMAIN outcome.s.upper \subseteq Paths
  /\ upper' = outcome.s.upper /\ tomb' = outcome.s.tomb

MkdirAll(p) == Become(MkdirAllIn(Now, p))
OpenFile(p, create, excl, trunc) == Become(OpenIn(Now, p, create, excl, trunc))
Symlink(target, p) == Become(SymlinkIn(Now, target, p))
Mkfifo(p) == Become(MkfifoIn(Now, p))
Link(old, new) == Become(LinkIn(Now, old, new))
Touch(p, follow) == Become(TouchIn(Now, p, follow))
Remove(p, recursive) == Become(RemoveIn(Now, p, recursive))
Rename(old, new) == Become(RenameIn(Now, old, new))

Next ==
  \/ \E p \in Paths : MkdirAll(p) \/ Mkfifo(p)
  \/ \E p \in Paths, create, excl, trunc \in BOOLEAN : OpenFile(p, create, excl, trunc)
  \/ \E p \in Paths, target \in Targets : Symlink(target, p)
  \/ \E old, new \in Paths : Link(old, new) \/ Rename(old, new)
  \/ \E p \in Paths, follow \in BOOLEAN : Touch(p, follow)
  \/ \E p \in Paths, recursive \in BOOLEAN : Remove(p, recursive)

Spec == Init /\ [][Next]_vars

-----------------------------------------------------------------------------
\* The case in which the overlay lets the lower tree answer for a path that a
\* tombstone above it hides: the lower tree has no directory where the upper
\* one has, or cannot resolve the path at all.
LowerInTheWay(p) ==
  LET low == LowerLstat(p)
  IN /\ p \in DOMAIN upper
     /\ \/ low.err \notin {"found", "notExist"}
        \/ low.err = "found" /\ upper[p].kind = "dir" /\ p \notin tomb /\ ~T!ReadDirIn(Lower, p).ok

Unobstructed(p) == \A q \in T!Subtree(View, T!Walk(View, p, FALSE, FALSE).path) : ~LowerInTheWay(q)

Same(o, c) == o.ok = c.ok /\ Merged(o.s) = c.t

\* Every operation, with every argument, answers as it would on one tree and
\* changes the merged view as it would change that tree: nothing of the lower
\* tree is lost by a copy-up or comes back after it was removed, replaced or
\* moved away, whatever was done before.  Two cases are left out: a removal or
\* move where the lower tree is in the way, and a path renamed to itself, where
\* Rename of the overlay has nothing to do and that of one tree fails.
ActsAsOneTree ==
  LET v == View
      elsewhere(old, new) == T!Walk(v, old, FALSE, FALSE).path # T!Walk(v, new, FALSE, TRUE).path
  IN \A p \in Paths :
       /\ Same(MkdirAllIn(Now, p), T!MkdirAllIn(v, p))
       /\ Same(MkfifoIn(Now, p), T!MkfifoIn(v, p))
       /\ \A target \in Targets : Same(SymlinkIn(Now, target, p), T!SymlinkIn(v, target, p))
       /\ \A follow \in BOOLEAN : Same(TouchIn(Now, p, follow), T!TouchIn(v, p, follow))
       /\ \A create, excl, trunc \in BOOLEAN :
            Same(OpenIn(Now, p, create, excl, trunc), T!OpenIn(v, p, create, excl, trunc))
       /\ \A new \in Paths : Same(LinkIn(Now, p, new), T!LinkIn(v, p, new))
       /\ Unobstructed(p) =>
            /\ \A recursive \in BOOLEAN :
                 Same(RemoveIn(Now, p, recursive), T!RemoveIn(v, p, recursive))
            /\ \A new \in Paths : elsewhere(p, new) => Same(RenameIn(Now, p, new), T!RenameIn(v, p, new))

\* The listing of a directory is the merged directory.
ListsTheView ==
  \A p \in Paths : LET w == T!Walk(View, p, TRUE, FALSE) IN
    w.err = "found" /\ ~LowerInTheWay(w.path) => ReadDir(Now, p) = T!ReadDirIn(View, p)

\* Every directory that is visible can be listed.
VisibleDirsList == \A p \in DOMAIN View : View[p].kind = "dir" => ReadDir(Now, p).ok
=============================================================================
