------------------------------ MODULE FileTree ------------------------------
(***************************************************************************)
(* The in-memory filesystem of src/fs/memory.go: a map from clean absolute *)
(* paths to nodes.  Every operation holds the filesystem's mutex, so it is *)
(* one step.  The operations are first given as operators from a tree to   *)
(* an outcome, because OverlayFS applies them to its upper layer and is    *)
(* compared with them on its merged view; the module's own specification   *)
(* applies them to the variable tree.                                      *)
(*                                                                         *)
(* A path is the sequence of its names and <<>> is "/".  A node has a kind,*)
(* an attr that stands for its content and metadata as a later reader can  *)
(* tell them apart ("seed": untouched since the start, "edited": changed   *)
(* in place, "new": made or truncated since), the target of a link, and an *)
(* ino that two hard links of one node share.  Inode numbers are canonical:*)
(* after every operation a node is numbered by a path that leads to it, so *)
(* that states differing only in the numbers are the same state.           *)
(***************************************************************************)
EXTENDS Naturals, Sequences, FiniteSets, TLC

SX == INSTANCE SequencesExt

CONSTANTS
  Paths,            \* the paths of the instance, closed under prefixes
  Targets,          \* the targets links are made with
  MaxSymlinkDepth,  \* links followed in one resolution
  FinalKept,        \* whether resolution keeps followFinal after a link
  Seed              \* the tree at the start

VARIABLE tree

-----------------------------------------------------------------------------
Node == [kind : {"dir", "file", "link", "fifo"}, attr : {"seed", "edited", "new"},
         target : Seq(STRING), ino : Seq(STRING)]

Dir(attr) == [kind |-> "dir", attr |-> attr, target |-> <<>>, ino |-> <<>>]

Leaf(kind, p, target, attr) ==
  [kind |-> kind, attr |-> attr, target |-> target, ino |-> p]

IsDir(t, p) == p \in DOMAIN t /\ t[p].kind = "dir"

\* p and everything below it.
Subtree(t, p) == {q \in DOMAIN t : SX!IsPrefix(p, q)}

Children(t, p) == {q \in DOMAIN t : q # <<>> /\ SX!Front(q) = p}

\* The paths of one inode.
Links(t, p) ==
  IF t[p].kind = "dir" THEN {p}
  ELSE {q \in DOMAIN t : t[q].kind # "dir" /\ t[q].ino = t[p].ino}

\* Inodes renumbered by one of their own paths.
Canonical(t) ==
  [p \in DOMAIN t |-> IF t[p].kind = "dir" THEN t[p]
                      ELSE [t[p] EXCEPT !.ino = CHOOSE q \in Links(t, p) : TRUE]]

Put(t, p, node) == [q \in DOMAIN t \cup {p} |-> IF q = p THEN node ELSE t[q]]

\* A change made through one path shows through every link of the inode.
SetAttr(t, p, attr) ==
  [q \in DOMAIN t |-> IF q \in Links(t, p) THEN [t[q] EXCEPT !.attr = attr] ELSE t[q]]

Edited(attr) == IF attr = "seed" THEN "edited" ELSE attr

Outcome(ok, t) == [ok |-> ok, t |-> t]

-----------------------------------------------------------------------------
\* Resolution: where a path leads, following the links before its last name,
\* and the last one if follow is set.  The answer is "found", "absent" (only
\* the last name is missing and the caller may create it), or an error.
Answer(err, p) == [err |-> err, path |-> p]

\* The names of p that its directories do not lead through.
Stops(t, p) == {i \in 1..Len(p) : ~IsDir(t, SubSeq(p, 1, i))}

\* The answer at name i of p; a link in the way is answered with the path to go
\* on with.
StoppedAt(t, p, i, follow, missing) ==
  LET next   == SubSeq(p, 1, i)
      isLast == i = Len(p)
  IN IF next \notin DOMAIN t
     THEN IF isLast /\ missing THEN Answer("absent", next) ELSE Answer("notExist", <<>>)
     ELSE IF t[next].kind = "link" /\ (~isLast \/ follow)
     THEN Answer("link", t[next].target \o SubSeq(p, i + 1, Len(p)))
     ELSE IF isLast THEN Answer("found", next) ELSE Answer("invalid", <<>>)

\* One pass over the names of p.
Reached(t, p, follow, missing) ==
  LET stops == Stops(t, p)
  IN IF stops = {} THEN Answer("found", p)
     ELSE StoppedAt(t, p, CHOOSE i \in stops : \A k \in stops : i <= k, follow, missing)

\* What is left to resolve after a link, if there is one in the way.
Followed(t, h) ==
  LET r == Reached(t, h.path, h.follow, FALSE)
  IN IF r.err = "link" THEN [path |-> r.path, follow |-> h.follow \/ ~FinalKept] ELSE h

\* What is left to resolve after n links.
Hops(t, p, follow) ==
  LET hop[n \in Nat] ==
        IF n = 0 THEN [path |-> p, follow |-> follow] ELSE Followed(t, hop[n - 1])
  IN hop

\* The answer for what is left, h, when no more links are followed.
Final(r) == IF r.err = "link" THEN Answer("loop", <<>>) ELSE r
Resolved(t, h, missing) == Final(Reached(t, h.path, h.follow, missing))

Walk(t, p, follow, missing) == Resolved(t, Hops(t, p, follow)[MaxSymlinkDepth], missing)

-----------------------------------------------------------------------------
\* The operations.  A creating operation finds the parent of a path that is
\* "absent" to be a directory, because resolution went through it.

\* One name of MkdirAll: a missing directory is made, a link is followed.
MkdirStep(m, name) ==
  LET next == Append(m.at, name)
      w    == Walk(m.t, next, TRUE, FALSE)
  IN IF ~m.ok THEN m
     ELSE IF next \notin DOMAIN m.t
     THEN [ok |-> TRUE, t |-> Put(m.t, next, Dir("new")), at |-> next]
     ELSE IF w.err = "found" /\ IsDir(m.t, w.path) THEN [ok |-> TRUE, t |-> m.t, at |-> w.path]
     ELSE [ok |-> FALSE, t |-> m.t, at |-> m.at]

\* After the first n names of p.
MkdirSteps(t, p) ==
  LET made[n \in Nat] == IF n = 0 THEN [ok |-> TRUE, t |-> t, at |-> <<>>]
                         ELSE MkdirStep(made[n - 1], p[n])
  IN made

MkdirAllIn(t, p) == LET m == MkdirSteps(t, p)[Len(p)] IN Outcome(m.ok, m.t)

OpenIn(t, p, create, excl, trunc) ==
  LET w     == Walk(t, p, TRUE, create)
      entry == Walk(t, p, FALSE, TRUE)
  IN IF create /\ excl /\ entry.err = "found" THEN Outcome(FALSE, t)
     ELSE IF w.err = "absent" THEN Outcome(TRUE, Put(t, w.path, Leaf("file", w.path, <<>>, "new")))
     ELSE IF w.err # "found" \/ (create /\ excl) \/ IsDir(t, w.path) THEN Outcome(FALSE, t)
     ELSE Outcome(TRUE, IF trunc /\ t[w.path].kind = "file" THEN SetAttr(t, w.path, "new") ELSE t)

CreateIn(t, p, kind, target) ==
  LET w == Walk(t, p, FALSE, TRUE)
  IN IF w.err # "absent" THEN Outcome(FALSE, t)
     ELSE Outcome(TRUE, Put(t, w.path, Leaf(kind, w.path, target, "new")))

SymlinkIn(t, target, p) == CreateIn(t, p, "link", target)

MkfifoIn(t, p) == CreateIn(t, p, "fifo", <<>>)

LinkIn(t, old, new) ==
  LET o == Walk(t, old, FALSE, FALSE)
      n == Walk(t, new, FALSE, TRUE)
  IN IF o.err # "found" \/ IsDir(t, o.path) \/ n.err # "absent" THEN Outcome(FALSE, t)
     ELSE Outcome(TRUE, Canonical(Put(t, n.path, t[o.path])))

\* Chmod, Chown, Chtimes and Lchtimes: a change in place.
TouchIn(t, p, follow) ==
  LET w == Walk(t, p, follow, FALSE)
  IN IF w.err # "found" THEN Outcome(FALSE, t)
     ELSE Outcome(TRUE, SetAttr(t, w.path, Edited(t[w.path].attr)))

RemoveIn(t, p, recursive) ==
  LET w == Walk(t, p, FALSE, FALSE)
  IN IF \/ w.err # "found" \/ w.path = <<>>
        \/ (IsDir(t, w.path) /\ Children(t, w.path) # {} /\ ~recursive)
     THEN Outcome(FALSE, t)
     ELSE LET left == DOMAIN t \ Subtree(t, w.path)
          IN Outcome(TRUE, Canonical([q \in left |-> t[q]]))

\* The path of q after src became dst.
Moved(q, src, dst) == dst \o SubSeq(q, Len(src) + 1, Len(q))

RenameIn(t, old, new) ==
  LET o == Walk(t, old, FALSE, FALSE)
      n == Walk(t, new, FALSE, TRUE)
  IN IF \/ o.err # "found" \/ o.path = <<>>
        \/ n.err # "absent" \/ SX!IsStrictPrefix(o.path, n.path)
     THEN Outcome(FALSE, t)
     ELSE LET kept  == DOMAIN t \ Subtree(t, o.path)
              moved == {Moved(q, o.path, n.path) : q \in Subtree(t, o.path)}
          IN Outcome(TRUE, Canonical([q \in kept \cup moved |->
                                        IF q \in kept THEN t[q] ELSE t[Moved(q, n.path, o.path)]]))

ReadDirIn(t, p) ==
  LET w == Walk(t, p, TRUE, FALSE)
  IN IF w.err # "found" \/ ~IsDir(t, w.path) THEN [ok |-> FALSE, names |-> {}]
     ELSE [ok |-> TRUE, names |-> {SX!Last(q) : q \in Children(t, w.path)}]

-----------------------------------------------------------------------------
Init == tree = Seed

\* An operation whose result fits the paths of the instance.
Become(outcome) == outcome.ok /\ DOMAIN outcome.t \subseteq Paths /\ tree' = outcome.t

MkdirAll(p) == Become(MkdirAllIn(tree, p))
OpenFile(p, create, excl, trunc) == Become(OpenIn(tree, p, create, excl, trunc))
Symlink(target, p) == Become(SymlinkIn(tree, target, p))
Mkfifo(p) == Become(MkfifoIn(tree, p))
Link(old, new) == Become(LinkIn(tree, old, new))
Touch(p, follow) == Become(TouchIn(tree, p, follow))
Remove(p, recursive) == Become(RemoveIn(tree, p, recursive))
Rename(old, new) == Become(RenameIn(tree, old, new))

Next ==
  \/ \E p \in Paths : MkdirAll(p) \/ Mkfifo(p)
  \/ \E p \in Paths, create, excl, trunc \in BOOLEAN : OpenFile(p, create, excl, trunc)
  \/ \E p \in Paths, target \in Targets : Symlink(target, p)
  \/ \E old, new \in Paths : Link(old, new) \/ Rename(old, new)
  \/ \E p \in Paths, follow \in BOOLEAN : Touch(p, follow)
  \/ \E p \in Paths, recursive \in BOOLEAN : Remove(p, recursive)

Spec == Init /\ [][Next]_tree

-----------------------------------------------------------------------------
\* A path that is not followed to its end names the entry in its directory:
\* whatever links lead to the directory of p, Lstat, Readlink, Remove and
\* Rename of p are about the entry itself and not about what it points to.
EntryItself ==
  \A p \in Paths \ {<<>>} :
    LET d     == Walk(tree, SX!Front(p), TRUE, FALSE)
        entry == Append(d.path, SX!Last(p))
    IN d.err = "found" /\ IsDir(tree, d.path) /\ entry \in DOMAIN tree
         => Walk(tree, p, FALSE, FALSE) = Answer("found", entry)
=============================================================================
