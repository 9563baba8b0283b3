--------------------------- MODULE SandboxLayout ----------------------------
(***************************************************************************)
(* The cache of a session's directory layout                               *)
(* (internal/runtime/layout_state.go).  Before a script runs, the          *)
(* directories of its environment and a stub for every command have to     *)
(* exist.  Building them is skipped as long as no file event has touched   *)
(* them; events come from the commands, after the change they report.      *)
(*                                                                         *)
(* An item is a directory or a stub of the layout.  Two environments, told *)
(* apart by HOME or the working directory, need different items.           *)
(***************************************************************************)
EXTENDS Naturals, Sequences

CONSTANTS
  Items,     \* the paths of all layouts
  Stubs,     \* those that are command stubs; the others are directories
  Inside,    \* of an item: the items at its path or below it
  Envs,      \* environments of requests
  Layout,    \* of an environment: its directories, then its stubs, in order
  Base       \* the environment of the session

ASSUME LayoutAssumption ==
  /\ Stubs \subseteq Items /\ Base \in Envs
  /\ Inside \in [Items -> SUBSET Items] /\ \A i \in Items : i \in Inside[i]
  /\ Layout \in [Envs -> Seq(Items)]

VARIABLES
  disk,      \* of an item: "ok", "missing", or "blocked" by a plain file
  env,       \* home, path and workDir of the cache
  commands,  \* whether the command names are known
  seeded,    \* whether dirs and stubs are non-nil
  tracked,   \* dirs and stubs
  dirty,
  phase,     \* "idle", or the script runs
  pending,   \* changes whose event is still to be recorded
  failed     \* history: ensure has failed, and not rebuilt everything since

cacheVars == <<env, commands, seeded, tracked, dirty>>
vars == <<disk, cacheVars, phase, pending, failed>>

Need(e) == {Layout[e][n] : n \in 1..Len(Layout[e])}

\* A new session has the layout of its own environment.
Init ==
  /\ disk = [i \in Items |-> IF i \in Need(Base) THEN "ok" ELSE "missing"]
  /\ env = Base /\ commands = FALSE
  /\ seeded = FALSE /\ tracked = {} /\ dirty = FALSE
  /\ phase = "idle" /\ pending = {} /\ failed = FALSE

-----------------------------------------------------------------------------
Above(i) == {j \in Items : i \in Inside[j]}

\* MkdirAll makes the directories above too; a stub needs its directory.
CanMake(d, i) ==
  IF i \in Stubs THEN \A j \in Above(i) \ {i} : d[j] = "ok"
  ELSE \A j \in Above(i) : d[j] # "blocked"

\* The tree once the items of S are made.
Made(d, S) == [j \in Items |-> IF \E i \in S : j \in Above(i) THEN "ok" ELSE d[j]]

\* The items among the entries ns of the layout that are not skipped.
New(e, skip, ns) == {Layout[e][n] : n \in ns} \ skip

\* Entry n cannot be made after those before it.
Fails(e, skip, d, n) ==
  LET before == New(e, skip, 1..(n - 1))
  IN Layout[e][n] \notin before \cup skip /\ ~CanMake(Made(d, before), Layout[e][n])

\* The loops of ensure and initializeSandboxLayout: every item that is not
\* skipped is made, in order, up to the first that cannot be.  The Chmod of
\* /tmp between directories and stubs is left out.
Built(e, skip) ==
  LET reached == {n \in 1..Len(Layout[e]) : \A m \in 1..n : ~Fails(e, skip, disk, m)}
      new     == New(e, skip, reached)
  IN [ok |-> reached = 1..Len(Layout[e]), disk |-> Made(disk, new), done |-> skip \cup new]

\* ensure returns at once.
Fresh(e) == ~dirty /\ env = e

\* ensure.  The dirty mark and the tracked items are dropped before the items
\* are made, and a failure leaves both so.
Ensure(e) ==
  IF Fresh(e)
  THEN /\ commands' = TRUE
       /\ UNCHANGED <<disk, env, seeded, tracked, dirty, failed>>
  ELSE LET b == Built(e, IF dirty THEN {} ELSE tracked)
       IN /\ dirty' = FALSE /\ seeded' = TRUE
          /\ disk' = b.disk /\ tracked' = b.done /\ failed' = (~b.ok \/ (failed /\ ~dirty))
          /\ env' = IF b.ok THEN e ELSE env
          /\ commands' = (commands \/ b.ok)

\* Session.Exec: the layout, then the script unless ensure failed or the
\* working directory, one of the items, is not there to change to.
Exec(e) ==
  /\ phase = "idle"
  /\ Ensure(e)
  /\ \/ phase' = "run" /\ (Fresh(e) \/ Built(e, IF dirty THEN {} ELSE tracked).ok)
     \/ phase' = "idle" /\ \E i \in Need(e) : disk'[i] # "ok"
  /\ UNCHANGED pending

\* A command such as bash -c calls exec again, under the same session lock,
\* beside jobs that change files.
SubExec(e) ==
  /\ phase = "run"
  /\ Ensure(e)
  /\ UNCHANGED <<phase, pending>>

\* Session.Interact builds the whole layout and leaves the cache alone.
Interact(e) ==
  LET b == Built(e, {})
  IN /\ phase = "idle"
     /\ disk' = b.disk
     /\ phase' = IF b.ok THEN "run" ELSE "idle"
     /\ UNCHANGED <<cacheVars, pending, failed>>

-----------------------------------------------------------------------------
\* A command removes, replaces or makes an item: with a directory goes all
\* that is inside.  An operation that fails has changed nothing.
Change(i, to) ==
  /\ phase = "run" /\ disk[i] # to
  /\ to = "blocked" => i \notin Stubs
  /\ to # "missing" => \A j \in Above(i) \ {i} : disk[j] = "ok"
  /\ disk' = [j \in Items |-> IF j = i THEN to
                              ELSE IF j \in Inside[i] THEN "missing" ELSE disk[j]]
  /\ pending' = pending \cup {i}
  /\ UNCHANGED <<cacheVars, phase, failed>>

\* Mutant of Touches: only the path of the event itself counts.
TouchesExactly(i, known) == i \in known

\* layoutMutationTouchesPath, over the known items.
Touches(i, known) == Inside[i] \cap known # {}

\* observeFileMutation.  Before the commands are known the layout of the
\* cache's environment stands for the tracked items, afterwards it is their
\* first value.
Record(i) ==
  LET known == IF commands /\ seeded THEN tracked ELSE Need(env)
  IN /\ i \in pending
     /\ pending' = pending \ {i}
     /\ IF dirty THEN UNCHANGED <<seeded, tracked, dirty>>
        ELSE /\ dirty' = Touches(i, known)
             /\ IF commands THEN seeded' = TRUE /\ tracked' = known
                ELSE UNCHANGED <<seeded, tracked>>
     /\ UNCHANGED <<disk, env, commands, phase, failed>>

\* Mutant of Return: the execution ends before its jobs have.
ReturnEarly ==
  /\ phase = "run"
  /\ phase' = "idle"
  /\ UNCHANGED <<disk, cacheVars, pending, failed>>

\* The execution ends once all its commands have, so after their events.
Return ==
  /\ phase = "run" /\ pending = {}
  /\ phase' = "idle"
  /\ UNCHANGED <<disk, cacheVars, pending, failed>>

Next ==
  \/ \E e \in Envs : Exec(e) \/ SubExec(e) \/ Interact(e)
  \/ \E i \in Items, to \in {"ok", "missing", "blocked"} : Change(i, to)
  \/ \E i \in Items : Record(i)
  \/ Return

Spec == Init /\ [][Next]_vars

-----------------------------------------------------------------------------
\* A script starts with the whole layout of its environment, however earlier
\* scripts changed the tree and whichever environments they had, unless an
\* ensure has failed and none has rebuilt everything since.
LayoutPresent ==
  [][\A e \in Envs : Exec(e) /\ phase' = "run" /\ ~failed =>
       \A i \in Need(e) : disk'[i] = "ok"]_vars

\* What the cache believes to exist exists, once every event is recorded.
CacheCoherent ==
  ~dirty /\ ~failed =>
    \A i \in tracked \cup (IF seeded THEN {} ELSE Need(env)) :
      disk[i] = "ok" \/ \E j \in pending : i \in Inside[j]
=============================================================================
