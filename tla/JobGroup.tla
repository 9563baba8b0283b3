------------------------------ MODULE JobGroup -------------------------------
(***************************************************************************)
(* The background jobs and process substitutions of one shell family       *)
(* (internal/shell/interp/jobs.go), from the first statement of the main   *)
(* shell to the return of StopJobs.                                        *)
(*                                                                         *)
(* A task is the goroutine of a job (cmd &) or of a process substitution   *)
(* (<(cmd), >(cmd)).  Tasks start tasks of their own.  A job runs under a  *)
(* context of its own below its starter's; a process substitution under    *)
(* its starter's.  What a script does between the statements that start or *)
(* await tasks is not told apart; it may end at any moment.                *)
(***************************************************************************)
EXTENDS Naturals, FiniteSets

CONSTANTS
  Tasks,     \* bound: identities of the tasks of one run, used in order
  Scenes     \* the caps of background jobs and the bounds that are explored

ASSUME TasksAssumption == Tasks \subseteq Nat /\ IsFiniteSet(Tasks)
ASSUME ScenesAssumption ==
  Scenes \subseteq [tasks : SUBSET Tasks, maxJobs : Nat \ {0}, bytes : Nat]

VARIABLES
  scene,     \* the cap and the bounds of this run; never changes
  live,      \* jobGroup.live
  wg,        \* the counter of jobGroup.wg
  stopped,   \* jobGroup.ctx is cancelled
  released,  \* procSubstManager.closed: the shell side of every pipe is closed
  shut,      \* substitutions whose shell side was closed before that
  status,    \* of each task; "closing" is after its bg.done is closed
  kind,      \* what each task is
  parent,    \* the shell that started it
  above,     \* the jobs whose contexts its own context is below, or is
  cancelled, \* jobs whose own context is cancelled
  armed,     \* jobs whose AfterFunc on the group's context is registered
  pc,        \* where each shell is in startBackground, the main one in StopJobs
  on,        \* the children a shell waits for
  ctx        \* Err() of the execution's context

groupVars == <<live, wg, stopped, released, shut>>
taskVars  == <<status, kind, parent, above, cancelled, armed>>
jobVars   == <<scene, groupVars, taskVars, pc, on, ctx>>

Main == 0
ASSUME MainIsNoTask == Main \notin Tasks

Shells == Tasks \cup {Main}

\* A process substitution may do without its pipe, such as <(sleep 9): it is
\* "deaf" to its closing.  Or it sits in a Read or Write of its pipe, which
\* look at no context: "subst" if its command does, such as >(cat), "blind" if
\* the command does not either, such as >(tee log).
Substs == {"subst", "deaf", "blind"}
Kinds == {"job"} \cup Substs

\* maxLiveBackgroundJobs
MaxJobs == scene.maxJobs

JobTypeOK ==
  /\ scene \in Scenes
  /\ live \in Nat /\ wg \in Nat
  /\ stopped \in BOOLEAN /\ released \in BOOLEAN
  /\ status \in [Tasks -> {"free", "live", "closing", "ended"}]
  /\ kind \in [Tasks -> Kinds]
  /\ parent \in [Tasks -> Shells]
  /\ above \in [Shells -> SUBSET Tasks]
  /\ cancelled \subseteq Tasks /\ armed \subseteq Tasks /\ shut \subseteq Tasks
  /\ pc \in [Shells -> {"run", "slot", "over", "cancel", "release", "wait", "joined"}]
  /\ on \in [Shells -> SUBSET Tasks]
  /\ ctx \in {"none", "deadline", "canceled"}

JobInit ==
  /\ scene \in Scenes
  /\ live = 0 /\ wg = 0
  /\ stopped = FALSE /\ released = FALSE
  /\ status = [t \in Tasks |-> "free"]
  /\ kind = [t \in Tasks |-> "job"]
  /\ parent = [t \in Tasks |-> Main]
  /\ above = [s \in Shells |-> {}]
  /\ cancelled = {} /\ armed = {} /\ shut = {}
  /\ pc = [s \in Shells |-> "run"]
  /\ on = [s \in Shells |-> {}]
  /\ ctx = "none"

-----------------------------------------------------------------------------
Free == {t \in scene.tasks : status[t] = "free"}
InStatus(st) == {t \in Tasks : status[t] \in st}

\* The tasks a call of wg.Wait waits for.
Running == InStatus({"live", "closing"})

CtxDone(s) == ctx # "none" \/ above[s] \cap cancelled # {}

\* A shell between two statements.
Ready(s) == (s = Main \/ s \in InStatus({"live"})) /\ pc[s] = "run" /\ on[s] = {}

\* The bound on tasks leaves one for every reservation.
Spare == Cardinality({s \in Shells : pc[s] = "slot"}) < Cardinality(Free)

Goto(s, where) == pc' = [pc EXCEPT ![s] = where]

\* Mutant of Begin: a task is counted by its own goroutine, after the shell
\* that started it has gone on.
BeginUncounted(s, t, k, contexts) ==
  /\ t \in Free /\ \A u \in Free : t <= u
  /\ status' = [status EXCEPT ![t] = "live"]
  /\ kind' = [kind EXCEPT ![t] = k]
  /\ parent' = [parent EXCEPT ![t] = s]
  /\ above' = [above EXCEPT ![t] = contexts]
  /\ UNCHANGED wg

\* A task begins: it is counted before its goroutine is started.
Begin(s, t, k, contexts) ==
  /\ t \in Free /\ \A u \in Free : t <= u
  /\ status' = [status EXCEPT ![t] = "live"]
  /\ kind' = [kind EXCEPT ![t] = k]
  /\ parent' = [parent EXCEPT ![t] = s]
  /\ above' = [above EXCEPT ![t] = contexts]
  /\ wg' = wg + 1

-----------------------------------------------------------------------------
(* startBackground and startProcSubst                                      *)

\* Mutant of Reserve: the counter is compared as it was before.
ReserveLate(s) ==
  /\ Ready(s) /\ ~CtxDone(s)
  /\ live < MaxJobs => Spare
  /\ live' = live + 1
  /\ Goto(s, IF live > MaxJobs THEN "over" ELSE "slot")
  /\ UNCHANGED <<wg, stopped, released, shut, taskVars, on, ctx>>

\* The counter is raised before it is compared with the cap.  A statement is
\* begun only under a live context.
Reserve(s) ==
  /\ Ready(s) /\ ~CtxDone(s)
  /\ live < MaxJobs => Spare
  /\ live' = live + 1
  /\ Goto(s, IF live + 1 > MaxJobs THEN "over" ELSE "slot")
  /\ UNCHANGED <<wg, stopped, released, shut, taskVars, on, ctx>>

Refuse(s) ==
  /\ pc[s] = "over"
  /\ live' = live - 1
  /\ Goto(s, "run")
  /\ UNCHANGED <<wg, stopped, released, shut, taskVars, on, ctx>>

Admit(s) ==
  /\ pc[s] = "slot"
  /\ \E t \in Free : Begin(s, t, "job", above[s] \cup {t}) /\ armed' = armed \cup {t}
  /\ Goto(s, "run")
  /\ UNCHANGED <<live, stopped, released, shut, cancelled, on, ctx>>

\* Mutant of StartSubst: a process substitution stops with the group.
StartSubstArmed(s, k) ==
  /\ Ready(s) /\ ~CtxDone(s) /\ ~released /\ Spare
  /\ \E t \in Free : Begin(s, t, k, above[s] \cup {t}) /\ armed' = armed \cup {t}
  /\ UNCHANGED <<live, stopped, released, shut, cancelled, pc, on, ctx>>

\* endpoint fails once the manager is closed, so that every substitution that
\* runs has its pipe in the table that Close works through.
StartSubst(s, k) ==
  /\ Ready(s) /\ ~CtxDone(s) /\ ~released /\ Spare
  /\ \E t \in Free : Begin(s, t, k, above[s])
  /\ UNCHANGED <<live, stopped, released, shut, cancelled, armed, pc, on, ctx>>

-----------------------------------------------------------------------------
(* Waiting for tasks: no wait looks at a context.                          *)

\* The tasks a shell has started and not seen end.
Children(s) == {t \in Tasks : parent[t] = s /\ status[t] = "live"}

\* The wait builtin: for all, process substitutions too, or for those that are
\* named.  A command blocked in the pipe of its own <(cmd) waits like that for
\* the one task.
WaitFor(s) ==
  /\ Ready(s) /\ ~CtxDone(s)
  /\ \E waited \in SUBSET Children(s) \ {{}} : on' = [on EXCEPT ![s] = waited]
  /\ UNCHANGED <<groupVars, taskVars, pc, ctx>>

\* A statement ends: the redirections it opened are closed, and >(cmd) of one
\* of them is then joined; a command has closed what it was given as an
\* argument, and nobody waits.
EndStmt(s, t) ==
  /\ Ready(s)
  /\ t \in Children(s) \ shut /\ kind[t] \in Substs
  /\ shut' = shut \cup {t}
  /\ \E joined \in {{}, {t}} : on' = [on EXCEPT ![s] = joined]
  /\ UNCHANGED <<live, wg, stopped, released, taskVars, pc, ctx>>

Resume(s) ==
  /\ on[s] # {} /\ on[s] \cap InStatus({"live"}) = {}
  /\ on' = [on EXCEPT ![s] = {}]
  /\ UNCHANGED <<groupVars, taskVars, pc, ctx>>

-----------------------------------------------------------------------------
(* The end of a task                                                       *)

\* Its commands are over and bg.done is closed.
Finish(t) ==
  /\ t \in Tasks /\ Ready(t)
  /\ status' = [status EXCEPT ![t] = "closing"]
  /\ UNCHANGED <<groupVars, kind, parent, above, cancelled, armed, pc, on, ctx>>

\* jobDone.  A job's own context is cancelled, and with it the contexts of
\* the tasks it has started.
Leave(t) ==
  /\ status[t] = "closing"
  /\ status' = [status EXCEPT ![t] = "ended"]
  /\ wg' = wg - 1
  /\ IF kind[t] = "job"
     THEN /\ live' = live - 1
          /\ cancelled' = cancelled \cup {t}
          /\ armed' = armed \ {t}
     ELSE UNCHANGED <<live, cancelled, armed>>
  /\ UNCHANGED <<stopped, released, shut, kind, parent, above, pc, on, ctx>>

-----------------------------------------------------------------------------
(* Contexts and StopJobs                                                   *)

\* The deadline passes, or the caller cancels.
CtxEnds ==
  /\ ctx = "none"
  /\ ctx' \in {"deadline", "canceled"}
  /\ UNCHANGED <<groupVars, taskVars, pc, on>>

\* The AfterFunc of a job runs in its own goroutine, some time after the group
\* is cancelled or, for a job started later, after it is registered.
GroupReaches(t) ==
  /\ stopped /\ t \in armed
  /\ cancelled' = cancelled \cup {t}
  /\ armed' = armed \ {t}
  /\ UNCHANGED <<groupVars, status, kind, parent, above, pc, on, ctx>>

\* The main shell's script is over.
MainEnds ==
  /\ Ready(Main)
  /\ Goto(Main, "cancel")
  /\ UNCHANGED <<groupVars, taskVars, on, ctx>>

StopCancel ==
  /\ pc[Main] = "cancel"
  /\ stopped' = TRUE
  /\ Goto(Main, "release")
  /\ UNCHANGED <<live, wg, released, shut, taskVars, on, ctx>>

\* Mutant of StopRelease: the pipes stay open.
StopReleaseNothing ==
  /\ pc[Main] = "release"
  /\ Goto(Main, "wait")
  /\ UNCHANGED <<groupVars, taskVars, on, ctx>>

StopRelease ==
  /\ pc[Main] = "release"
  /\ released' = TRUE
  /\ Goto(Main, "wait")
  /\ UNCHANGED <<live, wg, stopped, shut, taskVars, on, ctx>>

StopWait ==
  /\ pc[Main] = "wait" /\ wg = 0
  /\ Goto(Main, "joined")
  /\ UNCHANGED <<groupVars, taskVars, on, ctx>>

-----------------------------------------------------------------------------
ShellStep(s) ==
  \/ Reserve(s) \/ Refuse(s) \/ Admit(s) \/ Resume(s)
  \/ \E k \in Substs : StartSubst(s, k)
  \/ WaitFor(s)
  \/ \E t \in Tasks : EndStmt(s, t)

TaskStep(t) == Finish(t) \/ Leave(t) \/ GroupReaches(t)

StopStep == StopCancel \/ StopRelease \/ StopWait

JobNext ==
  /\ UNCHANGED scene
  /\ \/ \E s \in Shells : ShellStep(s)
     \/ \E t \in Tasks : TaskStep(t)
     \/ StopStep \/ MainEnds \/ CtxEnds

\* The shell side of its pipe is closed.
PipeClosed(t) == released \/ t \in shut

\* A task whose context is done ends at its next statement or blocking call,
\* unless that is blind, and one that sits in its pipe when that is closed.
MustEnd(t) ==
  \/ CtxDone(t) /\ kind[t] # "blind"
  \/ kind[t] \in {"subst", "blind"} /\ PipeClosed(t)

\* The main shell waits, directly or through tasks that wait themselves, for a
\* substitution that its context does not reach and whose pipe it holds open.
Stuck ==
  \A waited \in SUBSET Tasks :
    on[Main] \subseteq waited /\ (\A t \in waited : on[t] \subseteq waited)
      => \E t \in waited : kind[t] = "blind" /\ status[t] = "live" /\ ~PipeClosed(t)

-----------------------------------------------------------------------------
\* The counters are those of the tasks, whatever starts and ends in between:
\* live counts the jobs and the reservations, so that no more jobs than the
\* cap ever run, and wg what StopJobs has to wait for.
CountersExact ==
  /\ live = Cardinality({t \in Running : kind[t] = "job"})
              + Cardinality({s \in Shells : pc[s] \in {"slot", "over"}})
  /\ Cardinality({t \in Running : kind[t] = "job"}) <= MaxJobs
  /\ wg = Cardinality(Running)

\* Once StopJobs has returned, no job and no process substitution is running,
\* not even one started while it was waiting.
NothingOutlives == pc[Main] = "joined" => Running = {}

\* The end of the script cuts nothing short that the main shell has started:
\* its jobs lose their context only when the script is over, and its process
\* substitutions only when the execution's own context ends, so that
\* exec > >(cat) drains.
CancelJustified ==
  [][\A t \in Tasks :
       /\ status[t] = "live" /\ parent[t] = Main
       /\ ~CtxDone(t) /\ CtxDone(t)'
       => \/ ctx' # "none"
          \/ kind[t] = "job" /\ pc[Main] \notin {"run", "slot", "over"}]_jobVars
=============================================================================
