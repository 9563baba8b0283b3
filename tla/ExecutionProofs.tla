--------------------------- MODULE ExecutionProofs ---------------------------
(***************************************************************************)
(* Proofs about an execution, for any number of tasks and any cap.  First  *)
(* its shell family: the inductive invariant JobInv is about the variables *)
(* of JobGroup alone, and every step of an execution is a step of its      *)
(* family or leaves the family's variables unchanged.  Then its result,    *)
(* for every limit and for output of any number of tasks: nothing writes   *)
(* to the buffer once the result has been taken from it, because the       *)
(* family is joined, and what the buffer holds, in memory and on disk, is  *)
(* a prefix of the output or is reported as cut.                           *)
(***************************************************************************)
EXTENDS Execution, FiniteSetTheorems, SequenceTheorems, TLAPS

JobsRunning == {t \in Running : kind[t] = "job"}
At(places) == {s \in Shells : pc[s] \in places}

\* The counters, with the reservations that the cap has to leave room for.
CountInv ==
  /\ live = Cardinality(JobsRunning) + Cardinality(At({"slot", "over"}))
  /\ Cardinality(JobsRunning) + Cardinality(At({"slot"})) <= MaxJobs
  /\ wg = Cardinality(Running)

\* A task that is inside startBackground is live.
PlaceInv ==
  \A t \in Tasks : /\ pc[t] \in {"run", "slot", "over"}
                   /\ pc[t] # "run" => status[t] = "live"

\* What the main shell has started is below no other job's context.
AboveInv ==
  /\ above[Main] = {}
  /\ \A t \in Tasks : status[t] # "free" /\ parent[t] = Main =>
       above[t] = IF kind[t] = "job" THEN {t} ELSE {}

\* The group is cancelled by StopJobs only.
StopInv == stopped => pc[Main] \in {"release", "wait", "joined"}

JobInv == JobTypeOK /\ CountInv /\ PlaceInv /\ AboveInv /\ StopInv /\ NothingOutlives

-----------------------------------------------------------------------------
LEMMA ShellsFacts == Tasks \subseteq Shells /\ Main \in Shells /\ IsFiniteSet(Shells)
<1>1. IsFiniteSet(Tasks \cup {Main})
  BY TasksAssumption, FS_AddElement
<1> QED BY <1>1 DEF Shells

\* The sets that are counted are finite.
LEMMA CountedFinite ==
  /\ IsFiniteSet(Running) /\ IsFiniteSet(JobsRunning)
  /\ \A places : IsFiniteSet(At(places))
<1>1. Running \subseteq Tasks /\ JobsRunning \subseteq Tasks
  BY DEF Running, InStatus, JobsRunning
<1>2. \A places : At(places) \subseteq Shells
  BY DEF At
<1> QED BY <1>1, <1>2, TasksAssumption, ShellsFacts, FS_Subset

\* What a scene may be: the cap is positive, and the tasks are tasks.
LEMMA SceneFacts ==
  ASSUME JobTypeOK
  PROVE  MaxJobs \in Nat \ {0} /\ Free \subseteq Tasks
BY ScenesAssumption DEF JobTypeOK, MaxJobs, Free

LEMMA SameCap == scene' = scene => MaxJobs' = MaxJobs
BY DEF MaxJobs

\* A step that changes no status, kind or counter of a task, and moves no
\* shell into or out of startBackground, preserves the counts.
LEMMA CountsUnchanged ==
  ASSUME CountInv, Running' = Running, JobsRunning' = JobsRunning,
         At({"slot", "over"})' = At({"slot", "over"}), At({"slot"})' = At({"slot"}),
         UNCHANGED <<scene, live, wg>>
  PROVE  CountInv'
BY SameCap DEF CountInv

LEMMA RunningUnchanged ==
  ASSUME UNCHANGED <<status, kind>>
  PROVE  Running' = Running /\ JobsRunning' = JobsRunning
BY DEF Running, InStatus, JobsRunning

-----------------------------------------------------------------------------
LEMMA ReserveStep ==
  ASSUME JobInv, scene' = scene, NEW s \in Shells, Reserve(s)
  PROVE  JobInv'
<1> USE DEF Reserve, Goto, Ready, taskVars, groupVars
<1>0. JobTypeOK /\ CountInv /\ PlaceInv /\ AboveInv /\ StopInv /\ NothingOutlives
  BY DEF JobInv
<1>1. JobTypeOK'
  BY <1>0 DEF JobTypeOK
<1>2. pc' = [pc EXCEPT ![s] = IF live + 1 > MaxJobs THEN "over" ELSE "slot"] /\ pc[s] = "run"
  OBVIOUS
<1>3. CountInv'
  <2>1. /\ At({"slot", "over"})' = At({"slot", "over"}) \cup {s}
        /\ s \notin At({"slot", "over"}) /\ s \notin At({"slot"})
        /\ At({"slot"}) \subseteq At({"slot", "over"})
    BY <1>0, <1>2 DEF At, JobTypeOK
  <2>2. At({"slot"})' = IF live + 1 > MaxJobs THEN At({"slot"}) ELSE At({"slot"}) \cup {s}
    BY <1>0, <1>2 DEF At, JobTypeOK
  <2>3. Running' = Running /\ JobsRunning' = JobsRunning
    BY RunningUnchanged
  <2>4. /\ Cardinality(At({"slot", "over"}))' = Cardinality(At({"slot", "over"})) + 1
        /\ Cardinality(At({"slot"}) \cup {s}) = Cardinality(At({"slot"})) + 1
        /\ Cardinality(At({"slot"})) <= Cardinality(At({"slot", "over"}))
    BY <2>1, CountedFinite, FS_AddElement, FS_Subset
  <2>5. /\ Cardinality(At({"slot", "over"})) \in Nat /\ Cardinality(At({"slot"})) \in Nat
        /\ Cardinality(JobsRunning) \in Nat
    BY CountedFinite, FS_CardinalityType
  <2> QED BY <1>0, <2>2, <2>3, <2>4, <2>5, SceneFacts, SameCap DEF CountInv, JobTypeOK
<1>4. PlaceInv' /\ StopInv' /\ NothingOutlives'
  BY <1>0, <1>2, MainIsNoTask, RunningUnchanged
  DEF PlaceInv, StopInv, NothingOutlives, InStatus, JobTypeOK, Shells
<1>5. AboveInv'
  BY <1>0 DEF AboveInv
<1> QED BY <1>1, <1>3, <1>4, <1>5 DEF JobInv

LEMMA RefuseStep ==
  ASSUME JobInv, scene' = scene, NEW s \in Shells, Refuse(s)
  PROVE  JobInv'
<1> USE DEF Refuse, Goto, taskVars
<1>0. JobTypeOK /\ CountInv /\ PlaceInv /\ AboveInv /\ StopInv /\ NothingOutlives
  BY DEF JobInv
<1>1. /\ At({"slot", "over"})' = At({"slot", "over"}) \ {s} /\ s \in At({"slot", "over"})
      /\ At({"slot"})' = At({"slot"})
  BY <1>0 DEF At, JobTypeOK
<1>2. Running' = Running /\ JobsRunning' = JobsRunning
  BY RunningUnchanged
<1>3. Cardinality(At({"slot", "over"}))' = Cardinality(At({"slot", "over"})) - 1
  BY <1>1, CountedFinite, FS_RemoveElement
<1>4. /\ Cardinality(At({"slot", "over"})) \in Nat /\ Cardinality(At({"slot", "over"}))' \in Nat
      /\ Cardinality(JobsRunning) \in Nat
  BY <1>1, CountedFinite, FS_CardinalityType, FS_RemoveElement
<1>5. CountInv' /\ live' \in Nat
  BY <1>0, <1>1, <1>2, <1>3, <1>4, SameCap DEF CountInv, JobTypeOK
<1>6. JobTypeOK'
  BY <1>0, <1>5 DEF JobTypeOK
<1>7. PlaceInv' /\ StopInv' /\ NothingOutlives'
  BY <1>0, <1>2, MainIsNoTask DEF PlaceInv, StopInv, NothingOutlives, JobTypeOK, Shells
<1>8. AboveInv'
  BY <1>0 DEF AboveInv
<1> QED BY <1>5, <1>6, <1>7, <1>8 DEF JobInv

\* What Begin does to the sets that are counted and to the contexts.
LEMMA BeginFacts ==
  ASSUME JobTypeOK, AboveInv, NEW s \in Shells, NEW t \in Free, NEW k \in Kinds, NEW contexts,
         Begin(s, t, k, contexts), contexts = above[s] \cup (IF k = "job" THEN {t} ELSE {})
  PROVE  /\ Running' = Running \cup {t} /\ t \notin Running
         /\ JobsRunning' = IF k = "job" THEN JobsRunning \cup {t} ELSE JobsRunning
         /\ t \notin JobsRunning
         /\ status' \in [Tasks -> {"free", "live", "closing", "ended"}]
         /\ kind' \in [Tasks -> Kinds] /\ parent' \in [Tasks -> Shells]
         /\ above' \in [Shells -> SUBSET Tasks]
         /\ \A u \in Tasks : status'[u] = "live" \/ status'[u] = status[u]
         /\ AboveInv'
<1> USE DEF Begin
<1>1. t \in Tasks /\ status[t] = "free" /\ t \in Shells /\ t # Main
  BY MainIsNoTask, SceneFacts DEF Free, Shells
<1>2. Running' = Running \cup {t} /\ t \notin Running /\ t \notin JobsRunning
  BY <1>1 DEF Running, InStatus, JobsRunning, JobTypeOK
<1>3. JobsRunning' = IF k = "job" THEN JobsRunning \cup {t} ELSE JobsRunning
  BY <1>1, <1>2 DEF Running, InStatus, JobsRunning, JobTypeOK
<1>4. /\ status' \in [Tasks -> {"free", "live", "closing", "ended"}]
      /\ kind' \in [Tasks -> Kinds] /\ parent' \in [Tasks -> Shells]
      /\ \A u \in Tasks : status'[u] = "live" \/ status'[u] = status[u]
  BY <1>1 DEF JobTypeOK
<1>5. above' \in [Shells -> SUBSET Tasks]
  BY <1>1 DEF JobTypeOK
<1>6. AboveInv'
  <2>1. above'[Main] = {}
    BY <1>1, ShellsFacts DEF AboveInv, JobTypeOK
  <2>2. ASSUME NEW u \in Tasks, status'[u] # "free", parent'[u] = Main
        PROVE  above'[u] = IF kind'[u] = "job" THEN {u} ELSE {}
    <3>1. CASE u = t
      BY <1>1, <2>2, <3>1 DEF AboveInv, JobTypeOK
    <3>2. CASE u # t
      BY <1>1, <2>2, <3>2, ShellsFacts DEF AboveInv, JobTypeOK
    <3> QED BY <3>1, <3>2
  <2> QED BY <2>1, <2>2 DEF AboveInv
<1> QED BY <1>2, <1>3, <1>4, <1>5, <1>6

LEMMA AdmitStep ==
  ASSUME JobInv, scene' = scene, NEW s \in Shells, Admit(s)
  PROVE  JobInv'
<1>0. JobTypeOK /\ CountInv /\ PlaceInv /\ AboveInv /\ StopInv /\ NothingOutlives
  BY DEF JobInv
<1>1. PICK t \in Free : Begin(s, t, "job", above[s] \cup {t}) /\ armed' = armed \cup {t}
  BY DEF Admit
<1>2. /\ pc[s] = "slot" /\ pc' = [pc EXCEPT ![s] = "run"]
      /\ UNCHANGED <<live, stopped, released, shut, cancelled, on, ctx>>
  BY DEF Admit, Goto
<1>3. /\ Running' = Running \cup {t} /\ t \notin Running
      /\ JobsRunning' = JobsRunning \cup {t} /\ t \notin JobsRunning
      /\ status' \in [Tasks -> {"free", "live", "closing", "ended"}]
      /\ kind' \in [Tasks -> Kinds] /\ parent' \in [Tasks -> Shells]
      /\ above' \in [Shells -> SUBSET Tasks]
      /\ \A u \in Tasks : status'[u] = "live" \/ status'[u] = status[u]
      /\ AboveInv'
  BY <1>0, <1>1, BeginFacts DEF Kinds
<1>4. wg' = wg + 1 /\ t \in Tasks
  BY <1>0, <1>1, SceneFacts DEF Begin
<1>5. /\ At({"slot", "over"})' = At({"slot", "over"}) \ {s} /\ s \in At({"slot", "over"})
      /\ At({"slot"})' = At({"slot"}) \ {s} /\ s \in At({"slot"})
  BY <1>0, <1>2 DEF At, JobTypeOK
<1>6. /\ Cardinality(Running)' = Cardinality(Running) + 1
      /\ Cardinality(JobsRunning)' = Cardinality(JobsRunning) + 1
      /\ Cardinality(At({"slot", "over"}))' = Cardinality(At({"slot", "over"})) - 1
      /\ Cardinality(At({"slot"}))' = Cardinality(At({"slot"})) - 1
  <2>1. Cardinality(Running)' = Cardinality(Running) + 1
    BY <1>3, CountedFinite, FS_AddElement
  <2>2. Cardinality(JobsRunning)' = Cardinality(JobsRunning) + 1
    BY <1>3, CountedFinite, FS_AddElement
  <2>3. Cardinality(At({"slot", "over"}))' = Cardinality(At({"slot", "over"})) - 1
    BY <1>5, CountedFinite, FS_RemoveElement
  <2>4. Cardinality(At({"slot"}))' = Cardinality(At({"slot"})) - 1
    BY <1>5, CountedFinite, FS_RemoveElement
  <2> QED BY <2>1, <2>2, <2>3, <2>4
<1>7. /\ Cardinality(Running) \in Nat /\ Cardinality(JobsRunning) \in Nat
      /\ Cardinality(At({"slot", "over"})) \in Nat /\ Cardinality(At({"slot"})) \in Nat
  BY CountedFinite, FS_CardinalityType
<1>8. CountInv'
  BY <1>0, <1>2, <1>4, <1>6, <1>7, SceneFacts, SameCap DEF CountInv
<1>9. JobTypeOK'
  <2>1. armed' \subseteq Tasks
    BY <1>0, <1>1, <1>4 DEF JobTypeOK
  <2>2. pc' \in [Shells -> {"run", "slot", "over", "cancel", "release", "wait", "joined"}]
    BY <1>0, <1>2 DEF JobTypeOK
  <2>3. wg' \in Nat
    BY <1>0, <1>4 DEF JobTypeOK
  <2> QED BY <1>0, <1>2, <1>3, <2>1, <2>2, <2>3 DEF JobTypeOK
<1>10. PlaceInv'
  BY <1>0, <1>2, <1>3 DEF PlaceInv, JobTypeOK
<1>11. NothingOutlives'
  <2>1. CASE s = Main
    BY <1>0, <1>2, <2>1 DEF NothingOutlives, JobTypeOK
  <2>2. CASE s # Main
    <3>1. s \in Running
      BY <1>0, <1>2, <2>2 DEF PlaceInv, Running, InStatus, Shells
    <3> QED BY <1>0, <1>2, <2>2, <3>1, ShellsFacts DEF NothingOutlives, JobTypeOK
  <2> QED BY <2>1, <2>2
<1>12. StopInv'
  BY <1>0, <1>2, ShellsFacts DEF StopInv, JobTypeOK
<1> QED BY <1>3, <1>8, <1>9, <1>10, <1>11, <1>12 DEF JobInv

LEMMA StartSubstStep ==
  ASSUME JobInv, scene' = scene, NEW s \in Shells, NEW k \in Substs, StartSubst(s, k)
  PROVE  JobInv'
<1>0. JobTypeOK /\ CountInv /\ PlaceInv /\ AboveInv /\ StopInv /\ NothingOutlives
  BY DEF JobInv
<1>1. PICK t \in Free : Begin(s, t, k, above[s])
  BY DEF StartSubst
<1>2. /\ Ready(s)
      /\ UNCHANGED <<live, stopped, released, shut, cancelled, armed, pc, on, ctx>>
  BY DEF StartSubst
<1>3. /\ Running' = Running \cup {t} /\ t \notin Running
      /\ JobsRunning' = JobsRunning
      /\ status' \in [Tasks -> {"free", "live", "closing", "ended"}]
      /\ kind' \in [Tasks -> Kinds] /\ parent' \in [Tasks -> Shells]
      /\ above' \in [Shells -> SUBSET Tasks]
      /\ \A u \in Tasks : status'[u] = "live" \/ status'[u] = status[u]
      /\ AboveInv'
  <2>1. k # "job" /\ k \in Kinds /\ above[s] = above[s] \cup (IF k = "job" THEN {t} ELSE {})
    BY DEF Substs, Kinds
  <2> QED BY <1>0, <1>1, <2>1, BeginFacts
<1>4. wg' = wg + 1
  BY <1>1 DEF Begin
<1>5. Cardinality(Running)' = Cardinality(Running) + 1
  BY <1>3, CountedFinite, FS_AddElement
<1>6. CountInv'
  BY <1>0, <1>2, <1>3, <1>4, <1>5, SameCap DEF CountInv, At
<1>7. JobTypeOK'
  BY <1>0, <1>2, <1>3, <1>4 DEF JobTypeOK
<1>8. PlaceInv' /\ StopInv'
  BY <1>0, <1>2, <1>3 DEF PlaceInv, StopInv
<1>9. NothingOutlives'
  BY <1>0, <1>2 DEF NothingOutlives, Ready, Running, InStatus
<1> QED BY <1>3, <1>6, <1>7, <1>8, <1>9 DEF JobInv

LEMMA WaitStep ==
  ASSUME JobInv, scene' = scene, NEW s \in Shells,
         Resume(s) \/ WaitFor(s) \/ \E t \in Tasks : EndStmt(s, t)
  PROVE  JobInv'
<1>0. JobTypeOK /\ CountInv /\ PlaceInv /\ AboveInv /\ StopInv /\ NothingOutlives
  BY DEF JobInv
<1>1. /\ UNCHANGED <<live, wg, stopped, released, taskVars, pc, ctx>>
      /\ on' \in [Shells -> SUBSET Tasks] /\ shut' \subseteq Tasks
  <2>1. CASE Resume(s)
    BY <1>0, <2>1 DEF Resume, JobTypeOK, groupVars
  <2>2. CASE WaitFor(s)
    BY <1>0, <2>2 DEF WaitFor, Children, JobTypeOK, groupVars
  <2>3. CASE \E t \in Tasks : EndStmt(s, t)
    BY <1>0, <2>3 DEF EndStmt, JobTypeOK
  <2> QED BY <2>1, <2>2, <2>3
<1>2. Running' = Running /\ JobsRunning' = JobsRunning
  BY <1>1, RunningUnchanged DEF taskVars
<1>3. CountInv'
  BY <1>0, <1>1, <1>2, CountsUnchanged DEF At
<1> QED BY <1>0, <1>1, <1>2, <1>3
    DEF JobInv, JobTypeOK, PlaceInv, AboveInv, StopInv, NothingOutlives, groupVars, taskVars

LEMMA FinishStep ==
  ASSUME JobInv, scene' = scene, NEW t \in Tasks, Finish(t)
  PROVE  JobInv'
<1> USE DEF Finish, Ready, groupVars
<1>0. JobTypeOK /\ CountInv /\ PlaceInv /\ AboveInv /\ StopInv /\ NothingOutlives
  BY DEF JobInv
<1>1. status[t] = "live" /\ pc[t] = "run"
  BY MainIsNoTask DEF InStatus
<1>2. Running' = Running /\ JobsRunning' = JobsRunning
  BY <1>0, <1>1 DEF Running, InStatus, JobsRunning, JobTypeOK
<1>3. CountInv'
  BY <1>0, <1>2, CountsUnchanged DEF At
<1>4. JobTypeOK' /\ PlaceInv' /\ StopInv' /\ NothingOutlives'
  BY <1>0, <1>1, <1>2 DEF JobTypeOK, PlaceInv, StopInv, NothingOutlives
<1>5. AboveInv'
  BY <1>0, <1>1 DEF AboveInv, JobTypeOK
<1> QED BY <1>3, <1>4, <1>5 DEF JobInv

LEMMA LeaveStep ==
  ASSUME JobInv, scene' = scene, NEW t \in Tasks, Leave(t)
  PROVE  JobInv'
<1> USE DEF Leave
<1>0. JobTypeOK /\ CountInv /\ PlaceInv /\ AboveInv /\ StopInv /\ NothingOutlives
  BY DEF JobInv
<1>1. /\ Running' = Running \ {t} /\ t \in Running
      /\ JobsRunning' = JobsRunning \ {t} /\ (t \in JobsRunning <=> kind[t] = "job")
  BY <1>0 DEF Running, InStatus, JobsRunning, JobTypeOK
<1>2. At({"slot", "over"})' = At({"slot", "over"}) /\ At({"slot"})' = At({"slot"})
  BY DEF At
<1>3. /\ Cardinality(Running)' = Cardinality(Running) - 1
      /\ Cardinality(JobsRunning)'
           = IF kind[t] = "job" THEN Cardinality(JobsRunning) - 1 ELSE Cardinality(JobsRunning)
  BY <1>1, CountedFinite, FS_RemoveElement
<1>4. /\ Cardinality(Running) \in Nat /\ Cardinality(Running)' \in Nat
      /\ Cardinality(JobsRunning) \in Nat /\ Cardinality(JobsRunning)' \in Nat
      /\ Cardinality(At({"slot", "over"})) \in Nat /\ Cardinality(At({"slot"})) \in Nat
  BY <1>1, CountedFinite, FS_CardinalityType, FS_RemoveElement
<1>5. CountInv' /\ live' \in Nat /\ wg' \in Nat
  BY <1>0, <1>2, <1>3, <1>4, SceneFacts, SameCap DEF CountInv, JobTypeOK
<1>6. JobTypeOK'
  BY <1>0, <1>5 DEF JobTypeOK
<1>7. PlaceInv' /\ StopInv' /\ NothingOutlives'
  BY <1>0, <1>1 DEF PlaceInv, StopInv, NothingOutlives, JobTypeOK
<1>8. AboveInv'
  BY <1>0 DEF AboveInv, JobTypeOK
<1> QED BY <1>5, <1>6, <1>7, <1>8 DEF JobInv

\* The steps that touch neither tasks nor the places of shells in
\* startBackground.
LEMMA ContextStep ==
  ASSUME JobInv, scene' = scene,
         StopStep \/ MainEnds \/ CtxEnds \/ \E t \in Tasks : GroupReaches(t)
  PROVE  JobInv'
<1>0. JobTypeOK /\ CountInv /\ PlaceInv /\ AboveInv /\ StopInv /\ NothingOutlives
  BY DEF JobInv
<1>1. UNCHANGED <<status, kind, parent, above, live, wg, on>>
  BY DEF StopStep, StopCancel, StopRelease, StopWait, MainEnds, CtxEnds, GroupReaches, taskVars, groupVars
<1>2. Running' = Running /\ JobsRunning' = JobsRunning
  BY <1>1, RunningUnchanged
<1>3. /\ \A t \in Tasks : pc'[t] = pc[t]
      /\ pc' \in [Shells -> {"run", "slot", "over", "cancel", "release", "wait", "joined"}]
      /\ (pc'[Main] = pc[Main]) \/ {pc[Main], pc'[Main]} \cap {"slot", "over"} = {}
  BY <1>0, MainIsNoTask, ShellsFacts
  DEF StopStep, StopCancel, StopRelease, StopWait, MainEnds, CtxEnds, GroupReaches, Goto, Ready,
      JobTypeOK
<1>4. At({"slot", "over"})' = At({"slot", "over"}) /\ At({"slot"})' = At({"slot"})
  BY <1>3 DEF At, Shells
<1>5. CountInv'
  BY <1>0, <1>1, <1>2, <1>4, CountsUnchanged
<1>6. JobTypeOK'
  <2>1. /\ stopped' \in BOOLEAN /\ released' \in BOOLEAN /\ shut' \subseteq Tasks
        /\ cancelled' \subseteq Tasks /\ armed' \subseteq Tasks
        /\ ctx' \in {"none", "deadline", "canceled"}
    BY <1>0 DEF StopStep, StopCancel, StopRelease, StopWait, MainEnds, CtxEnds, GroupReaches,
                taskVars, groupVars, JobTypeOK
  <2> QED BY <1>0, <1>1, <1>3, <2>1 DEF JobTypeOK
<1>7. PlaceInv' /\ AboveInv'
  BY <1>0, <1>1, <1>3 DEF PlaceInv, AboveInv
<1>8. StopInv'
  BY <1>0, ShellsFacts
  DEF StopInv, StopStep, StopCancel, StopRelease, StopWait, MainEnds, CtxEnds, GroupReaches,
      Goto, Ready, taskVars, groupVars, JobTypeOK
<1>9. NothingOutlives'
  <2>1. CASE StopWait
    BY <1>0, <1>2, <2>1, CountedFinite, FS_EmptySet DEF StopWait, NothingOutlives, CountInv
  <2>2. CASE ~StopWait
    BY <1>0, <1>2, <2>2, ShellsFacts
    DEF NothingOutlives, StopStep, StopCancel, StopRelease, MainEnds, CtxEnds, GroupReaches, Goto,
        JobTypeOK
  <2> QED BY <2>1, <2>2
<1> QED BY <1>5, <1>6, <1>7, <1>8, <1>9 DEF JobInv

LEMMA JobStep == JobInv /\ [JobNext]_jobVars => JobInv'
<1> SUFFICES ASSUME JobInv, [JobNext]_jobVars PROVE JobInv'
  OBVIOUS
<1> scene' = scene
  BY DEF JobNext, jobVars
<1>1. CASE \E s \in Shells : ShellStep(s)
  <2>1. PICK s \in Shells : ShellStep(s)
    BY <1>1
  <2> QED BY <2>1, ReserveStep, RefuseStep, AdmitStep, StartSubstStep, WaitStep DEF ShellStep
<1>2. CASE \E t \in Tasks : TaskStep(t)
  BY <1>2, FinishStep, LeaveStep, ContextStep DEF TaskStep
<1>3. CASE StopStep \/ MainEnds \/ CtxEnds
  BY <1>3, ContextStep
<1>4. CASE UNCHANGED jobVars
  <2>1. Running' = Running /\ JobsRunning' = JobsRunning /\ \A p : At(p)' = At(p)
    BY <1>4 DEF jobVars, taskVars, Running, InStatus, JobsRunning, At
  <2> QED BY <1>4, <2>1
      DEF jobVars, groupVars, taskVars, MaxJobs, JobInv, JobTypeOK, CountInv, PlaceInv, AboveInv, StopInv,
          NothingOutlives
<1> QED BY <1>1, <1>2, <1>3, <1>4 DEF JobNext

LEMMA ExecStepIsJobStep == [Next]_vars => [JobNext]_jobVars
BY DEF Next, vars, Others, FamilyStep, JobNext, Output, ScriptEnds, Classify, FinishOutput

LEMMA InitJob == Init => JobInv
<1> SUFFICES ASSUME Init PROVE JobInv
  OBVIOUS
<1> USE DEF Init, JobInit
<1>1. JobTypeOK
  BY ShellsFacts DEF JobTypeOK, Kinds, Shells
<1>2. Running = {} /\ JobsRunning = {} /\ At({"slot", "over"}) = {} /\ At({"slot"}) = {}
  BY DEF Running, InStatus, JobsRunning, At
<1>3. CountInv
  <2>1. MaxJobs \in Nat \ {0}
    BY <1>1, SceneFacts
  <2>2. live = 0 /\ wg = 0 /\ Cardinality({}) = 0
    BY FS_EmptySet
  <2> HIDE DEF Init, JobInit
  <2> QED BY <1>2, <2>1, <2>2 DEF CountInv
<1>4. PlaceInv /\ StopInv /\ AboveInv /\ NothingOutlives
  BY ShellsFacts DEF PlaceInv, StopInv, AboveInv, NothingOutlives
<1> QED BY <1>1, <1>3, <1>4 DEF JobInv

LEMMA JobInvHolds == Spec => []JobInv
<1>1. JobInv /\ [Next]_vars => JobInv'
  BY JobStep, ExecStepIsJobStep
<1> QED BY <1>1, InitJob, PTL DEF Spec

-----------------------------------------------------------------------------
\* However many shells start and end tasks at once, the counters of the job
\* group are exact and no more jobs than the cap run (startBackground).
THEOREM CountersAreExact == Spec => []CountersExact
<1>1. JobInv => CountersExact
  <2> SUFFICES ASSUME JobInv PROVE CountersExact
    OBVIOUS
  <2>1. Cardinality(JobsRunning) \in Nat /\ Cardinality(At({"slot"})) \in Nat
    BY CountedFinite, FS_CardinalityType
  <2>2. JobsRunning = {t \in Running : kind[t] = "job"}
        /\ At({"slot", "over"}) = {s \in Shells : pc[s] \in {"slot", "over"}}
    BY DEF JobsRunning, At
  <2>3. Cardinality(JobsRunning) <= MaxJobs
    BY <2>1, SceneFacts DEF JobInv, CountInv
  <2> QED BY <2>2, <2>3 DEF JobInv, CountInv, CountersExact
<1> QED BY <1>1, JobInvHolds, PTL

\* When StopJobs has returned no task of the execution runs, whatever was
\* started while it waited.
THEOREM NoTaskOutlives == Spec => []NothingOutlives
<1>1. JobInv => NothingOutlives
  BY DEF JobInv
<1> QED BY <1>1, JobInvHolds, PTL

\* The end of the script cancels the main shell's jobs and nothing else: its
\* process substitutions keep their context (startProcSubst).
THEOREM CancelsAreJustified == Spec => CancelJustified
<1> DEFINE Justified ==
      \A t \in Tasks :
        /\ status[t] = "live" /\ parent[t] = Main
        /\ ~CtxDone(t) /\ CtxDone(t)'
        => \/ ctx' # "none"
           \/ kind[t] = "job" /\ pc[Main] \notin {"run", "slot", "over"}
<1>1. JobInv /\ [Next]_vars => [Justified]_jobVars
  <2> SUFFICES ASSUME JobInv, JobNext PROVE Justified
    BY ExecStepIsJobStep
  <2> SUFFICES ASSUME NEW t \in Tasks, status[t] = "live", parent[t] = Main,
                      ~CtxDone(t), CtxDone(t)', ctx' = "none"
               PROVE  kind[t] = "job" /\ pc[Main] \notin {"run", "slot", "over"}
    OBVIOUS
  <2>1. above'[t] = above[t]
    <3>1. CASE above' = above
      BY <3>1
    <3>2. CASE \E u \in Free : \E c : above' = [above EXCEPT ![u] = c]
      BY <3>2, SceneFacts DEF Free, JobInv, JobTypeOK
    <3>3. above' = above \/ \E u \in Free : \E c : above' = [above EXCEPT ![u] = c]
      BY DEF JobNext, ShellStep, TaskStep, StopStep, Reserve, Refuse, Admit, StartSubst, WaitFor, EndStmt,
             Resume, Finish, Leave, GroupReaches, StopCancel, StopRelease, StopWait, MainEnds,
             CtxEnds, taskVars, Begin
    <3> QED BY <3>1, <3>2, <3>3
  <2>2. above[t] = IF kind[t] = "job" THEN {t} ELSE {}
    BY DEF JobInv, AboveInv
  <2>3. ctx = "none" /\ above[t] \cap cancelled = {} /\ above[t] \cap cancelled' # {}
    BY <2>1 DEF CtxDone
  <2>4. kind[t] = "job" /\ t \in cancelled' /\ t \notin cancelled
    BY <2>2, <2>3
  <2>5. cancelled' = cancelled \/ \E u \in Tasks : (Leave(u) \/ GroupReaches(u))
    BY DEF JobNext, ShellStep, TaskStep, StopStep, Reserve, Refuse, Admit, StartSubst, WaitFor, EndStmt,
           Resume, Finish, StopCancel, StopRelease, StopWait, MainEnds, CtxEnds, taskVars
  <2>6. PICK u \in Tasks : Leave(u) \/ GroupReaches(u)
    BY <2>4, <2>5
  <2>7. GroupReaches(u)
    BY <2>4, <2>6 DEF Leave
  <2> QED BY <2>4, <2>7 DEF GroupReaches, JobInv, StopInv
<1> QED BY <1>1, JobInvHolds, PTL DEF CancelJustified, Spec

-----------------------------------------------------------------------------
Bufs ==
  [buf : Seq(Nat), truncated : BOOLEAN, sent : Nat, disk : Seq(Nat), stray : BOOLEAN,
   spillPath : BOOLEAN, spillFile : BOOLEAN, spillDone : BOOLEAN, spillCut : BOOLEAN]

Results ==
  [code : {"none", "zero", "status", "124", "130"}, Stderr : Seq(Nat),
   StderrTruncated : BOOLEAN, SpillPath : BOOLEAN, SpillTruncated : BOOLEAN]

\* Memory holds the first bytes of the output, the file those that follow.
Placed(c) ==
  /\ \A i \in 1..Len(c.buf) : c.buf[i] = i
  /\ \A i \in 1..Len(c.disk) : c.disk[i] = Len(c.buf) + i

\* What is missing is flagged.
Accounted(c) ==
  /\ c.truncated => Limit > 0 /\ Len(c.buf) = Limit
  /\ ~c.truncated => Len(c.buf) = c.sent
  /\ Limit > 0 => Len(c.buf) <= Limit
  /\ Len(c.disk) <= SpillMax
  /\ c.disk # <<>> => c.spillPath
  /\ c.spillFile => c.spillPath
  /\ c.spillPath => c.truncated
  /\ c.stray => c.truncated /\ c.spillDone /\ ~c.spillPath
  /\ c.spillPath /\ ~c.spillCut => Len(c.buf) + Len(c.disk) = c.sent

BufInv(c) == c \in Bufs /\ Placed(c) /\ Accounted(c)

\* The spill file before Close: not tried yet, open and complete so far, cut,
\* or given up and removed.
OpenInv(c) ==
  /\ c.spillPath => SpillDir
  /\ SpillDir /\ ~c.spillFile /\ ~c.spillDone => ~c.truncated /\ ~c.spillPath /\ ~c.spillCut
  /\ c.spillFile /\ ~c.spillDone => c.spillPath /\ ~c.spillCut
  /\ c.spillPath /\ c.spillDone => c.spillCut

ResultInv ==
  /\ runErr \in {"nil", "status", "deadline", "canceled"}
  /\ phase \in {"run", "classified", "returned"}
  /\ result \in Results
  /\ phase # "run" =>
       pc[Main] = "joined" /\ result.Stderr = stderr.buf /\ result.StderrTruncated = stderr.truncated
  /\ phase = "returned" =>
       result.SpillPath = stderr.spillPath /\ result.SpillTruncated = Buffer!SpillTruncated(stderr)

ExecInv ==
  /\ BufInv(stderr) /\ ResultInv
  /\ phase # "returned" => OpenInv(stderr)

-----------------------------------------------------------------------------
\* The numbers from m + 1 on, continued by the first n that follow.
LEMMA Extend ==
  ASSUME NEW s \in Seq(Nat), NEW p \in Seq(Nat), NEW n \in 0..Len(p), NEW m \in Nat,
         \A i \in 1..Len(s) : s[i] = m + i,
         \A i \in 1..Len(p) : p[i] = m + Len(s) + i
  PROVE  /\ s \o SubSeq(p, 1, n) \in Seq(Nat) /\ Len(s \o SubSeq(p, 1, n)) = Len(s) + n
         /\ \A i \in 1..(Len(s) + n) : (s \o SubSeq(p, 1, n))[i] = m + i
<1> DEFINE q == SubSeq(p, 1, n)
<1>1. Len(p) \in Nat /\ Len(s) \in Nat
  OBVIOUS
<1>2. q \in Seq(Nat) /\ Len(q) = n /\ \A i \in 1..n : q[i] = p[i]
  BY <1>1, SubSeqProperties
<1> HIDE DEF q
<1>3. /\ s \o q \in Seq(Nat) /\ Len(s \o q) = Len(s) + n
      /\ \A i \in 1..(Len(s) + n) : (s \o q)[i] = IF i <= Len(s) THEN s[i] ELSE q[i - Len(s)]
  BY <1>2, ConcatProperties
<1>4. ASSUME NEW i \in 1..(Len(s) + n) PROVE (s \o q)[i] = m + i
  <2>1. CASE i <= Len(s)
    <3>1. i \in 1..Len(s)
      BY <1>1, <2>1
    <3> QED BY <1>3, <2>1, <3>1
  <2>2. CASE ~(i <= Len(s))
    <3>1. i - Len(s) \in 1..n /\ i - Len(s) \in 1..Len(p)
      BY <1>1, <2>2
    <3>2. p[i - Len(s)] = m + Len(s) + (i - Len(s))
      BY <3>1
    <3>3. (s \o q)[i] = p[i - Len(s)]
      BY <1>2, <1>3, <2>2, <3>1
    <3> QED BY <1>1, <3>2, <3>3
  <2> QED BY <2>1, <2>2
<1> QED BY <1>3, <1>4 DEF q

\* The first n bytes of p are added to the file; if they are not all, it is cut.
Kept(c, e, p, n) ==
  /\ e.disk = c.disk \o SubSeq(p, 1, n) /\ Len(c.disk) + n <= SpillMax
  /\ e.spillPath = c.spillPath /\ e.spillFile = c.spillFile /\ e.stray = c.stray
  /\ \/ n = Len(p) /\ e.spillDone = c.spillDone /\ e.spillCut = c.spillCut
     \/ e.spillDone /\ e.spillCut

GivenUp(e) == ~e.spillPath /\ ~e.spillFile /\ e.spillDone /\ e.disk = <<>>

SameMemory(c, e) == e.buf = c.buf /\ e.sent = c.sent /\ e.truncated = c.truncated

\* The bytes p are those after what is in memory and in the file.
Follows(c, p) ==
  /\ Len(c.buf) + Len(c.disk) + Len(p) = c.sent
  /\ \A i \in 1..Len(p) : p[i] = Len(c.buf) + Len(c.disk) + i

\* What writing p to the open file does to the buffer.
LEMMA ToFileFacts ==
  ASSUME NEW c \in Bufs, NEW p \in Seq(Nat), Len(c.disk) <= SpillMax, NEW e \in Buffer!ToFile(c, p)
  PROVE  /\ e \in Bufs /\ SameMemory(c, e)
         /\ GivenUp(e) \/ \E n \in 0..Len(p) : Kept(c, e, p, n)
<1> DEFINE n   == Buffer!Least(Len(p), Buffer!Room(c))
           cut == Len(p) > Buffer!Room(c)
           d   == [c EXCEPT !.spillDone = @ \/ cut, !.spillCut = @ \/ cut]
           Part(k) == [d EXCEPT !.disk = @ \o SubSeq(p, 1, k)]
<1>1. /\ Len(p) \in Nat /\ Len(c.disk) \in Nat /\ c.disk \in Seq(Nat)
      /\ c.buf \in Seq(Nat) /\ c.sent \in Nat
      /\ c.spillDone \in BOOLEAN /\ c.spillCut \in BOOLEAN /\ c.truncated \in BOOLEAN
      /\ c.spillPath \in BOOLEAN /\ c.spillFile \in BOOLEAN /\ c.stray \in BOOLEAN
  BY DEF Bufs
<1>2. /\ n \in 0..Len(p) /\ Len(c.disk) + n <= SpillMax /\ (~cut => n = Len(p)) /\ cut \in BOOLEAN
  <2> HIDE DEF d, Part
  <2>1. Buffer!Room(c) = SpillMax - Len(c.disk) /\ Buffer!Room(c) \in Nat
    BY <1>1, LimitsAssumption DEF Buffer!Room
  <2>2. n = IF Len(p) <= Buffer!Room(c) THEN Len(p) ELSE Buffer!Room(c)
    BY DEF Buffer!Least
  <2>3. cut <=> Len(p) > Buffer!Room(c)
    OBVIOUS
  <2> QED BY <1>1, <2>1, <2>2, <2>3, LimitsAssumption
<1>3. e = Part(n) \/ \E k \in 0..n, left \in BOOLEAN : e = Buffer!Abandon(Part(k), left)
  <2>1. \/ e \in {Part(n)}
        \/ e \in UNION {{Buffer!Abandon(Part(k), left) : left \in BOOLEAN} : k \in 0..n}
    BY DEF Buffer!ToFile
  <2> HIDE DEF n, cut, d, Part
  <2> QED BY <2>1
<1> HIDE DEF n, cut
<1>4. /\ d \in Bufs /\ d.buf = c.buf /\ d.sent = c.sent /\ d.truncated = c.truncated
      /\ d.disk = c.disk /\ d.spillPath = c.spillPath /\ d.spillFile = c.spillFile
      /\ d.stray = c.stray
      /\ d.spillDone = (c.spillDone \/ cut) /\ d.spillCut = (c.spillCut \/ cut)
  BY <1>1, <1>2 DEF Bufs
<1> HIDE DEF d
<1>5. ASSUME NEW k \in 0..n
      PROVE  /\ Part(k) \in Bufs /\ Part(k).disk = c.disk \o SubSeq(p, 1, k)
             /\ Part(k).buf = c.buf /\ Part(k).sent = c.sent /\ Part(k).truncated = c.truncated
             /\ Part(k).spillPath = c.spillPath /\ Part(k).spillFile = c.spillFile
             /\ Part(k).stray = c.stray
             /\ Part(k).spillDone = d.spillDone /\ Part(k).spillCut = d.spillCut
  <2>1. SubSeq(p, 1, k) \in Seq(Nat)
    BY <1>1, <1>2, SubSeqProperties
  <2>2. c.disk \o SubSeq(p, 1, k) \in Seq(Nat)
    BY <1>1, <2>1, ConcatProperties
  <2> QED BY <1>4, <2>2 DEF Bufs
<1> HIDE DEF Part
<1>6. CASE e = Part(n)
  <2>1. n \in 0..n
    BY <1>1, <1>2
  <2>2. /\ e \in Bufs /\ e.disk = c.disk \o SubSeq(p, 1, n) /\ e.buf = c.buf /\ e.sent = c.sent
        /\ e.truncated = c.truncated /\ e.spillPath = c.spillPath /\ e.spillFile = c.spillFile
        /\ e.stray = c.stray
        /\ e.spillDone = (c.spillDone \/ cut) /\ e.spillCut = (c.spillCut \/ cut)
    BY <1>4, <1>5, <1>6, <2>1
  <2>3. SameMemory(c, e)
    BY <2>2 DEF SameMemory
  <2>4. CASE cut
    BY <1>2, <2>2, <2>3, <2>4 DEF Kept
  <2>5. CASE ~cut
    BY <1>1, <1>2, <2>2, <2>3, <2>5 DEF Kept
  <2> QED BY <2>4, <2>5
<1>7. ASSUME NEW k \in 0..n, NEW left \in BOOLEAN, e = Buffer!Abandon(Part(k), left)
      PROVE  e \in Bufs /\ SameMemory(c, e) /\ GivenUp(e)
  <2>1. <<>> \in Seq(Nat)
    BY EmptySeq
  <2>2. /\ e \in Bufs /\ e.buf = c.buf /\ e.sent = c.sent /\ e.truncated = c.truncated
        /\ ~e.spillPath /\ ~e.spillFile /\ e.spillDone /\ e.disk = <<>>
    BY <1>5, <1>7, <2>1 DEF Buffer!Abandon, Bufs
  <2> QED BY <2>2 DEF SameMemory, GivenUp
<1> QED BY <1>3, <1>6, <1>7

\* Bytes that continue memory and file are placed right, or given up.
LEMMA ToFileStep ==
  ASSUME NEW c \in Bufs, Placed(c), NEW p \in Seq(Nat), Follows(c, p),
         SpillDir, c.truncated, c.spillPath, c.spillFile, ~c.spillDone, ~c.spillCut, ~c.stray,
         Limit > 0, Len(c.buf) = Limit, Len(c.disk) <= SpillMax, NEW e \in Buffer!ToFile(c, p)
  PROVE  BufInv(e) /\ OpenInv(e)
<1>1. e \in Bufs /\ SameMemory(c, e) /\ (GivenUp(e) \/ \E n \in 0..Len(p) : Kept(c, e, p, n))
  BY ToFileFacts
<1>2. /\ e.buf = c.buf /\ e.sent = c.sent /\ e.truncated = c.truncated
  BY <1>1 DEF SameMemory
<1>3. /\ Len(p) \in Nat /\ Len(c.disk) \in Nat /\ Len(c.buf) \in Nat /\ c.disk \in Seq(Nat)
      /\ c.sent \in Nat
  BY DEF Bufs
<1>4. ASSUME NEW n \in 0..Len(p), Kept(c, e, p, n) PROVE BufInv(e) /\ OpenInv(e)
  <2>1. e.disk = c.disk \o SubSeq(p, 1, n)
    BY <1>4 DEF Kept
  <2>2. \A i \in 1..Len(c.disk) : c.disk[i] = Len(c.buf) + i
    BY DEF Placed
  <2>3. \A i \in 1..Len(p) : p[i] = Len(c.buf) + Len(c.disk) + i
    BY DEF Follows
  <2>4. Len(e.disk) = Len(c.disk) + n /\ \A i \in 1..(Len(c.disk) + n) : e.disk[i] = Len(c.buf) + i
    <3> DEFINE s == c.disk
               m == Len(c.buf)
    <3>1. /\ s \in Seq(Nat) /\ m \in Nat /\ e.disk = s \o SubSeq(p, 1, n)
          /\ \A i \in 1..Len(s) : s[i] = m + i
          /\ \A i \in 1..Len(p) : p[i] = m + Len(s) + i
      BY <1>3, <2>1, <2>2, <2>3
    <3> HIDE DEF s, m
    <3>2. Len(e.disk) = Len(s) + n /\ \A i \in 1..(Len(s) + n) : e.disk[i] = m + i
      BY <3>1, Extend, SMTT(30)
    <3> QED BY <3>2 DEF s, m
  <2>5. Placed(e)
    <3>1. \A i \in 1..Len(e.disk) : e.disk[i] = Len(e.buf) + i
      BY <1>2, <2>4
    <3>2. \A i \in 1..Len(e.buf) : e.buf[i] = i
      BY <1>2 DEF Placed
    <3> QED BY <3>1, <3>2 DEF Placed
  <2>6. /\ e.spillPath /\ e.spillFile /\ ~e.stray /\ Len(c.disk) + n <= SpillMax
        /\ (n = Len(p) /\ ~e.spillDone /\ ~e.spillCut) \/ (e.spillDone /\ e.spillCut)
    BY <1>4 DEF Kept
  <2>7. Accounted(e)
    <3>1. Len(c.buf) + Len(c.disk) + Len(p) = c.sent
      BY DEF Follows
    <3>2. e.truncated /\ Len(e.buf) = Len(c.buf) /\ e.sent = c.sent
      BY <1>2
    <3>3. Len(e.disk) <= SpillMax
      BY <2>4, <2>6
    <3>4. ASSUME ~e.spillCut PROVE Len(e.buf) + Len(e.disk) = e.sent
      <4>1. n = Len(p)
        BY <2>6, <3>4
      <4>2. Len(e.buf) = Len(c.buf) /\ Len(e.disk) = Len(c.disk) + Len(p)
        BY <2>4, <3>2, <4>1
      <4>3. Len(c.buf) + (Len(c.disk) + Len(p)) = c.sent
        BY <1>3, <3>1
      <4> QED BY <3>2, <4>2, <4>3
    <3> QED BY <2>6, <3>2, <3>3, <3>4, LimitsAssumption DEF Accounted
  <2>8. OpenInv(e)
    BY <2>6 DEF OpenInv
  <2> QED BY <1>1, <2>5, <2>7, <2>8 DEF BufInv
<1>5. CASE GivenUp(e)
  <2>1. ~e.spillPath /\ ~e.spillFile /\ e.spillDone /\ e.disk = <<>> /\ Len(e.disk) = 0
    BY <1>5 DEF GivenUp
  <2>2. Placed(e)
    BY <1>2, <2>1 DEF Placed
  <2>3. Accounted(e)
    BY <1>2, <2>1, LimitsAssumption DEF Accounted
  <2>4. OpenInv(e)
    BY <2>1 DEF OpenInv
  <2> QED BY <1>1, <2>2, <2>3, <2>4 DEF BufInv
<1> QED BY <1>1, <1>4, <1>5

\* What the spill file was before a write: as in OpenInv, but for the bytes
\* that the write adds.
Pending(c) ==
  /\ c.disk # <<>> => c.spillPath
  /\ c.spillFile => c.spillPath
  /\ c.stray => c.spillDone /\ ~c.spillPath
  /\ c.spillPath => SpillDir
  /\ SpillDir /\ ~c.spillFile /\ ~c.spillDone => ~c.spillPath /\ ~c.spillCut
  /\ c.spillFile /\ ~c.spillDone => c.spillPath /\ ~c.spillCut
  /\ c.spillPath /\ c.spillDone => c.spillCut

\* What does not fit in memory is added to the file, or the buffer says that
\* it is not.
LEMMA SpillStep ==
  ASSUME NEW c \in Bufs, Placed(c), Pending(c), NEW p \in Seq(Nat), NEW e \in Buffer!Spill(c, p),
         Limit > 0, Len(c.buf) = Limit, Len(c.disk) <= SpillMax, c.truncated,
         SpillDir /\ ~c.spillDone => Follows(c, p)
  PROVE  BufInv(e) /\ OpenInv(e)
<1>0. /\ Len(c.buf) \in Nat /\ Len(c.disk) \in Nat /\ c.spillPath \in BOOLEAN /\ c.spillFile \in BOOLEAN
      /\ c.spillDone \in BOOLEAN /\ c.spillCut \in BOOLEAN /\ c.truncated \in BOOLEAN
  BY DEF Bufs
<1>1. CASE ~SpillDir \/ c.spillDone
  <2>1. e = c
    BY <1>1 DEF Buffer!Spill
  <2>2. Accounted(c)
    BY <1>0, <1>1 DEF Accounted, Pending
  <2>3. OpenInv(c)
    BY <1>0, <1>1 DEF OpenInv, Pending
  <2> QED BY <2>1, <2>2, <2>3 DEF BufInv
<1>2. CASE SpillDir /\ ~c.spillDone /\ c.spillFile
  <2>1. e \in Buffer!ToFile(c, p)
    BY <1>2 DEF Buffer!Spill
  <2>2. c.spillPath /\ ~c.spillCut /\ ~c.stray
    BY <1>2 DEF Pending
  <2> QED BY <1>2, <2>1, <2>2, ToFileStep
<1>3. CASE SpillDir /\ ~c.spillDone /\ ~c.spillFile
  <2> DEFINE f == [c EXCEPT !.spillFile = TRUE, !.spillPath = TRUE]
  <2>0. ~c.spillPath /\ ~c.spillCut /\ c.disk = <<>> /\ ~c.stray
    BY <1>3 DEF Pending
  <2>1. e = [c EXCEPT !.spillDone = TRUE] \/ e \in Buffer!ToFile(f, p)
    BY <1>3 DEF Buffer!Spill
  <2>2. CASE e = [c EXCEPT !.spillDone = TRUE]
    <3>1. /\ e \in Bufs /\ e.buf = c.buf /\ e.sent = c.sent /\ e.truncated /\ e.disk = <<>>
          /\ ~e.spillPath /\ ~e.spillCut /\ ~e.spillFile /\ e.spillDone /\ ~e.stray
      BY <1>0, <1>3, <2>0, <2>2 DEF Bufs
    <3>2. Placed(e)
      BY <2>0, <3>1 DEF Placed
    <3>3. Len(e.disk) = 0 /\ Len(e.buf) = Limit
      BY <3>1
    <3>4. Accounted(e)
      BY <3>1, <3>3, LimitsAssumption DEF Accounted
    <3>5. OpenInv(e)
      BY <3>1 DEF OpenInv
    <3> QED BY <3>1, <3>2, <3>4, <3>5 DEF BufInv
  <2>3. CASE e \in Buffer!ToFile(f, p)
    <3>1. /\ f \in Bufs /\ f.buf = c.buf /\ f.sent = c.sent /\ f.truncated /\ f.disk = c.disk
          /\ f.spillPath /\ ~f.spillCut /\ f.spillFile /\ ~f.spillDone /\ ~f.stray
      BY <1>0, <1>3, <2>0 DEF Bufs
    <3> HIDE DEF f
    <3>2. Placed(f) /\ Len(f.buf) = Limit /\ Len(f.disk) <= SpillMax
      BY <3>1 DEF Placed
    <3>3. Follows(c, p)
      BY <1>3
    <3>4. Follows(f, p)
      BY <3>1, <3>3 DEF Follows
    <3> QED BY <1>3, <2>3, <3>1, <3>2, <3>4, ToFileStep
  <2> QED BY <2>1, <2>2, <2>3
<1> QED BY <1>0, <1>1, <1>2, <1>3, LimitsAssumption

\* Write keeps what fits and passes on the rest.
LEMMA WriteStep ==
  ASSUME NEW c, BufInv(c), OpenInv(c), NEW n \in Nat \ {0}, NEW e \in Buffer!Written(c, n)
  PROVE  BufInv(e) /\ OpenInv(e)
<1> DEFINE keep == IF Limit = 0 THEN n ELSE Buffer!Least(n, Limit - Len(c.buf))
           next == [i \in 1..n |-> c.sent + i]
           d    == [c EXCEPT !.sent = @ + n, !.buf = @ \o SubSeq(next, 1, keep)]
           f    == [d EXCEPT !.truncated = TRUE]
           rest == SubSeq(next, keep + 1, n)
<1>1. /\ c \in Bufs /\ Placed(c) /\ Accounted(c)
      /\ c.buf \in Seq(Nat) /\ Len(c.buf) \in Nat /\ c.disk \in Seq(Nat) /\ Len(c.disk) \in Nat
      /\ c.sent \in Nat /\ c.spillPath \in BOOLEAN /\ c.spillFile \in BOOLEAN
      /\ c.spillDone \in BOOLEAN /\ c.spillCut \in BOOLEAN /\ c.truncated \in BOOLEAN
  BY DEF BufInv, Bufs
<1>0. Len(c.buf) \in Nat /\ Len(c.disk) \in Nat /\ c.sent \in Nat /\ n \in Nat /\ n > 0
  BY <1>1
<1>2. IF keep = n THEN e = d ELSE e \in Buffer!Spill(f, rest)
  BY DEF Buffer!Written
<1>3. /\ next \in Seq(Nat) /\ Len(next) = n /\ \A i \in 1..n : next[i] = c.sent + i
  BY <1>1
<1>4. /\ keep \in 0..n /\ (Limit > 0 => Len(c.buf) + keep <= Limit)
      /\ keep # n => Limit > 0 /\ Len(c.buf) + keep = Limit
      /\ c.truncated => keep = 0
  <2> HIDE DEF next, d, f, rest
  <2>1. /\ Limit > 0 => Len(c.buf) <= Limit
        /\ c.truncated => Limit > 0 /\ Len(c.buf) = Limit
    BY <1>1 DEF Accounted
  <2>2. CASE Limit = 0
    BY <1>1, <2>1, <2>2
  <2>3. CASE Limit # 0
    <3>1. keep = IF n <= Limit - Len(c.buf) THEN n ELSE Limit - Len(c.buf)
      BY <2>3 DEF Buffer!Least
    <3>2. Limit \in Nat /\ Limit > 0 /\ Len(c.buf) <= Limit
      BY <2>1, <2>3, LimitsAssumption
    <3> HIDE DEF keep
    <3> DEFINE room == Limit - Len(c.buf)
    <3>3. room \in Nat /\ Len(c.buf) + room = Limit
      BY <1>0, <3>2
    <3>4. keep = IF n <= room THEN n ELSE room
      BY <3>1
    <3> HIDE DEF room
    <3>5. keep \in 0..n /\ keep <= room /\ (keep # n => keep = room) /\ (room = 0 => keep = 0)
      BY <1>0, <3>3, <3>4
    <3>6. keep \in 0..n /\ Len(c.buf) + keep <= Limit /\ (keep # n => Len(c.buf) + keep = Limit)
      BY <1>0, <3>2, <3>3, <3>5
    <3>7. Len(c.buf) = Limit => keep = 0
      BY <1>0, <3>2, <3>3, <3>5
    <3> QED BY <2>1, <3>2, <3>6, <3>7
  <2> QED BY <2>2, <2>3
<1> HIDE DEF keep, next
<1>5. /\ c.buf \o SubSeq(next, 1, keep) \in Seq(Nat)
      /\ Len(c.buf \o SubSeq(next, 1, keep)) = Len(c.buf) + keep
      /\ \A i \in 1..(Len(c.buf) + keep) : (c.buf \o SubSeq(next, 1, keep))[i] = i
  <2> DEFINE s == c.buf
  <2>1. s \in Seq(Nat) /\ Len(s) \in Nat /\ \A i \in 1..Len(s) : s[i] = i
    BY <1>1 DEF Placed
  <2>2. ~c.truncated => Len(s) = c.sent
    BY <1>1 DEF Accounted
  <2>3. CASE c.truncated
    <3>1. keep = 0
      BY <1>4, <2>3
    <3>2. SubSeq(next, 1, 0) = <<>>
      BY <1>3, SubSeqEmpty
    <3>3. s \o <<>> = s
      BY <2>1, ConcatEmptySeq
    <3> HIDE DEF s
    <3>4. s \o SubSeq(next, 1, keep) = s /\ Len(s) + keep = Len(s)
      BY <2>1, <3>1, <3>2, <3>3
    <3>5. s \o SubSeq(next, 1, keep) \in Seq(Nat) /\ Len(s \o SubSeq(next, 1, keep)) = Len(s) + keep
          /\ \A i \in 1..(Len(s) + keep) : (s \o SubSeq(next, 1, keep))[i] = i
      BY <2>1, <3>4
    <3> QED BY <3>5 DEF s
  <2>4. CASE ~c.truncated
    <3>1. Len(next) = n /\ \A i \in 1..n : next[i] = Len(s) + i
      BY <1>3, <2>2, <2>4
    <3>2. keep \in 0..Len(next)
      BY <1>3, <1>4
    <3> HIDE DEF s
    <3>3. /\ \A i \in 1..Len(s) : s[i] = 0 + i
          /\ \A i \in 1..Len(next) : next[i] = 0 + Len(s) + i
      BY <2>1, <3>1
    <3>4. s \o SubSeq(next, 1, keep) \in Seq(Nat) /\ Len(s \o SubSeq(next, 1, keep)) = Len(s) + keep
          /\ \A i \in 1..(Len(s) + keep) : (s \o SubSeq(next, 1, keep))[i] = 0 + i
      BY <1>3, <2>1, <3>2, <3>3, Extend
    <3>5. \A i \in 1..(Len(s) + keep) : (s \o SubSeq(next, 1, keep))[i] = i
      BY <1>4, <2>1, <3>4
    <3> QED BY <3>4, <3>5 DEF s
  <2> QED BY <1>1, <2>3, <2>4
<1>6. /\ d \in Bufs /\ d.buf = c.buf \o SubSeq(next, 1, keep) /\ d.sent = c.sent + n
      /\ d.disk = c.disk /\ d.truncated = c.truncated /\ d.spillPath = c.spillPath
      /\ d.spillFile = c.spillFile /\ d.spillDone = c.spillDone /\ d.spillCut = c.spillCut
      /\ d.stray = c.stray
  <2>1. c.sent + n \in Nat
    BY <1>1
  <2> QED BY <1>1, <1>5, <2>1 DEF Bufs
<1> HIDE DEF d
<1>7. Len(d.buf) = Len(c.buf) + keep /\ \A i \in 1..Len(d.buf) : d.buf[i] = i
  BY <1>5, <1>6
<1>8. ~c.truncated => /\ Len(c.buf) = c.sent /\ c.disk = <<>> /\ Len(c.disk) = 0 /\ ~c.spillPath
                      /\ ~c.spillFile /\ ~c.stray
  BY <1>1 DEF Accounted
<1>9. /\ Len(c.disk) <= SpillMax
      /\ c.disk # <<>> => c.spillPath
      /\ c.spillFile => c.spillPath
      /\ c.stray => c.truncated /\ c.spillDone /\ ~c.spillPath
      /\ c.truncated => Len(c.buf) = Limit
      /\ c.spillPath /\ ~c.spillCut => Len(c.buf) + Len(c.disk) = c.sent
  BY <1>1 DEF Accounted
<1>10. Placed(d)
  <2>1. \A i \in 1..Len(d.disk) : d.disk[i] = Len(d.buf) + i
    <3>1. CASE ~c.truncated
      BY <1>6, <1>8, <3>1
    <3>2. CASE c.truncated
      <4>1. Len(d.buf) = Len(c.buf)
        BY <1>1, <1>4, <1>7, <3>2
      <4> QED BY <1>1, <1>6, <4>1 DEF Placed
    <3> QED BY <1>1, <3>1, <3>2
  <2> QED BY <1>7, <2>1 DEF Placed
<1>11. CASE keep = n
  <2>1. e = d /\ ~c.truncated
    BY <1>1, <1>2, <1>4, <1>11
  <2>2. Len(d.buf) = d.sent /\ (Limit > 0 => Len(d.buf) <= Limit)
    BY <1>1, <1>4, <1>6, <1>7, <1>8, <1>11, <2>1
  <2>3. ~d.truncated /\ ~d.spillPath /\ ~d.spillFile /\ ~d.stray /\ d.disk = <<>> /\ Len(d.disk) <= SpillMax
    BY <1>6, <1>8, <1>9, <2>1
  <2>4. Accounted(d)
    BY <2>2, <2>3 DEF Accounted
  <2>5. OpenInv(d)
    BY <1>6, <2>1, <2>3 DEF OpenInv
  <2> QED BY <1>6, <1>10, <2>1, <2>4, <2>5 DEF BufInv
<1>12. CASE keep # n
  <2>1. /\ f \in Bufs /\ f.buf = d.buf /\ f.sent = d.sent /\ f.disk = c.disk /\ f.truncated
        /\ f.spillPath = c.spillPath /\ f.spillFile = c.spillFile
        /\ f.spillDone = c.spillDone /\ f.spillCut = c.spillCut /\ f.stray = c.stray
    BY <1>6 DEF Bufs
  <2> HIDE DEF f
  <2>2. Placed(f)
    <3>1. f.buf = d.buf /\ f.disk = d.disk
      BY <1>6, <2>1
    <3> QED BY <1>10, <3>1 DEF Placed
  <2>3. Limit > 0 /\ Len(f.buf) = Limit /\ Len(f.disk) <= SpillMax
    BY <1>4, <1>7, <1>9, <1>12, <2>1
  <2>4. Pending(f)
    BY <1>1, <1>8, <1>9, <2>1 DEF Pending, OpenInv
  <2>5. rest \in Seq(Nat) /\ Len(rest) = n - keep /\ \A i \in 1..(n - keep) : rest[i] = c.sent + keep + i
    <3>1. keep + 1 \in Int /\ n \in Int /\ keep + 1 <= n /\ n - (keep + 1) + 1 = n - keep
      BY <1>0, <1>4, <1>12
    <3>2. \A i \in (keep + 1)..n : next[i] \in Nat
      BY <1>0, <1>3, <1>4
    <3>3. /\ rest \in Seq(Nat) /\ Len(rest) = n - keep
          /\ \A i \in 1..(n - keep) : rest[i] = next[(keep + 1) + i - 1]
      BY <3>1, <3>2, SubSeqProperties
    <3> HIDE DEF rest
    <3>4. ASSUME NEW i \in 1..(n - keep) PROVE rest[i] = c.sent + keep + i
      <4>1. (keep + 1) + i - 1 = keep + i /\ keep + i \in 1..n
        BY <1>0, <1>4
      <4>2. rest[i] = c.sent + (keep + i)
        BY <1>3, <3>3, <4>1
      <4> QED BY <1>0, <1>4, <4>2
    <3> QED BY <3>3, <3>4
  <2> HIDE DEF rest
  <2>6. ASSUME SpillDir, ~c.spillDone PROVE Follows(f, rest)
    <3>1. Len(c.buf) + Len(c.disk) = c.sent
      <4>1. CASE c.truncated
        <5>1. c.spillPath /\ ~c.spillCut
          BY <1>1, <2>6, <4>1 DEF OpenInv
        <5> QED BY <1>9, <5>1
      <4>2. CASE ~c.truncated
        <5>1. Len(c.buf) = c.sent /\ Len(c.disk) = 0
          BY <1>8, <4>2
        <5> QED BY <1>0, <5>1
      <4> QED BY <1>1, <4>1, <4>2
    <3>2. Len(f.buf) = Len(c.buf) + keep /\ Len(f.disk) = Len(c.disk) /\ f.sent = c.sent + n
      BY <1>6, <1>7, <2>1
    <3>3. keep \in Nat /\ Len(rest) = n - keep
      BY <1>0, <1>4, <2>5
    <3>4. Len(f.buf) + Len(f.disk) = c.sent + keep
      <4>1. \A x, y, z \in Nat : (x + z) + y = (x + y) + z
        OBVIOUS
      <4>2. (Len(c.buf) + keep) + Len(c.disk) = (Len(c.buf) + Len(c.disk)) + keep
        BY <1>0, <3>3, <4>1, ZenonT(40)
      <4> QED BY <3>1, <3>2, <4>2
    <3>5. (c.sent + keep) + (n - keep) = c.sent + n
      BY <1>0, <3>3
    <3>6. Len(f.buf) + Len(f.disk) + Len(rest) = f.sent
      BY <3>2, <3>3, <3>4, <3>5
    <3>7. \A i \in 1..Len(rest) : rest[i] = Len(f.buf) + Len(f.disk) + i
      BY <2>5, <3>3, <3>4
    <3> QED BY <3>6, <3>7 DEF Follows
  <2>7. e \in Buffer!Spill(f, rest)
    BY <1>2, <1>12
  <2> QED BY <2>1, <2>2, <2>3, <2>4, <2>5, <2>6, <2>7, SpillStep
<1> QED BY <1>11, <1>12

\* Close ends the file, or removes it.
LEMMA CloseStep ==
  ASSUME NEW c, BufInv(c), NEW e \in Buffer!Closed(c)
  PROVE  BufInv(e) /\ e.buf = c.buf /\ e.truncated = c.truncated
<1>1. /\ c \in Bufs /\ Placed(c) /\ Accounted(c) /\ c.spillFile \in BOOLEAN
  BY DEF BufInv, Bufs
<1> DEFINE d == [c EXCEPT !.spillFile = FALSE, !.spillDone = TRUE]
<1>2. e = d \/ (c.spillFile /\ \E left \in BOOLEAN : e = Buffer!Abandon(d, left))
  BY <1>1 DEF Buffer!Closed
<1>3. /\ d \in Bufs /\ d.buf = c.buf /\ d.disk = c.disk /\ d.sent = c.sent
      /\ d.truncated = c.truncated /\ d.spillPath = c.spillPath /\ d.spillCut = c.spillCut
      /\ d.stray = c.stray /\ d.spillDone /\ ~d.spillFile
  BY <1>1 DEF Bufs
<1> HIDE DEF d
<1>4. CASE e = d
  <2>1. Placed(e)
    BY <1>1, <1>3, <1>4 DEF Placed
  <2>2. Accounted(e)
    BY <1>1, <1>3, <1>4 DEF Accounted
  <2> QED BY <1>3, <1>4, <2>1, <2>2 DEF BufInv
<1>5. ASSUME c.spillFile, NEW left \in BOOLEAN, e = Buffer!Abandon(d, left) PROVE BufInv(e)
  <2>1. /\ e \in Bufs /\ e.buf = c.buf /\ e.disk = <<>> /\ e.sent = c.sent
        /\ e.truncated = c.truncated /\ ~e.spillPath /\ ~e.spillFile /\ e.spillDone
    BY <1>3, <1>5, EmptySeq DEF Buffer!Abandon, Bufs
  <2>2. Len(e.disk) = 0 /\ c.truncated
    BY <1>1, <1>5, <2>1 DEF Accounted
  <2>3. Placed(e)
    BY <1>1, <2>1, <2>2 DEF Placed
  <2>4. Accounted(e)
    BY <1>1, <2>1, <2>2, LimitsAssumption DEF Accounted
  <2> QED BY <2>1, <2>3, <2>4 DEF BufInv
<1>6. e.buf = c.buf /\ e.truncated = c.truncated
  BY <1>2, <1>3 DEF Buffer!Abandon, Bufs
<1> QED BY <1>2, <1>4, <1>5, <1>6

-----------------------------------------------------------------------------
LEMMA InitExec == Init => ExecInv
<1> SUFFICES ASSUME Init PROVE ExecInv
  OBVIOUS
<1>1. stderr = Buffer!Empty /\ runErr = "nil" /\ phase = "run" /\ result = NoResult
  BY DEF Init, Buffer!Init
<1>2. /\ stderr \in Bufs /\ stderr.buf = <<>> /\ stderr.disk = <<>> /\ stderr.sent = 0
      /\ ~stderr.truncated /\ ~stderr.spillPath /\ ~stderr.spillFile /\ ~stderr.spillDone
      /\ ~stderr.spillCut /\ ~stderr.stray
  BY <1>1, EmptySeq DEF Buffer!Empty, Bufs
<1>3. Len(stderr.buf) = 0 /\ Len(stderr.disk) = 0
  BY <1>2
<1>4. BufInv(stderr)
  <2>1. Placed(stderr)
    BY <1>3 DEF Placed
  <2>2. Accounted(stderr)
    BY <1>2, <1>3, LimitsAssumption DEF Accounted
  <2> QED BY <1>2, <2>1, <2>2 DEF BufInv
<1>5. OpenInv(stderr)
  BY <1>2 DEF OpenInv
<1>6. result \in Results
  BY <1>1, EmptySeq DEF NoResult, Results
<1>7. ResultInv
  BY <1>1, <1>6 DEF ResultInv
<1> QED BY <1>4, <1>5, <1>7 DEF ExecInv

\* Once StopJobs has returned no shell of the family is between statements.
LEMMA JoinedIsQuiet ==
  ASSUME JobInv, pc[Main] = "joined", NEW s \in Shells
  PROVE  ~Ready(s)
<1>1. Running = {}
  BY DEF JobInv, NothingOutlives
<1>2. s = Main => ~Ready(s)
  BY DEF Ready
<1>3. s # Main => ~Ready(s)
  BY <1>1 DEF Ready, Running, InStatus
<1> QED BY <1>2, <1>3

LEMMA JoinedStays ==
  ASSUME JobInv, pc[Main] = "joined", [JobNext]_jobVars
  PROVE  pc'[Main] = "joined"
<1>1. \A s \in Shells : ~Ready(s)
  BY JoinedIsQuiet
<1>2. \A s \in Shells : pc[s] \notin {"slot", "over"}
  BY ShellsFacts DEF JobInv, PlaceInv, NothingOutlives, Running, InStatus, Shells
<1>3. ASSUME NEW s \in Shells, ShellStep(s) PROVE pc' = pc
  BY <1>1, <1>2, <1>3 DEF ShellStep, Reserve, Refuse, Admit, Resume, StartSubst, WaitFor, EndStmt
<1>4. ASSUME NEW t \in Tasks, TaskStep(t) PROVE pc' = pc
  BY <1>4 DEF TaskStep, Finish, Leave, GroupReaches
<1>5. ASSUME StopStep \/ MainEnds \/ CtxEnds PROVE pc' = pc
  BY <1>1, <1>5, ShellsFacts DEF StopStep, StopCancel, StopRelease, StopWait, MainEnds, CtxEnds
<1>6. CASE UNCHANGED jobVars
  BY <1>6 DEF jobVars
<1> QED BY <1>3, <1>4, <1>5, <1>6 DEF JobNext

-----------------------------------------------------------------------------
\* A byte is written while the script runs, so before the result is taken.
LEMMA OutputStep ==
  ASSUME JobInv, ExecInv, NEW s \in Shells, NEW n \in 1..2, Output(s, n)
  PROVE  ExecInv'
<1>1. /\ Ready(s) /\ stderr' \in Buffer!Written(stderr, n)
      /\ UNCHANGED <<jobVars, runErr, phase, result>>
  BY DEF Output, Buffer!Write
<1>2. phase = "run"
  BY <1>1, JoinedIsQuiet DEF ExecInv, ResultInv
<1>3. BufInv(stderr) /\ OpenInv(stderr) /\ n \in Nat \ {0}
  BY <1>2 DEF ExecInv
<1>4. BufInv(stderr') /\ OpenInv(stderr')
  BY <1>1, <1>3, WriteStep
<1>5. ResultInv'
  BY <1>1, <1>2 DEF ExecInv, ResultInv
<1>6. BufInv(stderr)' /\ OpenInv(stderr)'
  BY <1>4 DEF BufInv, OpenInv, Placed, Accounted, Bufs
<1> QED BY <1>5, <1>6 DEF ExecInv

\* The result takes what is in memory, with the control message.
LEMMA ClassifyStep ==
  ASSUME JobInv, ExecInv, Classify
  PROVE  ExecInv'
<1>1. /\ pc[Main] = "joined" /\ phase = "run" /\ phase' = "classified"
      /\ stderr' \in Buffer!Written(stderr, 1) \/ stderr' = stderr
      /\ UNCHANGED <<jobVars, runErr>>
  BY DEF Classify, Buffer!Write
<1>2. BufInv(stderr) /\ OpenInv(stderr) /\ result \in Results /\ runErr \in {"nil", "status", "deadline", "canceled"}
  BY <1>1 DEF ExecInv, ResultInv
<1>3. BufInv(stderr') /\ OpenInv(stderr')
  <2>1. CASE stderr' \in Buffer!Written(stderr, 1)
    BY <1>2, <2>1, WriteStep
  <2>2. CASE stderr' = stderr
    BY <1>2, <2>2
  <2> QED BY <1>1, <2>1, <2>2
<1>4. stderr'.buf \in Seq(Nat) /\ stderr'.truncated \in BOOLEAN
  BY <1>3 DEF BufInv, Bufs
<1> DEFINE code == IF Ended("deadline") THEN "124"
                   ELSE IF Ended("canceled") THEN "130"
                   ELSE IF runErr = "nil" THEN "zero" ELSE "status"
<1>5. code \in {"zero", "status", "124", "130"}
  BY Zenon
<1>6. result' = [result EXCEPT !.code = code, !.Stderr = stderr'.buf,
                               !.StderrTruncated = stderr'.truncated]
  BY DEF Classify
<1> HIDE DEF code
<1>7. /\ result' \in Results /\ result'.Stderr = stderr'.buf
      /\ result'.StderrTruncated = stderr'.truncated
  BY <1>2, <1>4, <1>5, <1>6 DEF Results
<1>8. pc'[Main] = "joined" /\ runErr' \in {"nil", "status", "deadline", "canceled"}
  BY <1>1, <1>2 DEF jobVars
<1>9. ResultInv'
  BY <1>1, <1>7, <1>8 DEF ResultInv
<1>10. BufInv(stderr)' /\ OpenInv(stderr)'
  BY <1>3 DEF BufInv, OpenInv, Placed, Accounted, Bufs
<1> QED BY <1>9, <1>10 DEF ExecInv

LEMMA FinishOutputStep ==
  ASSUME ExecInv, FinishOutput
  PROVE  ExecInv'
<1>1. /\ phase = "classified" /\ phase' = "returned" /\ stderr' \in Buffer!Closed(stderr)
      /\ result' = [result EXCEPT !.SpillPath = stderr'.spillPath,
                                  !.SpillTruncated = Buffer!SpillTruncated(stderr')]
      /\ UNCHANGED <<jobVars, runErr>>
  BY DEF FinishOutput, Buffer!Close
<1>2. /\ BufInv(stderr) /\ result \in Results /\ runErr \in {"nil", "status", "deadline", "canceled"}
      /\ pc[Main] = "joined" /\ result.Stderr = stderr.buf
      /\ result.StderrTruncated = stderr.truncated
  BY <1>1 DEF ExecInv, ResultInv
<1>3. BufInv(stderr') /\ stderr'.buf = stderr.buf /\ stderr'.truncated = stderr.truncated
  BY <1>1, <1>2, CloseStep
<1>4. stderr'.spillPath \in BOOLEAN /\ Buffer!SpillTruncated(stderr') \in BOOLEAN
  BY <1>3 DEF BufInv, Bufs, Buffer!SpillTruncated
<1>5. /\ result' \in Results /\ result'.Stderr = result.Stderr
      /\ result'.StderrTruncated = result.StderrTruncated
      /\ result'.SpillPath = stderr'.spillPath
      /\ result'.SpillTruncated = Buffer!SpillTruncated(stderr')
  BY <1>1, <1>2, <1>4 DEF Results
<1>6. pc'[Main] = "joined" /\ runErr' \in {"nil", "status", "deadline", "canceled"}
  BY <1>1, <1>2 DEF jobVars
<1>7. ResultInv'
  BY <1>1, <1>2, <1>3, <1>5, <1>6 DEF ResultInv, Buffer!SpillTruncated
<1>8. BufInv(stderr)'
  BY <1>3 DEF BufInv, Placed, Accounted, Bufs
<1> QED BY <1>1, <1>7, <1>8 DEF ExecInv

LEMMA ExecStep == JobInv /\ ExecInv /\ [Next]_vars => ExecInv'
<1> SUFFICES ASSUME JobInv, ExecInv, [Next]_vars PROVE ExecInv'
  OBVIOUS
<1>1. ASSUME UNCHANGED <<stderr, phase, result>>, runErr' \in {"nil", "status", "deadline", "canceled"} PROVE ExecInv'
  <2>1. phase # "run" => pc'[Main] = "joined"
    BY ExecStepIsJobStep, JoinedStays DEF ExecInv, ResultInv
  <2>2. ResultInv'
    BY <1>1, <2>1 DEF ExecInv, ResultInv
  <2>3. BufInv(stderr)' /\ (phase # "returned" => OpenInv(stderr))'
    BY <1>1 DEF ExecInv, BufInv, OpenInv, Placed, Accounted, Bufs
  <2> QED BY <2>2, <2>3 DEF ExecInv
<1>2. runErr \in {"nil", "status", "deadline", "canceled"}
  BY DEF ExecInv, ResultInv
<1>3. CASE FamilyStep /\ UNCHANGED Others
  BY <1>1, <1>2, <1>3 DEF Others, execVars
<1>4. CASE UNCHANGED vars
  BY <1>1, <1>2, <1>4 DEF vars, execVars
<1>5. CASE ScriptEnds
  <2>1. runErr' \in {"nil", "status", "deadline", "canceled"} /\ UNCHANGED <<stderr, phase, result>>
    BY <1>5 DEF ScriptEnds
  <2> QED BY <1>1, <2>1
<1> QED BY <1>3, <1>4, <1>5, OutputStep, ClassifyStep, FinishOutputStep DEF Next

LEMMA ExecInvHolds == Spec => []ExecInv
<1> QED BY InitExec, ExecStep, JobInvHolds, PTL DEF Spec

-----------------------------------------------------------------------------
\* Of every execution the state has its type; in particular the memory of the
\* capture buffer stays below its limit and the spill file below its own,
\* whatever the tasks write and whichever file operation fails.
THEOREM TypeCorrect == Spec => []TypeOK
<1>1. JobInv /\ ExecInv => TypeOK
  <2> SUFFICES ASSUME JobInv, ExecInv PROVE TypeOK
    OBVIOUS
  <2>1. stderr \in Bufs /\ Accounted(stderr)
    BY DEF ExecInv, BufInv
  <2>2. Buffer!TypeOK
    BY <2>1 DEF Buffer!TypeOK, Bufs, Accounted
  <2>3. result.code \in {"none", "zero", "status", "124", "130"}
    BY DEF ExecInv, ResultInv, Results
  <2> QED BY <2>2, <2>3 DEF TypeOK, JobInv, ExecInv, ResultInv
<1> QED BY <1>1, JobInvHolds, ExecInvHolds, PTL

\* The result accounts for every byte that any task wrote: no task writes
\* after it is taken, what it leaves out is flagged, and every file is named.
THEOREM ResultsAreComplete == Spec => []ResultComplete
<1>1. ASSUME NEW s \in Seq(Nat), \A i \in 1..Len(s) : s[i] = i
      PROVE  s = Buffer!UpTo(Len(s))
  BY <1>1 DEF Buffer!UpTo
<1>2. ExecInv => ResultComplete
  <2> SUFFICES ASSUME ExecInv, phase = "returned" PROVE ResultComplete
    BY DEF ResultComplete
  <2> DEFINE s == stderr.buf
             t == stderr.disk
  <2>1. stderr \in Bufs /\ Placed(stderr) /\ Accounted(stderr)
    BY DEF ExecInv, BufInv
  <2>2. /\ result.Stderr = s /\ result.StderrTruncated = stderr.truncated
        /\ result.SpillPath = stderr.spillPath
        /\ result.SpillTruncated = (stderr.spillCut /\ stderr.spillPath)
    BY DEF ExecInv, ResultInv, Buffer!SpillTruncated
  <2>3. s \in Seq(Nat) /\ t \in Seq(Nat) /\ Len(s) \in Nat /\ Len(t) \in Nat
    BY <2>1 DEF Bufs
  <2>4. /\ \A i \in 1..Len(s) : s[i] = i
        /\ \A i \in 1..Len(t) : t[i] = Len(s) + i
    BY <2>1 DEF Placed
  <2>5. /\ ~stderr.truncated => Len(s) = stderr.sent
        /\ stderr.spillPath /\ ~stderr.spillCut => Len(s) + Len(t) = stderr.sent
        /\ t # <<>> => stderr.spillPath
        /\ stderr.stray => stderr.truncated /\ ~stderr.spillPath
    BY <2>1 DEF Accounted
  <2> HIDE DEF s, t
  <2>6. s \o t \in Seq(Nat) /\ Len(s \o t) = Len(s) + Len(t)
        /\ \A i \in 1..(Len(s) + Len(t)) : (s \o t)[i] = IF i <= Len(s) THEN s[i] ELSE t[i - Len(s)]
    BY <2>3, ConcatProperties
  <2>7. \A i \in 1..Len(s \o t) : (s \o t)[i] = i
    <3> SUFFICES ASSUME NEW i \in 1..(Len(s) + Len(t)) PROVE (s \o t)[i] = i
      BY <2>6
    <3>1. CASE i <= Len(s)
      <4>1. i \in 1..Len(s)
        BY <2>3, <3>1
      <4> QED BY <2>4, <2>6, <3>1, <4>1
    <3>2. CASE ~(i <= Len(s))
      <4>1. i - Len(s) \in 1..Len(t) /\ Len(s) + (i - Len(s)) = i
        BY <2>3, <3>2
      <4> QED BY <2>4, <2>6, <3>2, <4>1
    <3> QED BY <3>1, <3>2
  <2>8. s = Buffer!UpTo(Len(s)) /\ s \o t = Buffer!UpTo(Len(s) + Len(t))
    <3>1. s = Buffer!UpTo(Len(s))
      BY <1>1, <2>3, <2>4
    <3>2. s \o t = Buffer!UpTo(Len(s \o t))
      BY <1>1, <2>6, <2>7
    <3> QED BY <2>6, <3>1, <3>2
  <2>9. /\ result.Stderr \o t = Buffer!UpTo(Len(result.Stderr) + Len(t))
        /\ ~result.StderrTruncated => result.Stderr = Buffer!UpTo(stderr.sent)
        /\ result.SpillPath /\ ~result.SpillTruncated => result.Stderr \o t = Buffer!UpTo(stderr.sent)
        /\ t # <<>> => result.SpillPath
        /\ stderr.stray => result.StderrTruncated /\ ~result.SpillPath
    BY <2>2, <2>5, <2>8
  <2> QED BY <2>9 DEF ResultComplete, t
<1> QED BY <1>2, ExecInvHolds, PTL
=============================================================================
