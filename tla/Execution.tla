----------------------------- MODULE Execution ------------------------------
(***************************************************************************)
(* One Session.exec (internal/runtime/session.go) from the start of the    *)
(* script to its result: the shell family of JobGroup writes to a capture  *)
(* buffer, StopJobs joins it, and the result is taken from the buffer, the *)
(* outcome of the script and the state of the context.                     *)
(*                                                                         *)
(* The buffer is that of stderr, which also gets the control message of a  *)
(* timeout or a cancellation; stdout's is filled and closed alike.         *)
(***************************************************************************)
EXTENDS JobGroup, Sequences

CONSTANTS Limit, SpillMax, SpillDir  \* as in CaptureBuffer

ASSUME LimitsAssumption == Limit \in Nat /\ SpillMax \in Nat /\ SpillDir \in BOOLEAN

VARIABLES
  stderr,  \* the captureBuffer
  runErr,  \* what shell.Run returned
  phase,   \* where exec is after shell.Run
  result   \* the ExecutionResult

Buffer == INSTANCE CaptureBuffer WITH b <- stderr

execVars == <<stderr, runErr, phase, result>>
vars == <<jobVars, execVars>>

NoResult ==
  [code |-> "none", Stderr |-> <<>>, StderrTruncated |-> FALSE,
   SpillPath |-> FALSE, SpillTruncated |-> FALSE]

TypeOK ==
  /\ JobTypeOK /\ Buffer!TypeOK
  /\ runErr \in {"nil", "status", "deadline", "canceled"}
  /\ phase \in {"run", "classified", "returned"}
  /\ result.code \in {"none", "zero", "status", "124", "130"}

Init ==
  /\ JobInit /\ Buffer!Init
  /\ runErr = "nil" /\ phase = "run" /\ result = NoResult

-----------------------------------------------------------------------------
\* A shell of the family writes n bytes.  The scene bounds the bytes of a script.
Output(s, n) ==
  /\ Ready(s)
  /\ stderr.sent + n <= scene.bytes
  /\ Buffer!Write(n)
  /\ UNCHANGED <<jobVars, runErr, phase, result>>

\* The script ends, with its own status or with an error: that of its context,
\* or one of a command that had a context of its own.
ScriptEnds ==
  /\ MainEnds
  /\ runErr' \in {"nil", "status", "deadline", "canceled"}
  /\ UNCHANGED <<scene, stderr, phase, result>>

\* classifyExecutionControlError looks at the error and at the context, which
\* may have ended after the script did.
Ended(how) == runErr # "nil" /\ how \in {runErr, ctx}
Handled == Ended("deadline") \/ Ended("canceled")

\* The result is built, and a control message added, once shell.Run is back.
Classify ==
  /\ pc[Main] = "joined" /\ phase = "run"
  /\ IF Handled THEN Buffer!Write(1) ELSE UNCHANGED stderr
  /\ result' = [result EXCEPT
       !.code = IF Ended("deadline") THEN "124"
                ELSE IF Ended("canceled") THEN "130"
                ELSE IF runErr = "nil" THEN "zero" ELSE "status",
       !.Stderr = stderr'.buf, !.StderrTruncated = stderr'.truncated]
  /\ phase' = "classified"
  /\ UNCHANGED <<jobVars, runErr>>

\* finishCapturedOutput
FinishOutput ==
  /\ phase = "classified"
  /\ Buffer!Close
  /\ result' = [result EXCEPT
       !.SpillPath = stderr'.spillPath, !.SpillTruncated = Buffer!SpillTruncated(stderr')]
  /\ phase' = "returned"
  /\ UNCHANGED <<jobVars, runErr>>

-----------------------------------------------------------------------------
FamilyStep ==
  \/ \E s \in Shells : ShellStep(s)
  \/ \E t \in Tasks : TaskStep(t)
  \/ StopStep \/ CtxEnds

\* What a step of the family alone leaves as it is.
Others == <<scene, execVars>>

Next ==
  \/ FamilyStep /\ UNCHANGED Others
  \/ \E s \in Shells, n \in 1..2 : Output(s, n)
  \/ ScriptEnds \/ Classify \/ FinishOutput

Spec == Init /\ [][Next]_vars

(***************************************************************************)
(* Fairness: goroutines run, an AfterFunc that is due runs, and a task or  *)
(* the main shell that is not waiting for a task ends once its context is  *)
(* done: runner.go tests it before every statement, and sleep, read, cat,  *)
(* and FIFOs return when it ends.  The Read and Write of a pipe look at no *)
(* context, so a command that sits in one without a look at its context    *)
(* ends only when the pipe is closed.  Strong fairness because a shell may *)
(* still be inside a statement in between.  A script is not obliged to     *)
(* end, to start or to await anything.                                     *)
(***************************************************************************)
Fairness ==
  /\ \A s \in Shells : WF_vars((Refuse(s) \/ Admit(s) \/ Resume(s)) /\ UNCHANGED Others)
  /\ \A t \in Tasks :
       /\ WF_vars((Leave(t) \/ GroupReaches(t)) /\ UNCHANGED Others)
       /\ SF_vars(Finish(t) /\ MustEnd(t) /\ UNCHANGED Others)
  /\ SF_vars(ScriptEnds /\ ctx # "none")
  /\ WF_vars(StopStep /\ UNCHANGED Others)
  /\ WF_vars(Classify \/ FinishOutput)

FairSpec == Spec /\ Fairness

-----------------------------------------------------------------------------
\* The result accounts for every byte that any task of the execution wrote and
\* for the control message: what is neither in the result nor in the reported
\* spill file is flagged, nothing is out of place, and no file is left that
\* the result does not name, but for one that could not be removed.
ResultComplete ==
  phase = "returned" =>
    LET all == Buffer!UpTo(stderr.sent)
    IN /\ result.Stderr \o stderr.disk
            = Buffer!UpTo(Len(result.Stderr) + Len(stderr.disk))
       /\ ~result.StderrTruncated => result.Stderr = all
       /\ result.SpillPath /\ ~result.SpillTruncated => result.Stderr \o stderr.disk = all
       /\ stderr.disk # <<>> => result.SpillPath
       /\ stderr.stray => result.StderrTruncated /\ ~result.SpillPath

\* An execution whose context has ended returns, whatever the shells were
\* waiting for, unless the main shell is stuck in a wait for a substitution
\* that only the end of the script would release.  So does one whose script is
\* over unless a process substitution ignores its pipe.
ExecReturns ==
  /\ ctx # "none" ~> phase = "returned" \/ Stuck
  /\ pc[Main] = "wait" /\ (\A t \in InStatus({"live"}) : kind[t] # "deaf") ~> phase = "returned"
=============================================================================
