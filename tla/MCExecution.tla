----------------------------- MODULE MCExecution -----------------------------
(* A small instance of Execution for TLC.                                  *)
EXTENDS Execution

MCTasks == 1..2

\* More tasks than jobs are allowed; a family of two tasks that write and start
\* one another; one task, with more output than the buffer and its file take.
MCScenes ==
  {[tasks |-> {1, 2}, maxJobs |-> 1, bytes |-> 0],
   [tasks |-> {1, 2}, maxJobs |-> 2, bytes |-> 2],
   [tasks |-> {1},    maxJobs |-> 1, bytes |-> 3]}
=============================================================================
