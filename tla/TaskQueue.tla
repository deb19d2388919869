------------------------------ MODULE TaskQueue ------------------------------
(***************************************************************************)
(* What framework/facade/worker.go promises of an IWorker: tasks handed    *)
(* over with Post are started in the order they were accepted, each of     *)
(* them runs once, and once Stop has reported the worker as closed         *)
(* ("quiet") no accepted task is left.  Worker.tla implements this module. *)
(***************************************************************************)
EXTENDS Integers, Sequences

CONSTANTS
  Tasks,      \* the closures given to Post
  Serial      \* TRUE: at most one task is executed at any time

VARIABLES
  backlog,    \* accepted tasks that nobody has started, oldest first
  active,     \* tasks being executed
  finished,   \* tasks whose execution has ended, by return or by panic
  open,       \* whether new tasks can still be accepted
  quiet       \* whether Stop has reported that everything is done

tqVars == <<backlog, active, finished, open, quiet>>

Waiting == {backlog[i] : i \in 1..Len(backlog)}

TQInit ==
  /\ backlog = <<>>
  /\ active = {}
  /\ finished = {}
  /\ open = TRUE
  /\ quiet = FALSE

Accept(t) ==
  /\ open
  /\ t \notin Waiting \cup active \cup finished
  /\ backlog' = Append(backlog, t)
  /\ UNCHANGED <<active, finished, open, quiet>>

Dispatch ==
  /\ backlog # <<>>
  /\ Serial => active = {}
  /\ active' = active \cup {Head(backlog)}
  /\ backlog' = Tail(backlog)
  /\ UNCHANGED <<finished, open, quiet>>

Complete(t) ==
  /\ t \in active
  /\ active' = active \ {t}
  /\ finished' = finished \cup {t}
  /\ UNCHANGED <<backlog, open, quiet>>

Close ==
  /\ open
  /\ open' = FALSE
  /\ UNCHANGED <<backlog, active, finished, quiet>>

ReportQuiet ==
  /\ ~open
  /\ backlog = <<>>
  /\ active = {}
  /\ quiet' = TRUE
  /\ UNCHANGED <<backlog, active, finished, open>>

TQNext ==
  \/ \E t \in Tasks : Accept(t) \/ Complete(t)
  \/ Dispatch
  \/ Close
  \/ ReportQuiet

TQSpec == TQInit /\ [][TQNext]_tqVars
==============================================================================
