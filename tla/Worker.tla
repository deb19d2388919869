-------------------------------- MODULE Worker --------------------------------
(***************************************************************************)
(* The worker of framework/pkg/worker/worker.go: a bounded channel of      *)
(* tasks, the goroutines that drain it, a wait group for Stop, and the     *)
(* counter behind Len().                                                   *)
(*                                                                         *)
(* One action is one atomic operation of the code (an atomic load, a CAS,  *)
(* a channel operation, a WaitGroup operation), so every interleaving of   *)
(* Post, Stop, the worker loops and their restart after a panic is here.   *)
(* A runner stands for one call of Start together with the goroutines that *)
(* replace each other after panics; Application.Startup makes two calls.   *)
(*                                                                         *)
(* Abstractions: a task is an identity, posted at most once (each Post     *)
(* gets a closure of its own); what a task does is reduced to whether it   *)
(* panics, and whether it calls Post itself.  A task returns or panics     *)
(* after finitely many steps.                                              *)
(***************************************************************************)
EXTENDS Integers, Sequences, FiniteSets

CONSTANTS
  Tasks,        \* closures given to Post
  Posters,      \* goroutines that call Post: Cluster.receive, timers of AfterPost
  Runners,      \* calls of Start
  Stoppers,     \* goroutines that call Stop: Startup's OnStop loop, Shutdown
  Cap,          \* capacity of fs, the argument of NewWorker
  Panicking,    \* tasks that panic
  Reentrant,    \* tasks that call Post themselves
  NoTask

ASSUME ConstantsOK ==
  /\ Cap \in Nat \ {0}
  /\ IsFiniteSet(Runners) /\ Runners # {}
  /\ IsFiniteSet(Posters)
  /\ Posters \cap Runners = {}
  /\ NoTask \notin Tasks

VARIABLES
  closed,       \* w.closed
  chClosed,     \* whether close(w.fs) has been executed
  fs,           \* w.fs
  len,          \* w.len
  wg,           \* the counter of w.finiWg
  exiting,      \* goroutines past their loop that still owe finiWg.Done()
  postPc,       \* where each goroutine is inside Post
  postArg,      \* the task it is posting
  runPc,        \* where each runner is in the loop of Start
  runArg,       \* the task a runner has taken
  stopPc,       \* where each stopper is inside Stop
  crashed,      \* an unrecovered panic has ended the process
  posted,       \* history: tasks for which Post has been called
  sent,         \* history: tasks that reached the channel
  ran           \* history: tasks whose execution has ended

postVars == <<postPc, postArg, posted, sent>>
runVars  == <<runPc, runArg, ran, wg, exiting>>
stopVars == <<closed, chClosed, stopPc>>
vars == <<fs, len, crashed, postVars, runVars, stopVars>>

Goroutines == Posters \cup Runners

Elems(seq) == {seq[i] : i \in 1..Len(seq)}
Busy   == {r \in Runners : runPc[r] \in {"got", "running"}}
Queued == Elems(fs)
InHand == {runArg[r] : r \in Busy}
Live   == {r \in Runners : runPc[r] \in {"idle", "got", "running", "panicked"}}

Sending == {g \in Goroutines : postPc[g] = "counted"}
Taking  == {r \in Runners : runPc[r] = "got"}

-------------------------------------------------------------------------------
(* NewWorker; the goroutines exist once Start is called. *)
Init ==
  /\ closed = FALSE /\ chClosed = FALSE /\ crashed = FALSE
  /\ fs = <<>> /\ len = 0 /\ wg = 0 /\ exiting = 0
  /\ postPc = [g \in Goroutines |-> "idle"]
  /\ postArg = [g \in Goroutines |-> NoTask]
  /\ runPc = [r \in Runners |-> "unstarted"]
  /\ runArg = [r \in Runners |-> NoTask]
  /\ stopPc = [s \in Stoppers |-> "idle"]
  /\ posted = {} /\ sent = {} /\ ran = {}

-------------------------------------------------------------------------------
(* Post.  The check of closed, the increment of len and the send are three *)
(* separate operations; Stop may come between any two of them.             *)

MayPost(g) ==
  \/ g \in Posters
  \/ g \in Runners /\ runPc[g] = "running" /\ runArg[g] \in Reentrant

PostRejected(g, t) ==
  /\ MayPost(g) /\ postPc[g] = "idle" /\ t \notin posted
  /\ closed
  /\ posted' = posted \cup {t}
  /\ UNCHANGED <<fs, len, crashed, postPc, postArg, sent, runVars, stopVars>>

PostAdmitted(g, t) ==
  /\ MayPost(g) /\ postPc[g] = "idle" /\ t \notin posted
  /\ ~closed
  /\ posted' = posted \cup {t}
  /\ postPc' = [postPc EXCEPT ![g] = "admitted"]
  /\ postArg' = [postArg EXCEPT ![g] = t]
  /\ UNCHANGED <<fs, len, crashed, sent, runVars, stopVars>>

PostCount(g) ==
  /\ postPc[g] = "admitted"
  /\ len' = len + 1
  /\ postPc' = [postPc EXCEPT ![g] = "counted"]
  /\ UNCHANGED <<fs, crashed, postArg, posted, sent, runVars, stopVars>>

\* Faulty variant: the channel is not bounded.
PostSend_Unbounded(g) ==
  /\ postPc[g] = "counted"
  /\ ~chClosed
  /\ fs' = Append(fs, postArg[g])
  /\ sent' = sent \cup {postArg[g]}
  /\ postPc' = [postPc EXCEPT ![g] = "idle"]
  /\ postArg' = [postArg EXCEPT ![g] = NoTask]
  /\ UNCHANGED <<len, crashed, posted, runVars, stopVars>>

(* w.fs <- f waits while the channel is full ... *)
PostSend(g) ==
  /\ postPc[g] = "counted"
  /\ ~chClosed
  /\ Len(fs) < Cap
  /\ fs' = Append(fs, postArg[g])
  /\ sent' = sent \cup {postArg[g]}
  /\ postPc' = [postPc EXCEPT ![g] = "idle"]
  /\ postArg' = [postArg EXCEPT ![g] = NoTask]
  /\ UNCHANGED <<len, crashed, posted, runVars, stopVars>>

(* ... and panics once it is closed, even if it was waiting.  Nothing      *)
(* recovers the panic in the receive loop or in a timer goroutine; in a    *)
(* task it is recovered by the runner, like any panic of that task.        *)
PostOnClosed(g) ==
  /\ postPc[g] = "counted"
  /\ chClosed
  /\ postPc' = [postPc EXCEPT ![g] = "idle"]
  /\ postArg' = [postArg EXCEPT ![g] = NoTask]
  /\ \/ /\ g \in Posters
        /\ crashed' = TRUE
        /\ UNCHANGED <<runPc, runArg, ran>>
     \/ /\ g \in Runners
        /\ runPc' = [runPc EXCEPT ![g] = "panicked"]
        /\ ran' = ran \cup {runArg[g]}
        /\ runArg' = [runArg EXCEPT ![g] = NoTask]
        /\ UNCHANGED crashed
  /\ UNCHANGED <<fs, len, posted, sent, wg, exiting, stopVars>>

-------------------------------------------------------------------------------
(* Start and the loop of the goroutine it spawns.                          *)

Start(r) ==
  /\ runPc[r] = "unstarted"
  /\ wg' = wg + 1
  /\ runPc' = [runPc EXCEPT ![r] = "idle"]
  /\ UNCHANGED <<fs, len, crashed, postVars, runArg, ran, exiting, stopVars>>

Take(r) ==
  /\ runPc[r] = "idle"
  /\ fs # <<>>
  /\ runArg' = [runArg EXCEPT ![r] = Head(fs)]
  /\ fs' = Tail(fs)
  /\ runPc' = [runPc EXCEPT ![r] = "got"]
  /\ UNCHANGED <<len, crashed, postVars, ran, wg, exiting, stopVars>>

Begin(r) ==
  /\ runPc[r] = "got"
  /\ len' = len - 1
  /\ runPc' = [runPc EXCEPT ![r] = "running"]
  /\ UNCHANGED <<fs, crashed, postVars, runArg, ran, wg, exiting, stopVars>>

TaskEnds(r, nextPc) ==
  /\ runPc[r] = "running"
  /\ postPc[r] = "idle"
  /\ runPc' = [runPc EXCEPT ![r] = nextPc]
  /\ ran' = ran \cup {runArg[r]}
  /\ runArg' = [runArg EXCEPT ![r] = NoTask]
  /\ UNCHANGED <<fs, len, crashed, postVars, wg, exiting, stopVars>>

Finish(r) == runArg[r] \notin Panicking /\ TaskEnds(r, "idle")

Panic(r) == runArg[r] \in Panicking /\ TaskEnds(r, "panicked")

\* Faulty variant: the goroutine is replaced without finiWg.Add(1).
Restart_NoAdd(r) ==
  /\ runPc[r] = "panicked"
  /\ runPc' = [runPc EXCEPT ![r] = "idle"]
  /\ exiting' = exiting + 1
  /\ UNCHANGED <<fs, len, crashed, postVars, runArg, ran, wg, stopVars>>

\* Faulty variant: the panic is logged but nothing replaces the goroutine.
Restart_Never(r) ==
  /\ runPc[r] = "panicked"
  /\ runPc' = [runPc EXCEPT ![r] = "exited"]
  /\ exiting' = exiting + 1
  /\ UNCHANGED <<fs, len, crashed, postVars, runArg, ran, wg, stopVars>>

(* The deferred functions run last-in first-out: the recovery calls Start, *)
(* which adds to the wait group, before the deferred Done subtracts.       *)
Restart(r) ==
  /\ runPc[r] = "panicked"
  /\ wg' = wg + 1
  /\ runPc' = [runPc EXCEPT ![r] = "idle"]
  /\ exiting' = exiting + 1
  /\ UNCHANGED <<fs, len, crashed, postVars, runArg, ran, stopVars>>

\* Faulty variant: the loop ends as soon as the channel is closed.
Exit_Undrained(r) ==
  /\ runPc[r] = "idle"
  /\ chClosed
  /\ runPc' = [runPc EXCEPT ![r] = "exited"]
  /\ exiting' = exiting + 1
  /\ UNCHANGED <<fs, len, crashed, postVars, runArg, ran, wg, stopVars>>

\* Faulty variant: the goroutine returns without finiWg.Done().
Exit_NoDone(r) ==
  /\ runPc[r] = "idle"
  /\ chClosed /\ fs = <<>>
  /\ runPc' = [runPc EXCEPT ![r] = "exited"]
  /\ UNCHANGED <<fs, len, crashed, postVars, runArg, ran, wg, exiting, stopVars>>

Exit(r) ==
  /\ runPc[r] = "idle"
  /\ chClosed /\ fs = <<>>
  /\ runPc' = [runPc EXCEPT ![r] = "exited"]
  /\ exiting' = exiting + 1
  /\ UNCHANGED <<fs, len, crashed, postVars, runArg, ran, wg, stopVars>>

WgDone ==
  /\ exiting > 0
  /\ exiting' = exiting - 1
  /\ wg' = wg - 1
  /\ UNCHANGED <<fs, len, crashed, postVars, runPc, runArg, ran, stopVars>>

-------------------------------------------------------------------------------
(* Stop has no such guard, its callers do: Startup calls it after both     *)
(* calls of Start, in the same function.  That Shutdown is called only on  *)
(* an application that is up is an assumption (nothing in the repository   *)
(* calls Shutdown).                                                        *)

AllStarted == \A r \in Runners : runPc[r] # "unstarted"

StopClaim(s) ==
  /\ stopPc[s] = "idle" /\ AllStarted
  /\ ~closed
  /\ closed' = TRUE
  /\ stopPc' = [stopPc EXCEPT ![s] = "closing"]
  /\ UNCHANGED <<fs, len, crashed, postVars, runVars, chClosed>>

(* The CompareAndSwap fails: this Stop returns without waiting. *)
StopSkip(s) ==
  /\ stopPc[s] = "idle" /\ AllStarted
  /\ closed
  /\ stopPc' = [stopPc EXCEPT ![s] = "skipped"]
  /\ UNCHANGED <<fs, len, crashed, postVars, runVars, closed, chClosed>>

StopClose(s) ==
  /\ stopPc[s] = "closing"
  /\ chClosed' = TRUE
  /\ stopPc' = [stopPc EXCEPT ![s] = "waiting"]
  /\ UNCHANGED <<fs, len, crashed, postVars, runVars, closed>>

StopReturn(s) ==
  /\ stopPc[s] = "waiting"
  /\ wg = 0
  /\ stopPc' = [stopPc EXCEPT ![s] = "drained"]
  /\ UNCHANGED <<fs, len, crashed, postVars, runVars, closed, chClosed>>

-------------------------------------------------------------------------------
PostStep(g)   == PostCount(g) \/ PostSend(g) \/ PostOnClosed(g)
RunnerStep(r) == Take(r) \/ Begin(r) \/ Finish(r) \/ Panic(r) \/ Restart(r) \/ Exit(r)
StopStep(s)   == StopClose(s) \/ StopReturn(s)

(* The process is over, or the worker has been stopped and every goroutine *)
(* has returned.                                                           *)
Terminated ==
  /\ \/ crashed
     \/ /\ \A s \in Stoppers : stopPc[s] \in {"drained", "skipped"}
        /\ \A r \in Runners : runPc[r] = "exited"
        /\ exiting = 0
        /\ \A g \in Goroutines : postPc[g] = "idle"
  /\ UNCHANGED vars

Next ==
  \/ /\ ~crashed
     /\ \/ \E g \in Goroutines :
             \/ \E t \in Tasks : PostRejected(g, t) \/ PostAdmitted(g, t)
             \/ PostStep(g)
        \/ \E r \in Runners : Start(r) \/ RunnerStep(r)
        \/ WgDone
        \/ \E s \in Stoppers : StopClaim(s) \/ StopSkip(s) \/ StopStep(s)
  \/ Terminated

(* The Go scheduler runs every goroutine that can run.  Nobody is obliged  *)
(* to call Post or Stop.                                                   *)
Fairness ==
  /\ \A g \in Goroutines : WF_vars(~crashed /\ PostStep(g))
  /\ \A r \in Runners : WF_vars(~crashed /\ (Start(r) \/ RunnerStep(r)))
  /\ WF_vars(~crashed /\ WgDone)
  /\ \A s \in Stoppers : WF_vars(~crashed /\ StopStep(s))

Spec == Init /\ [][Next]_vars /\ Fairness

-------------------------------------------------------------------------------
(* Properties.                                                             *)

TypeOK ==
  /\ closed \in BOOLEAN /\ chClosed \in BOOLEAN /\ crashed \in BOOLEAN
  /\ fs \in Seq(Tasks) /\ Len(fs) <= Cap
  /\ len \in Int /\ wg \in Nat /\ exiting \in Nat
  /\ postPc \in [Goroutines -> {"idle", "admitted", "counted"}]
  /\ postArg \in [Goroutines -> Tasks \cup {NoTask}]
  /\ runPc \in [Runners -> {"unstarted", "idle", "got", "running", "panicked", "exited"}]
  /\ runArg \in [Runners -> Tasks \cup {NoTask}]
  /\ stopPc \in [Stoppers -> {"idle", "closing", "waiting", "drained", "skipped"}]
  /\ posted \in SUBSET Tasks /\ sent \in SUBSET Tasks /\ ran \in SUBSET Tasks

(* worker.go:65-70: the Stop that waited returns only when every task that *)
(* was ever accepted has run, whatever panics and restarts happened while  *)
(* it waited, and nothing runs afterwards.                                 *)
StopDrains ==
  \A s \in Stoppers : stopPc[s] = "drained" => /\ ran = sent
                                               /\ fs = <<>>
                                               /\ Live = {}

(* worker.go:41-59: the wait group counts the goroutines in the loop and   *)
(* those that still owe Done; so it never reaches zero while a panic is    *)
(* being recovered, and Restart never re-arms a group that is at zero.     *)
WgExact == wg = Cardinality(Live) + exiting

(* worker.go:27-33, 53-54, 61-63: as long as the channel is open Len()     *)
(* reports the queue plus the posts and the takes that are half done.  A   *)
(* Post that is turned away leaves no trace in it.                         *)
LenExact ==
  ~chClosed => len = Len(fs) + Cardinality(Sending) + Cardinality(Taking)

(* worker.go:27-63: the two counters, which are changed apart from what     *)
(* they count, agree with it at every step.                                *)
CountersExact == WgExact /\ LenExact

Reported == \E s \in Stoppers : stopPc[s] = "drained"

Pool == INSTANCE TaskQueue WITH
  Serial <- FALSE, backlog <- fs, active <- InHand, finished <- ran,
  open <- ~chClosed, quiet <- Reported

OneByOne == INSTANCE TaskQueue WITH
  Serial <- TRUE, backlog <- fs, active <- InHand, finished <- ran,
  open <- ~chClosed, quiet <- Reported

(* facade/worker.go:9-12: accepted tasks start in order, run once, and are *)
(* all done when Stop reports so.                                          *)
ImplementsTaskQueue == Pool!TQSpec

(* facade/worker.go:11 ("start the worker goroutine, execute the tasks     *)
(* sequentially"): the same, one task at a time.                           *)
ImplementsSerialQueue == OneByOne!TQSpec

(* Every runner is inside a Post of its own task, on a full channel.       *)
Wedged ==
  /\ ~chClosed /\ Len(fs) = Cap
  /\ \A r \in Runners : postPc[r] = "counted"

(* worker.go:46-55: an accepted task is executed even if the tasks before  *)
(* it panic.  What can prevent it: the process crashes, or tasks that post *)
(* from inside the worker block all its goroutines.                        *)
AcceptedTasksRun ==
  \A t \in Tasks : t \in sent ~> t \in ran \/ crashed \/ Wedged

(* worker.go:65-70: Stop does not hang; even a wedged worker is freed by   *)
(* it, because closing the channel fails the blocked sends.                *)
StopTerminates ==
  \A s \in Stoppers : stopPc[s] = "closing" ~> stopPc[s] = "drained" \/ crashed

(* worker.go:46-70: both, what is accepted gets done and a Stop returns.   *)
WorkEnds == AcceptedTasksRun /\ StopTerminates
===============================================================================
