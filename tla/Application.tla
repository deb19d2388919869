----------------------------- MODULE Application -----------------------------
(***************************************************************************)
(* The life of a node, framework/application.go: Startup brings the        *)
(* components up, waits for Shutdown or a signal, and stops them in        *)
(* reverse order, while requests of other nodes keep coming in.            *)
(*                                                                         *)
(* Of the components, those matter that have a goroutine or a state that   *)
(* stopping changes: the cluster (its connection to NATS, the channel and  *)
(* the goroutine that receives: cluster.go, nats_subject.go, nats_conn.go) *)
(* the discovery (the goroutine that reads the keep-alive answers of etcd, *)
(* and dieChan with them: discovery_etcd.go:103-117), and the worker,      *)
(* which is reduced to what TaskQueue promises; that it keeps this promise *)
(* is shown for Worker.tla, not here.                                      *)
(*                                                                         *)
(* A request is a message whose handler answers it with Sender.Resp; the   *)
(* handlers of ShutdownReqs call Shutdown first.  A handler that panics    *)
(* ends as one whose answer fails; the worker replaces its goroutine.      *)
(***************************************************************************)
EXTENDS Naturals, Sequences

CONSTANTS
  Reqs,           \* requests of other nodes
  ShutdownReqs,   \* those whose handler calls Shutdown
  Callers,        \* other goroutines that call Shutdown
  Runners,        \* the worker's goroutines
  Startup,        \* the goroutine that runs Startup
  NoReq, Nobody

ASSUME ConstantsOK ==
  /\ ShutdownReqs \subseteq Reqs /\ NoReq \notin Reqs
  /\ Startup \notin Callers \cup Runners /\ Callers \cap Runners = {}
  /\ {"none", "signal", Nobody} \cap (Callers \cup Runners \cup {Startup}) = {}
  /\ Nobody \notin {"none", "signal"}

VARIABLES
  mainPc,       \* where Startup is
  running,      \* a.running
  cause,        \* what ended the select of Startup: "signal", or who sent die
  etcd,         \* the keep-alive goroutine: "none", "waiting" or "gone"
  natsUp,       \* connected to NATS
  ch,           \* natsSub.ch: messages NATS has delivered
  recvPc,       \* where Cluster.receive is
  recvMsg,      \* the message it is posting
  fs,           \* the worker's queue
  closer,       \* who has set the worker's closed flag, if it is set
  chClosed,     \* close(w.fs) has been executed
  run,          \* the request each runner is handling
  stopPc,       \* where each goroutine is inside Shutdown, or inside Stop
  crashed,      \* an unrecovered panic has ended the process
  arrived,      \* history: requests delivered by NATS
  accepted,     \* history: requests taken by the worker
  answered,     \* history: requests whose answer was published
  failed        \* history: requests that were handled without an answer before
                \* anything ended the node

workVars == <<fs, run, accepted, answered, failed>>
recvVars == <<ch, recvPc, recvMsg, arrived>>
stopVars == <<closer, chClosed, stopPc>>
mainVars == <<mainPc, running, cause, natsUp>>
vars == <<mainVars, etcd, recvVars, workVars, stopVars, crashed>>

Init ==
  /\ mainPc = "new" /\ running = FALSE /\ cause = "none"
  /\ etcd = "none" /\ natsUp = FALSE
  /\ ch = <<>> /\ recvPc = "none" /\ recvMsg = NoReq
  /\ fs = <<>> /\ closer = Nobody /\ chClosed = FALSE
  /\ run = [r \in Runners |-> NoReq]
  /\ stopPc = [a \in Callers \cup Runners \cup {Startup} |-> "idle"]
  /\ crashed = FALSE
  /\ arrived = {} /\ accepted = {} /\ answered = {} /\ failed = {}

-------------------------------------------------------------------------------
(* Startup, up to its select.  The components are initialised in the order *)
(* in which NewAppNode registers them: worker, cluster, discovery.         *)

InitCluster ==
  /\ mainPc = "new" /\ mainPc' = "connected"
  /\ natsUp' = TRUE /\ recvPc' = "subscribing"
  /\ UNCHANGED <<running, cause, etcd, ch, recvMsg, arrived, workVars, stopVars, crashed>>

InitDiscovery ==
  /\ mainPc = "connected" /\ mainPc' = "listed"
  /\ etcd' = "waiting"
  /\ UNCHANGED <<running, cause, natsUp, recvVars, workVars, stopVars, crashed>>

(* The OnAfterInit of the worker calls Start; so does Startup itself.      *)
OnAfterInit ==
  /\ mainPc = "listed" /\ mainPc' = "started"
  /\ UNCHANGED <<running, cause, natsUp, etcd, recvVars, workVars, stopVars, crashed>>

SetRunning ==
  /\ mainPc = "started" /\ mainPc' = "up"
  /\ running' = TRUE
  /\ UNCHANGED <<cause, natsUp, etcd, recvVars, workVars, stopVars, crashed>>

-------------------------------------------------------------------------------
(* Requests: NATS, Cluster.receive, the worker's goroutines.               *)

(* Frontend.tla has what happens if Stop closes the channel at this moment.*)
Subscribe ==
  /\ recvPc = "subscribing"
  /\ recvPc' = IF natsUp THEN "idle" ELSE "none"
  /\ UNCHANGED <<mainVars, etcd, ch, recvMsg, arrived, workVars, stopVars, crashed>>

Arrive(m) ==
  /\ natsUp /\ recvPc \in {"idle", "posting"} /\ m \notin arrived
  /\ arrived' = arrived \cup {m}
  /\ ch' = Append(ch, m)
  /\ UNCHANGED <<mainVars, etcd, recvPc, recvMsg, workVars, stopVars, crashed>>

closed == closer # Nobody

(* Post looks at closed ... ; messages that were delivered before the      *)
(* channel was closed are still received.                                  *)
Receive ==
  /\ recvPc = "idle" /\ ch # <<>>
  /\ ch' = Tail(ch)
  /\ IF closed THEN UNCHANGED <<recvPc, recvMsg>>
               ELSE recvPc' = "posting" /\ recvMsg' = Head(ch)
  /\ UNCHANGED <<mainVars, etcd, arrived, workVars, stopVars, crashed>>

(* ... and then sends, which panics if the worker has been closed since.   *)
\* Faulty variant: receive posts without having received a message.
PostSend_Any ==
  /\ recvPc # "none"
  /\ recvPc' = "idle" /\ recvMsg' = NoReq
  /\ crashed' = chClosed
  /\ IF chClosed THEN UNCHANGED <<fs, accepted>>
                 ELSE fs' = Append(fs, recvMsg) /\ accepted' = accepted \cup {recvMsg}
  /\ UNCHANGED <<mainVars, etcd, ch, arrived, run, answered, failed, stopVars>>

PostSend ==
  /\ recvPc = "posting"
  /\ recvPc' = "idle" /\ recvMsg' = NoReq
  /\ crashed' = chClosed
  /\ IF chClosed THEN UNCHANGED <<fs, accepted>>
                 ELSE fs' = Append(fs, recvMsg) /\ accepted' = accepted \cup {recvMsg}
  /\ UNCHANGED <<mainVars, etcd, ch, arrived, run, answered, failed, stopVars>>

Take(r) ==
  /\ mainPc \notin {"new", "connected", "listed"}
  /\ run[r] = NoReq /\ fs # <<>>
  /\ run' = [run EXCEPT ![r] = Head(fs)]
  /\ fs' = Tail(fs)
  /\ stopPc' = [stopPc EXCEPT ![r] = "idle"]
  /\ UNCHANGED <<mainVars, etcd, recvVars, accepted, answered, failed, closer, chClosed, crashed>>

(* The handler ends.  Its answer is published, which takes a node that is  *)
(* running and connected, or it is not: SendBytes refuses, the type of the *)
(* asking node is unknown, packing or publishing fails, or the handler     *)
(* panics.  All of these are only logged.                                  *)
Answer(r) ==
  /\ run[r] # NoReq
  /\ run[r] \in ShutdownReqs => stopPc[r] = "done"
  /\ run' = [run EXCEPT ![r] = NoReq]
  /\ \/ /\ running /\ natsUp
        /\ answered' = answered \cup {run[r]} /\ UNCHANGED failed
     \/ /\ failed' = IF cause = "none" THEN failed \cup {run[r]} ELSE failed
        /\ UNCHANGED answered
  /\ UNCHANGED <<mainVars, etcd, recvVars, fs, accepted, stopVars, crashed>>

-------------------------------------------------------------------------------
(* Shutdown, and the end of Startup: both call the worker's Stop.          *)

(* Shutdown is called by a handler or, it is assumed, on a node that is up;*)
(* Shutdown itself does not look at running, and nothing in the repository *)
(* calls it.                                                               *)
MayStop(a) ==
  \/ a \in Callers /\ running
  \/ a \in Runners /\ run[a] \in ShutdownReqs
  \/ a = Startup /\ mainPc = "stopWorker"

Drained == fs = <<>> /\ \A r \in Runners : run[r] = NoReq

AfterStop(a) == IF a = Startup THEN "done" ELSE "sending"

StopClaim(a) ==
  /\ stopPc[a] = "idle" /\ MayStop(a)
  /\ ~closed
  /\ closer' = a
  /\ stopPc' = [stopPc EXCEPT ![a] = "closing"]
  /\ UNCHANGED <<mainVars, etcd, recvVars, workVars, chClosed, crashed>>

StopSkip(a) ==
  /\ stopPc[a] = "idle" /\ MayStop(a)
  /\ closed
  /\ stopPc' = [stopPc EXCEPT ![a] = AfterStop(a)]
  /\ UNCHANGED <<mainVars, etcd, recvVars, workVars, closer, chClosed, crashed>>

\* Faulty variant: Stop does not wait for the worker's goroutines.
StopClose_NoWait(a) ==
  /\ stopPc[a] = "closing"
  /\ chClosed' = TRUE
  /\ stopPc' = [stopPc EXCEPT ![a] = AfterStop(a)]
  /\ UNCHANGED <<mainVars, etcd, recvVars, workVars, closer, crashed>>

StopClose(a) ==
  /\ stopPc[a] = "closing"
  /\ chClosed' = TRUE
  /\ stopPc' = [stopPc EXCEPT ![a] = "waiting"]
  /\ UNCHANGED <<mainVars, etcd, recvVars, workVars, closer, crashed>>

\* Faulty variant: Stop also waits until the cluster, which posts, is down.
StopReturn_NatsDown(a) ==
  /\ stopPc[a] = "waiting"
  /\ Drained /\ ~natsUp
  /\ stopPc' = [stopPc EXCEPT ![a] = AfterStop(a)]
  /\ UNCHANGED <<mainVars, etcd, recvVars, workVars, closer, chClosed, crashed>>

StopReturn(a) ==
  /\ stopPc[a] = "waiting"
  /\ Drained
  /\ stopPc' = [stopPc EXCEPT ![a] = AfterStop(a)]
  /\ UNCHANGED <<mainVars, etcd, recvVars, workVars, closer, chClosed, crashed>>

(* dieChan <- true, received by the select of Startup ...                  *)
TakeDie(a) ==
  /\ stopPc[a] = "sending" /\ mainPc = "up"
  /\ stopPc' = [stopPc EXCEPT ![a] = "done"]
  /\ mainPc' = "stopping" /\ running' = FALSE /\ cause' = a
  /\ UNCHANGED <<natsUp, etcd, recvVars, workVars, closer, chClosed, crashed>>

(* ... or by the keep-alive goroutine, which then returns.                 *)
EtcdTakesDie(a) ==
  /\ stopPc[a] = "sending" /\ etcd = "waiting"
  /\ stopPc' = [stopPc EXCEPT ![a] = "done"]
  /\ etcd' = "gone"
  /\ UNCHANGED <<mainVars, recvVars, workVars, closer, chClosed, crashed>>

TakeSignal ==
  /\ mainPc = "up"
  /\ mainPc' = "stopping" /\ running' = FALSE /\ cause' = "signal"
  /\ UNCHANGED <<natsUp, etcd, recvVars, workVars, stopVars, crashed>>

(* OnStop of the cluster; the discovery's, before it, does nothing.        *)
StopCluster ==
  /\ mainPc = "stopping" /\ mainPc' = "stopWorker"
  /\ natsUp' = FALSE
  /\ UNCHANGED <<running, cause, etcd, recvVars, workVars, stopVars, crashed>>

StartupReturns ==
  /\ mainPc = "stopWorker" /\ stopPc[Startup] = "done"
  /\ mainPc' = "done"
  /\ UNCHANGED <<running, cause, natsUp, etcd, recvVars, workVars, stopVars, crashed>>

-------------------------------------------------------------------------------
StartupStep ==
  InitCluster \/ InitDiscovery \/ OnAfterInit \/ SetRunning \/ StopCluster \/ StartupReturns

StopStep(a) == StopClaim(a) \/ StopSkip(a) \/ StopClose(a) \/ StopReturn(a)
DieStep(a)  == TakeDie(a) \/ EtcdTakesDie(a)

(* The process ends with Startup.                                          *)
Next ==
  /\ ~crashed /\ mainPc # "done"
  /\ \/ StartupStep \/ TakeSignal
     \/ \E m \in Reqs : Arrive(m)
     \/ Subscribe \/ Receive \/ PostSend
     \/ \E r \in Runners : Take(r) \/ Answer(r)
     \/ \E a \in DOMAIN stopPc : StopStep(a) \/ DieStep(a)

(* Goroutines that can run do run.  Signals, requests and calls of         *)
(* Shutdown from outside need not come.                                    *)
Fairness ==
  /\ WF_vars(mainPc # "done" /\ ~crashed /\ StartupStep)
  /\ WF_vars(mainPc # "done" /\ ~crashed /\ (Subscribe \/ Receive \/ PostSend))
  /\ \A r \in Runners : WF_vars(mainPc # "done" /\ ~crashed /\ (Take(r) \/ Answer(r)))
  /\ \A a \in Callers : WF_vars(mainPc # "done" /\ ~crashed /\ stopPc[a] # "idle" /\ StopStep(a))
  /\ \A a \in Runners \cup {Startup} : WF_vars(mainPc # "done" /\ ~crashed /\ StopStep(a))
  /\ \A a \in Callers \cup Runners : WF_vars(mainPc # "done" /\ ~crashed /\ DieStep(a))

Spec == Init /\ [][Next]_vars /\ Fairness

-------------------------------------------------------------------------------
(* Properties.                                                             *)

TypeOK ==
  /\ mainPc \in {"new", "connected", "listed", "started", "up", "stopping", "stopWorker", "done"}
  /\ running \in BOOLEAN /\ natsUp \in BOOLEAN /\ crashed \in BOOLEAN
  /\ chClosed \in BOOLEAN /\ closer \in DOMAIN stopPc \cup {Nobody}
  /\ cause \in DOMAIN stopPc \cup {"none", "signal"} /\ etcd \in {"none", "waiting", "gone"}
  /\ ch \in Seq(Reqs) /\ fs \in Seq(Reqs)
  /\ recvPc \in {"none", "subscribing", "idle", "posting"} /\ recvMsg \in Reqs \cup {NoReq}
  /\ run \in [Runners -> Reqs \cup {NoReq}]
  /\ stopPc \in [Callers \cup Runners \cup {Startup} ->
                 {"idle", "closing", "waiting", "sending", "done"}]
  /\ arrived \in SUBSET Reqs /\ accepted \in SUBSET arrived
  /\ answered \in SUBSET accepted /\ failed \in SUBSET accepted

(* A handler has called Shutdown: it waits for itself, or for dieChan.     *)
HandlerStops == \E r \in Runners : run[r] \in ShutdownReqs /\ stopPc[r] # "idle"

(* application.go:250-253: Shutdown first drains the worker and only then  *)
(* lets Startup go on; so when the caller that closed the worker is the    *)
(* one that ended the node, no accepted request goes without its answer    *)
(* because of that end: each was handled before it, and was answered or    *)
(* failed for a reason of its own.  (A second caller waits for nothing,    *)
(* and may end the node under the first one.)                              *)
AcceptedAreAnswered ==
  cause = closer => accepted \subseteq answered \cup failed

(* application.go:238-245, worker.go:65-70: when Startup returns, and the  *)
(* process with it, no accepted request is unhandled or half handled,      *)
(* unless a call of Shutdown that came before it still waits for them.     *)
ExitIsClean ==
  mainPc = "done" => Drained \/ \E a \in DOMAIN stopPc : stopPc[a] \in {"closing", "waiting"}

(* application.go:206-247: a signal ends the node, whatever Shutdown and   *)
(* requests do meanwhile.  What can prevent it: a handler calls Shutdown.  *)
SignalEnds ==
  cause = "signal" ~> mainPc = "done" \/ crashed \/ HandlerStops

(* application.go:250-253: Shutdown ends the node.  What can prevent it:   *)
(* a handler calls it, or the keep-alive goroutine takes the message.      *)
ShutdownEnds ==
  \A a \in Callers : stopPc[a] = "closing" ~>
    mainPc = "done" \/ crashed \/ HandlerStops \/ etcd = "gone"

(* Both: a node that was told to end does.                                 *)
NodeEnds == SignalEnds /\ ShutdownEnds

(* facade/application.go:25 (Shutdown "closes the application instance").  *)
ShutdownCloses ==
  \A a \in Callers : stopPc[a] = "closing" ~> mainPc = "done" \/ crashed
===============================================================================
