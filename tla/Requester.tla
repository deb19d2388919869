------------------------------ MODULE Requester ------------------------------
(***************************************************************************)
(* Requests and answers between nodes: framework/pkg/cluster/requester.go, *)
(* with the handler that RegisterResponse installs (msg_handler.go:57-66), *)
(* the receive loop that posts answers to the worker (cluster.go:100-141)  *)
(* and the worker's goroutines, which run the callbacks.                   *)
(*                                                                         *)
(* A call is one RequestAsync or RequestWait.  The callback table is       *)
(* protected by a mutex, except that the closure built by getCallback      *)
(* reads it after the mutex is released: a write of the table is two steps *)
(* (Lock, then write and Unlock), so that this read can fall between them. *)
(*                                                                         *)
(* Outside the code: the answering node, which may answer a request never, *)
(* once or several times (Sender.Resp has no memory), and NATS, which may  *)
(* lose a message and orders nothing between different senders.            *)
(* The worker is reduced to what TaskQueue promises: a queue of tasks that *)
(* Runners take in order; a task that panics frees its runner.             *)
(***************************************************************************)
EXTENDS Integers, Sequences, FiniteSets

CONSTANTS
  Calls,        \* the requests this node makes
  WaitCalls,    \* those made with RequestWait
  NestedCalls,  \* the WaitCalls made by a handler, that is by a runner
  Panicky,      \* asynchronous calls whose callback may panic
  Silent,       \* asynchronous calls made with a nil callback
  Runners,      \* the worker's goroutines
  MidSpace,     \* message ids are numbers modulo MidSpace (2^32 in the code)
  MaxAnswers,   \* bound: how many answers a request gets at most
  NoCall, Nobody

ASSUME ConstantsOK ==
  /\ IsFiniteSet(Calls)
  /\ WaitCalls \subseteq Calls /\ NestedCalls \subseteq WaitCalls
  /\ Panicky \subseteq Calls \ WaitCalls /\ Silent \subseteq Calls \ WaitCalls
  /\ Runners \cap Calls = {}
  /\ MidSpace \in Nat /\ MaxAnswers \in Nat
  /\ NoCall \notin Calls
  /\ Nobody \notin Calls \cup Runners

(* An id is not used twice while the process lives.                        *)
ASSUME EnoughMids == Cardinality(Calls) < MidSpace

VARIABLES
  handlers,     \* p.handlers: message id -> the call whose callback it is
  mid,          \* p.mid
  lock,         \* who holds p.Mutex while writing handlers
  callPc,       \* where each call is
  midOf,        \* the message id a call was given
  replies,      \* how many answers to a call have been sent
  wire,         \* how many of them are in flight
  queue,        \* tasks posted to the worker
  runPc,        \* where each runner is
  runTask,      \* the task it is executing
  runCbk,       \* the call whose callback it found
  crashed,      \* the Go runtime has ended the process
  received      \* history: the answers a call's callback was executed with

netVars   == <<replies, wire>>
tableVars == <<handlers, mid, lock, midOf>>
runVars   == <<runPc, runTask, runCbk>>
vars == <<tableVars, netVars, runVars, callPc, queue, crashed, received>>

Mids == 0..(MidSpace - 1)

(* An answer is known by the call it answers: it carries that call's id.   *)
Answer(c)  == [kind |-> "answer", call |-> c]
Handler(c) == [kind |-> "handler", call |-> c]
NoTask     == [kind |-> "none", call |-> NoCall]
Tasks      == {Answer(c) : c \in Calls} \cup {Handler(c) : c \in NestedCalls}

Registered == {c \in Calls \ Silent : callPc[c] \notin {"idle", "posted", "locked"}}
Sent       == {c \in Calls : callPc[c] \in {"sent", "returned", "timedout"}}
Over       == {"failed", "returned", "timedout"}

Init ==
  /\ handlers = [m \in Mids |-> NoCall]
  /\ mid = 0 /\ lock = Nobody
  /\ callPc = [c \in Calls |-> "idle"]
  /\ midOf = [c \in Calls |-> 0]
  /\ replies = [c \in Calls |-> 0] /\ wire = [c \in Calls |-> 0]
  /\ queue = <<>>
  /\ runPc = [r \in Runners |-> "idle"]
  /\ runTask = [r \in Runners |-> NoTask]
  /\ runCbk = [r \in Runners |-> NoCall]
  /\ crashed = FALSE
  /\ received = [c \in Calls |-> <<>>]

-------------------------------------------------------------------------------
(* The caller: requestAsync and requestWait.                               *)

(* A request arrives whose handler calls RequestWait. *)
HandlerArrives(c) ==
  /\ c \in NestedCalls /\ callPc[c] = "idle"
  /\ callPc' = [callPc EXCEPT ![c] = "posted"]
  /\ queue' = Append(queue, Handler(c))
  /\ UNCHANGED <<tableVars, netVars, runVars, crashed, received>>

MayCall(c) ==
  IF c \in NestedCalls
  THEN callPc[c] = "posted" /\ \E r \in Runners : runTask[r] = Handler(c)
  ELSE callPc[c] = "idle"

(* registerCallback(nil): no entry, and the message id is 0. *)
RegisterNothing(c) ==
  /\ MayCall(c) /\ c \in Silent
  /\ callPc' = [callPc EXCEPT ![c] = "registered"]
  /\ UNCHANGED <<tableVars, netVars, runVars, queue, crashed, received>>

RegisterLock(c) ==
  /\ MayCall(c) /\ c \notin Silent
  /\ lock = Nobody
  /\ lock' = c
  /\ callPc' = [callPc EXCEPT ![c] = "locked"]
  /\ UNCHANGED <<handlers, mid, midOf, netVars, runVars, queue, crashed, received>>

RegisterAs(c, m) ==
  /\ callPc[c] = "locked"
  /\ mid' = m
  /\ handlers' = [handlers EXCEPT ![m] = c]
  /\ midOf' = [midOf EXCEPT ![c] = m]
  /\ lock' = Nobody
  /\ callPc' = [callPc EXCEPT ![c] = "registered"]
  /\ UNCHANGED <<netVars, runVars, queue, crashed, received>>

\* Faulty variant: the id is the size of the table, so released ids come back.
Register_BySize(c) ==
  RegisterAs(c, Cardinality({m \in Mids : handlers[m] # NoCall}) + 1)

Register(c) == RegisterAs(c, (mid + 1) % MidSpace)

(* SendBytes fails: the node is not running, or the target is unknown, or  *)
(* NATS refuses.  The table entry stays.                                   *)
SendFails(c) ==
  /\ callPc[c] = "registered"
  /\ callPc' = [callPc EXCEPT ![c] = "failed"]
  /\ UNCHANGED <<tableVars, netVars, runVars, queue, crashed, received>>

SendRequest(c) ==
  /\ callPc[c] = "registered"
  /\ callPc' = [callPc EXCEPT ![c] = "sent"]
  /\ UNCHANGED <<tableVars, netVars, runVars, queue, crashed, received>>

\* Faulty variant: the caller waits for the answer without a time limit.
Timeout_Never(c) == FALSE /\ UNCHANGED vars

(* requestWait gives up.  The table entry stays, and nobody will receive   *)
(* from ch any more.                                                       *)
Timeout(c) ==
  /\ callPc[c] = "sent" /\ c \in WaitCalls
  /\ callPc' = [callPc EXCEPT ![c] = "timedout"]
  /\ UNCHANGED <<tableVars, netVars, runVars, queue, crashed, received>>

-------------------------------------------------------------------------------
(* The network and the receive loop.                                       *)

(* One answer with the id 0 of a silent call shows what all of them do.    *)
Reply(c) ==
  /\ c \in Sent /\ replies[c] < MaxAnswers
  /\ c \in Silent => replies[c] = 0
  /\ replies' = [replies EXCEPT ![c] = @ + 1]
  /\ wire' = [wire EXCEPT ![c] = @ + 1]
  /\ UNCHANGED <<tableVars, runVars, callPc, queue, crashed, received>>

Lose(c) ==
  /\ wire[c] > 0
  /\ wire' = [wire EXCEPT ![c] = @ - 1]
  /\ UNCHANGED <<tableVars, replies, runVars, callPc, queue, crashed, received>>

Receive(c) ==
  /\ wire[c] > 0
  /\ wire' = [wire EXCEPT ![c] = @ - 1]
  /\ queue' = Append(queue, Answer(c))
  /\ UNCHANGED <<tableVars, replies, runVars, callPc, crashed, received>>

-------------------------------------------------------------------------------
(* The worker's goroutines.                                                *)

Take(r) ==
  /\ runPc[r] = "idle" /\ queue # <<>>
  /\ runTask' = [runTask EXCEPT ![r] = Head(queue)]
  /\ queue' = Tail(queue)
  /\ runPc' = [runPc EXCEPT ![r] = Head(queue).kind]
  /\ UNCHANGED <<tableVars, netVars, runCbk, callPc, crashed, received>>

Free(r) ==
  /\ runPc' = [runPc EXCEPT ![r] = "idle"]
  /\ runTask' = [runTask EXCEPT ![r] = NoTask]
  /\ runCbk' = [runCbk EXCEPT ![r] = NoCall]

(* The handler returns when its RequestWait has. *)
HandlerReturns(r) ==
  /\ runPc[r] = "handler"
  /\ callPc[runTask[r].call] \in Over
  /\ Free(r)
  /\ UNCHANGED <<tableVars, netVars, callPc, queue, crashed, received>>

(* getCallback takes the mutex and releases it without reading the table. *)
GetCallback(r) ==
  /\ runPc[r] = "answer"
  /\ lock = Nobody
  /\ runPc' = [runPc EXCEPT ![r] = "lookup"]
  /\ UNCHANGED <<tableVars, netVars, runTask, runCbk, callPc, queue, crashed, received>>

(* The call whose callback the closure then finds: p.handlers[mid].        *)
Found(r) == handlers[midOf[runTask[r].call]]

(* The closure reads the table while somebody may be writing it; Go ends   *)
(* the process when it notices ("concurrent map read and map write").      *)
ReadDuringWrite(r) ==
  /\ runPc[r] = "lookup"
  /\ lock # Nobody
  /\ crashed' = TRUE
  /\ UNCHANGED <<tableVars, netVars, runVars, callPc, queue, received>>

(* No entry: calling a nil function panics, and the worker recovers.       *)
CallbackMissing(r) ==
  /\ runPc[r] = "lookup" /\ Found(r) = NoCall
  /\ Free(r)
  /\ UNCHANGED <<tableVars, netVars, callPc, queue, crashed, received>>

(* The callback of RequestAsync runs.  If it panics, the entry stays.      *)
CallbackPanics(r) ==
  /\ runPc[r] = "lookup" /\ Found(r) \in Panicky
  /\ received' = [received EXCEPT ![Found(r)] = Append(@, runTask[r].call)]
  /\ Free(r)
  /\ UNCHANGED <<tableVars, netVars, callPc, queue, crashed>>

CallbackReturns(r) ==
  /\ runPc[r] = "lookup" /\ Found(r) \in Calls \ WaitCalls
  /\ received' = [received EXCEPT ![Found(r)] = Append(@, runTask[r].call)]
  /\ runPc' = [runPc EXCEPT ![r] = "called"]
  /\ runCbk' = [runCbk EXCEPT ![r] = Found(r)]
  /\ UNCHANGED <<tableVars, netVars, runTask, callPc, queue, crashed>>

(* The callback of RequestWait starts its send on the unbuffered channel.  *)
CallbackOffers(r) ==
  /\ runPc[r] = "lookup" /\ Found(r) \in WaitCalls
  /\ runPc' = [runPc EXCEPT ![r] = "offering"]
  /\ runCbk' = [runCbk EXCEPT ![r] = Found(r)]
  /\ UNCHANGED <<tableVars, netVars, runTask, callPc, queue, crashed, received>>

\* Faulty variant: the channel is buffered and holds answers nobody waits for.
Handover_Buffered(r) ==
  /\ runPc[r] = "offering"
  /\ callPc' = [callPc EXCEPT ![runCbk[r]] = IF @ = "sent" THEN "returned" ELSE @]
  /\ received' = [received EXCEPT ![runCbk[r]] = Append(@, runTask[r].call)]
  /\ runPc' = [runPc EXCEPT ![r] = "called"]
  /\ UNCHANGED <<tableVars, netVars, runTask, runCbk, queue, crashed>>

(* ... which needs requestWait to be in its select.                        *)
Handover(r) ==
  /\ runPc[r] = "offering"
  /\ callPc[runCbk[r]] = "sent"
  /\ callPc' = [callPc EXCEPT ![runCbk[r]] = "returned"]
  /\ received' = [received EXCEPT ![runCbk[r]] = Append(@, runTask[r].call)]
  /\ runPc' = [runPc EXCEPT ![r] = "called"]
  /\ UNCHANGED <<tableVars, netVars, runTask, runCbk, queue, crashed>>

UnregisterLock(r) ==
  /\ runPc[r] = "called"
  /\ lock = Nobody
  /\ lock' = r
  /\ runPc' = [runPc EXCEPT ![r] = "deleting"]
  /\ UNCHANGED <<handlers, mid, midOf, netVars, runTask, runCbk, callPc, queue, crashed, received>>

\* Faulty variant: the entry of the latest request is deleted.
Unregister_Latest(r) ==
  /\ runPc[r] = "deleting"
  /\ handlers' = [handlers EXCEPT ![mid] = NoCall]
  /\ lock' = Nobody
  /\ Free(r)
  /\ UNCHANGED <<mid, midOf, netVars, callPc, queue, crashed, received>>

\* Faulty variant: return without Unlock.
Unregister_KeepLock(r) ==
  /\ runPc[r] = "deleting"
  /\ handlers' = [handlers EXCEPT ![midOf[runTask[r].call]] = NoCall]
  /\ Free(r)
  /\ UNCHANGED <<mid, lock, midOf, netVars, callPc, queue, crashed, received>>

Unregister(r) ==
  /\ runPc[r] = "deleting"
  /\ handlers' = [handlers EXCEPT ![midOf[runTask[r].call]] = NoCall]
  /\ lock' = Nobody
  /\ Free(r)
  /\ UNCHANGED <<mid, midOf, netVars, callPc, queue, crashed, received>>

-------------------------------------------------------------------------------
CallStep(c) ==
  \/ RegisterNothing(c) \/ RegisterLock(c) \/ Register(c)
  \/ SendFails(c) \/ SendRequest(c) \/ Timeout(c)

NetStep(c) == Reply(c) \/ Lose(c) \/ Receive(c)

RunnerStep(r) ==
  \/ Take(r) \/ HandlerReturns(r) \/ GetCallback(r) \/ ReadDuringWrite(r)
  \/ CallbackMissing(r) \/ CallbackPanics(r) \/ CallbackReturns(r)
  \/ CallbackOffers(r) \/ Handover(r) \/ UnregisterLock(r) \/ Unregister(r)

(* The runner sends to a channel from which nobody will ever receive.      *)
Stuck(r) == runPc[r] = "offering" /\ callPc[runCbk[r]] \in Over

(* The process is over, or all calls have ended and the runners have       *)
(* nothing to do or can do nothing more.                                   *)
Terminated ==
  /\ \/ crashed
     \/ /\ lock = Nobody
        /\ \A c \in Calls :
             callPc[c] \in Over \cup {"posted"} \cup (IF c \in WaitCalls THEN {} ELSE {"sent"})
        /\ \A r \in Runners : Stuck(r) \/ (runPc[r] = "idle" /\ queue = <<>>)
  /\ UNCHANGED vars

Next ==
  \/ /\ ~crashed
     /\ \/ \E c \in Calls : HandlerArrives(c) \/ CallStep(c) \/ NetStep(c)
        \/ \E r \in Runners : RunnerStep(r)
  \/ Terminated

(* Goroutines keep running, timers fire, and a goroutine that asks for the *)
(* mutex again and again gets it (Go's mutex hands over to the longest     *)
(* waiter).  Answers need not come, and nobody is obliged to call.         *)
Fairness ==
  /\ \A c \in Calls :
       /\ WF_vars(~crashed /\ (Register(c) \/ SendFails(c) \/ SendRequest(c) \/ Timeout(c)))
       /\ SF_vars(~crashed /\ c \in NestedCalls /\ RegisterLock(c))
  /\ \A r \in Runners :
       /\ WF_vars(~crashed /\ RunnerStep(r))
       /\ SF_vars(~crashed /\ (GetCallback(r) \/ UnregisterLock(r)))

Spec == Init /\ [][Next]_vars /\ Fairness

-------------------------------------------------------------------------------
(* Properties.                                                             *)

(* Types, and the discipline of the mutex: its holder, and nobody else, is *)
(* between Lock and Unlock.                                                *)
TypeOK ==
  /\ handlers \in [Mids -> Calls \cup {NoCall}]
  /\ mid \in Mids
  /\ lock \in Calls \cup Runners \cup {Nobody}
  /\ \A c \in Calls : lock = c <=> callPc[c] = "locked"
  /\ \A r \in Runners : lock = r <=> runPc[r] = "deleting"
  /\ callPc \in [Calls -> {"idle", "posted", "locked", "registered", "sent",
                          "failed", "returned", "timedout"}]
  /\ midOf \in [Calls -> Mids]
  /\ replies \in [Calls -> 0..MaxAnswers] /\ wire \in [Calls -> 0..MaxAnswers]
  /\ queue \in Seq(Tasks)
  /\ runPc \in [Runners -> {"idle", "handler", "answer", "lookup", "offering",
                           "called", "deleting"}]
  /\ runTask \in [Runners -> Tasks \cup {NoTask}]
  /\ runCbk \in [Runners -> Calls \cup {NoCall}]
  /\ crashed \in BOOLEAN
  /\ received \in [Calls -> Seq(Calls)]

(* requester.go:32-55: whatever is answered late, twice or out of order, a *)
(* callback is only ever executed with an answer to its own request.       *)
Correlation ==
  \A c \in Calls : \A i \in 1..Len(received[c]) : received[c][i] = c

(* requester.go:70-95: RequestWait returns an answer exactly if its        *)
(* callback delivered one; after a timeout no answer is consumed.          *)
WaitOnce ==
  \A c \in WaitCalls : received[c] = IF callPc[c] = "returned" THEN <<c>> ELSE <<>>

(* requester.go:38-46: a callback is not lost before it has run, no matter *)
(* which other calls are registered and unregistered meanwhile.            *)
NoLostCallback ==
  \A c \in Registered : received[c] = <<>> => handlers[midOf[c]] = c

(* requester.go:48-55: a callback that has returned leaves the table, once *)
(* the runner that called it has finished.                                 *)
EntryReleased ==
  \A c \in Calls \ Panicky :
    received[c] # <<>> /\ (\A r \in Runners : runCbk[r] # c) => handlers[midOf[c]] # c

(* requester.go:32-55: an entry stays in the table until its callback has  *)
(* run, and no longer.                                                     *)
TableExact == NoLostCallback /\ EntryReleased

(* requester.go:70-95: RequestWait returns, also when it is called by a    *)
(* handler and no runner is left to receive the answer.                    *)
WaitReturns ==
  \A c \in WaitCalls : callPc[c] = "locked" ~> callPc[c] \in Over \/ crashed

Queued(c) == \E i \in 1..Len(queue) : queue[i] = Answer(c)

(* msg_handler.go:63-66: an answer that has reached the worker is handed   *)
(* to its callback.  What can prevent it: the process crashes, the caller  *)
(* has given up, or all runners are stuck with answers that came too late. *)
AnswersHandled ==
  \A c \in Calls \ Silent : Queued(c) ~>
    \/ received[c] # <<>>
    \/ callPc[c] \in Over
    \/ \A r \in Runners : Stuck(r)
    \/ crashed

(* requester.go:48-95: neither end of an exchange waits for ever.          *)
CallsProceed == WaitReturns /\ AnswersHandled
===============================================================================
