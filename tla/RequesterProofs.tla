--------------------------- MODULE RequesterProofs ---------------------------
(* Theorems about Requester.tla, for every number of calls and runners,    *)
(* every size of the id space and every number of answers.                 *)
EXTENDS Requester, FiniteSetTheorems, SequenceTheorems, TLAPS

(* Only calls with a callback register.  Ids are handed out in increasing  *)
(* order, and the table holds a call only under the id it was given.       *)
MidInv ==
  /\ \A c \in Silent : callPc[c] # "locked"
  /\ mid = Cardinality(Registered)
  /\ \A c \in Registered : midOf[c] \in 1..mid
  /\ \A c, d \in Registered : midOf[c] = midOf[d] => c = d
  /\ \A c \in Calls \ Registered : midOf[c] = 0
  /\ \A m \in Mids : handlers[m] # NoCall => handlers[m] \in Registered /\ midOf[handlers[m]] = m

(* Answers exist only for requests that were sent, on the wire and in the  *)
(* worker's queue.                                                         *)
WireInv ==
  \A c \in Calls : wire[c] <= replies[c] /\ (replies[c] > 0 => c \in Sent)

QueueInv ==
  \A i \in 1..Len(queue) : queue[i].kind = "answer" => queue[i].call \in Sent

(* What the task of a runner is follows from where the runner is, and the  *)
(* callback that it executes belongs to the call that is answered.         *)
RunnerInv(r) ==
  /\ runPc[r] \in {"answer", "lookup", "offering", "called", "deleting"} =>
       runTask[r].kind = "answer" /\ runTask[r].call \in Sent
  /\ runPc[r] = "handler" => runTask[r].kind = "handler"
  /\ runCbk[r] = IF runPc[r] \in {"offering", "called", "deleting"}
                 THEN runTask[r].call ELSE NoCall
  /\ runPc[r] \in {"offering", "called", "deleting"} => runCbk[r] \in Registered
  /\ runPc[r] \in {"called", "deleting"} => received[runCbk[r]] # <<>>
  /\ runPc[r] = "offering" => runCbk[r] \in WaitCalls

FlowInv ==
  /\ WireInv /\ QueueInv
  /\ \A r \in Runners : RunnerInv(r)
  /\ \A c \in Calls : received[c] # <<>> => c \in Registered

Inv == TypeOK /\ MidInv /\ FlowInv /\ Correlation /\ WaitOnce /\ NoLostCallback /\ EntryReleased

(* The tasks of the queue and the calls they belong to.                    *)
LEMMA AnswerTask ==
  ASSUME NEW c \in Calls
  PROVE  Answer(c) \in Tasks /\ Answer(c).kind = "answer" /\ Answer(c).call = c
BY DEF Tasks, Answer

LEMMA HandlerTask ==
  ASSUME NEW c \in NestedCalls
  PROVE  Handler(c) \in Tasks /\ Handler(c).kind = "handler"
BY DEF Tasks, Handler

LEMMA TaskType ==
  ASSUME NEW t \in Tasks
  PROVE  t.call \in Calls /\ t.kind \in {"answer", "handler"}
BY ConstantsOK DEF ConstantsOK, Tasks, Answer, Handler

LEMMA AppendNotEmpty ==
  ASSUME NEW S, NEW s \in Seq(S), NEW e \in S
  PROVE  Append(s, e) # <<>>
BY AppendProperties

LEMMA SmallMod ==
  ASSUME NEW x \in Nat, NEW y \in Nat, x < y
  PROVE  x % y = x
OBVIOUS

(* What Register does to ids and table: the id is new.                     *)
LEMMA NextMid ==
  ASSUME Inv, NEW c \in Calls, Register(c)
  PROVE  /\ mid \in Nat /\ mid' = mid + 1 /\ mid + 1 \in Mids
         /\ c \notin Registered /\ Registered' = Registered \cup {c}
         /\ mid' = Cardinality(Registered')
         /\ handlers' = [handlers EXCEPT ![mid + 1] = c]
         /\ midOf' = [midOf EXCEPT ![c] = mid + 1]
         /\ handlers[mid + 1] = NoCall
<1>1. c \notin Registered /\ c \notin Silent
  BY DEF Inv, TypeOK, MidInv, Register, RegisterAs, Registered
<1>2. Registered' = Registered \cup {c}
  BY <1>1 DEF Inv, TypeOK, Register, RegisterAs, Registered
<1>3. IsFiniteSet(Calls) /\ Registered \subseteq Calls /\ IsFiniteSet(Registered)
  BY ConstantsOK, FS_Subset DEF ConstantsOK, Registered
<1>4. /\ Cardinality(Registered) \in Nat
      /\ Cardinality(Registered') = Cardinality(Registered) + 1
  BY <1>1, <1>2, <1>3, FS_CardinalityType, FS_AddElement
<1>5. Cardinality(Registered') <= Cardinality(Calls) /\ Cardinality(Calls) \in Nat
  BY <1>2, <1>3, FS_Subset, FS_CardinalityType
<1>6. mid \in Nat /\ mid + 1 < MidSpace /\ MidSpace \in Nat
  BY <1>4, <1>5, EnoughMids, ConstantsOK DEF Inv, MidInv, ConstantsOK
<1>7. (mid + 1) % MidSpace = mid + 1
  BY <1>6, SmallMod
<1>8. mid + 1 \in Mids
  BY <1>6 DEF Mids
<1>9. handlers[mid + 1] = NoCall
  BY <1>6, <1>8 DEF Inv, MidInv
<1>. QED
  BY <1>1, <1>2, <1>4, <1>6, <1>7, <1>8, <1>9 DEF Inv, MidInv, Register, RegisterAs
(* What a step is.                                                         *)
LEMMA StepKinds ==
  ASSUME [Next]_vars
  PROVE  \/ \E c \in Calls : HandlerArrives(c) \/ CallStep(c)
         \/ \E c \in Calls : NetStep(c)
         \/ \E r \in Runners : RunnerStep(r)
         \/ UNCHANGED vars
BY DEF Next, Terminated

(* What a step of a caller leaves alone.                                   *)
LEMMA CallFrame ==
  ASSUME NEW c \in Calls, HandlerArrives(c) \/ CallStep(c)
  PROVE  /\ UNCHANGED <<replies, wire, runPc, runTask, runCbk, received>>
         /\ HandlerArrives(c) \/ UNCHANGED queue
         /\ Register(c) \/ UNCHANGED <<handlers, mid, midOf>>
<1>1. CASE HandlerArrives(c)
  BY <1>1 DEF HandlerArrives, tableVars, netVars, runVars
<1>2. CASE RegisterNothing(c)
  BY <1>2 DEF RegisterNothing, tableVars, netVars, runVars
<1>3. CASE RegisterLock(c)
  BY <1>3 DEF RegisterLock, netVars, runVars
<1>4. CASE Register(c)
  BY <1>4 DEF Register, RegisterAs, netVars, runVars
<1>5. CASE SendFails(c)
  BY <1>5 DEF SendFails, tableVars, netVars, runVars
<1>6. CASE SendRequest(c)
  BY <1>6 DEF SendRequest, tableVars, netVars, runVars
<1>7. CASE Timeout(c)
  BY <1>7 DEF Timeout, tableVars, netVars, runVars
<1>. QED
  BY <1>1, <1>2, <1>3, <1>4, <1>5, <1>6, <1>7 DEF CallStep

(* What a step of the network leaves alone.                                *)
LEMMA NetFrame ==
  ASSUME NEW c \in Calls, NetStep(c)
  PROVE  /\ UNCHANGED <<handlers, mid, midOf, runPc, runTask, runCbk, callPc, received>>
         /\ Receive(c) \/ UNCHANGED queue
<1>1. CASE Reply(c)
  BY <1>1 DEF Reply, tableVars, runVars
<1>2. CASE Lose(c)
  BY <1>2 DEF Lose, tableVars, runVars
<1>3. CASE Receive(c)
  BY <1>3 DEF Receive, tableVars, runVars
<1>. QED
  BY <1>1, <1>2, <1>3 DEF NetStep

(* A runner executes a callback.                                           *)
Executes(r) == CallbackPanics(r) \/ CallbackReturns(r) \/ Handover(r)

(* What a step of a runner leaves alone.                                   *)
LEMMA RunnerFrame ==
  ASSUME NEW r \in Runners, RunnerStep(r)
  PROVE  /\ UNCHANGED <<replies, wire, mid, midOf>>
         /\ Unregister(r) \/ UNCHANGED handlers
         /\ Take(r) \/ UNCHANGED queue
         /\ Handover(r) \/ UNCHANGED callPc
         /\ Executes(r) \/ UNCHANGED received
<1>1. CASE Take(r)
  BY <1>1 DEF Take, tableVars, netVars
<1>2. CASE HandlerReturns(r)
  BY <1>2 DEF HandlerReturns, tableVars, netVars
<1>3. CASE GetCallback(r)
  BY <1>3 DEF GetCallback, tableVars, netVars
<1>4. CASE ReadDuringWrite(r)
  BY <1>4 DEF ReadDuringWrite, tableVars, netVars
<1>5. CASE CallbackMissing(r)
  BY <1>5 DEF CallbackMissing, tableVars, netVars
<1>6. CASE CallbackPanics(r)
  BY <1>6 DEF Executes, CallbackPanics, tableVars, netVars
<1>7. CASE CallbackReturns(r)
  BY <1>7 DEF Executes, CallbackReturns, tableVars, netVars
<1>8. CASE CallbackOffers(r)
  BY <1>8 DEF CallbackOffers, tableVars, netVars
<1>9. CASE Handover(r)
  BY <1>9 DEF Executes, Handover, tableVars, netVars
<1>10. CASE UnregisterLock(r)
  BY <1>10 DEF UnregisterLock, netVars
<1>11. CASE Unregister(r)
  BY <1>11 DEF Unregister, netVars
<1>. QED
  BY <1>1, <1>2, <1>3, <1>4, <1>5, <1>6, <1>7, <1>8, <1>9, <1>10, <1>11 DEF RunnerStep

(* A step of a runner does not concern the others.                         *)
LEMMA OtherRunners ==
  ASSUME Inv, NEW r \in Runners, RunnerStep(r), NEW q \in Runners, q # r
  PROVE  runPc'[q] = runPc[q] /\ runTask'[q] = runTask[q] /\ runCbk'[q] = runCbk[q]
<1>0. /\ runPc = [x \in Runners |-> runPc[x]]
      /\ runTask = [x \in Runners |-> runTask[x]]
      /\ runCbk = [x \in Runners |-> runCbk[x]]
  BY DEF Inv, TypeOK
<1>1. CASE Take(r)
  BY <1>0, <1>1 DEF Take
<1>2. CASE HandlerReturns(r)
  BY <1>0, <1>2 DEF HandlerReturns, Free
<1>3. CASE GetCallback(r)
  BY <1>0, <1>3 DEF GetCallback
<1>4. CASE ReadDuringWrite(r)
  BY <1>4 DEF ReadDuringWrite, runVars
<1>5. CASE CallbackMissing(r)
  BY <1>0, <1>5 DEF CallbackMissing, Free
<1>6. CASE CallbackPanics(r)
  BY <1>0, <1>6 DEF CallbackPanics, Free
<1>7. CASE CallbackReturns(r)
  BY <1>0, <1>7 DEF CallbackReturns
<1>8. CASE CallbackOffers(r)
  BY <1>0, <1>8 DEF CallbackOffers
<1>9. CASE Handover(r)
  BY <1>0, <1>9 DEF Handover
<1>10. CASE UnregisterLock(r)
  BY <1>0, <1>10 DEF UnregisterLock
<1>11. CASE Unregister(r)
  BY <1>0, <1>11 DEF Unregister, Free
<1>. QED
  BY <1>1, <1>2, <1>3, <1>4, <1>5, <1>6, <1>7, <1>8, <1>9, <1>10, <1>11 DEF RunnerStep

(* How a caller moves: forward, to its end only by failing or giving up,   *)
(* and past its registration only with Register or without a callback.     *)
Early == {"idle", "posted", "locked"}

LEMMA CallerMoves ==
  ASSUME Inv, NEW c \in Calls, HandlerArrives(c) \/ CallStep(c)
  PROVE  /\ \A d \in Calls \ {c} : callPc'[d] = callPc[d]
         /\ callPc[c] \notin Over /\ callPc'[c] # "returned"
         /\ callPc[c] = "sent" => callPc'[c] = "timedout"
         /\ callPc'[c] = "locked" => c \notin Silent
         /\ Register(c) \/ c \in Silent \/ (callPc[c] \in Early <=> callPc'[c] \in Early)
         /\ callPc'[c] \in Early => callPc[c] \in Early
<1>0. /\ callPc = [d \in Calls |-> callPc[d]]
      /\ MayCall(c) => callPc[c] \in {"idle", "posted"}
  BY DEF Inv, TypeOK, MayCall
<1>1. CASE HandlerArrives(c)
  BY <1>0, <1>1 DEF HandlerArrives, Over, Early
<1>2. CASE RegisterNothing(c)
  BY <1>0, <1>2 DEF RegisterNothing, Over, Early
<1>3. CASE RegisterLock(c)
  BY <1>0, <1>3 DEF RegisterLock, Over, Early
<1>4. CASE Register(c)
  BY <1>0, <1>4 DEF Register, RegisterAs, Over, Early
<1>5. CASE SendFails(c)
  BY <1>0, <1>5 DEF SendFails, Over, Early
<1>6. CASE SendRequest(c)
  BY <1>0, <1>6 DEF SendRequest, Over, Early
<1>7. CASE Timeout(c)
  BY <1>0, <1>7 DEF Timeout, Over, Early
<1>. QED
  BY <1>1, <1>2, <1>3, <1>4, <1>5, <1>6, <1>7 DEF CallStep

(* RequestWait returns from the select.                                    *)
LEMMA HandoverMoves ==
  ASSUME Inv, NEW r \in Runners, Handover(r)
  PROVE  /\ runCbk[r] = runTask[r].call /\ runCbk[r] \in Registered
         /\ runCbk[r] \in WaitCalls /\ runCbk[r] \in Calls
         /\ callPc[runCbk[r]] = "sent" /\ callPc'[runCbk[r]] = "returned"
         /\ \A d \in Calls \ {runCbk[r]} : callPc'[d] = callPc[d]
<1>1. runPc[r] = "offering" /\ callPc[runCbk[r]] = "sent"
  BY DEF Handover
<1>2. runCbk[r] = runTask[r].call /\ runCbk[r] \in Registered /\ runCbk[r] \in WaitCalls
  BY <1>1 DEF Inv, FlowInv, RunnerInv
<1>3. runCbk[r] \in Calls
  BY <1>2 DEF Registered
<1>4. callPc = [d \in Calls |-> callPc[d]]
  BY DEF Inv, TypeOK
<1>5. callPc' = [callPc EXCEPT ![runCbk[r]] = "returned"]
  BY DEF Handover
<1>6. \A d \in Calls : callPc'[d] = IF d = runCbk[r] THEN "returned" ELSE callPc[d]
  BY <1>4, <1>5
<1>. QED
  BY <1>1, <1>2, <1>3, <1>6

(* Nothing is unsent and nothing unregistered.                             *)
LEMMA GrowStep ==
  ASSUME Inv, [Next]_vars
  PROVE  /\ Sent \subseteq Sent' /\ Registered \subseteq Registered'
         /\ Registered' = Registered \/ \E c \in Calls : Register(c)
         /\ \A c \in Silent : callPc'[c] # "locked"
<1>0. /\ \A c \in Silent : callPc[c] # "locked"
      /\ Silent \subseteq Calls
  BY ConstantsOK DEF Inv, MidInv, ConstantsOK
<1>1. CASE UNCHANGED callPc
  BY <1>0, <1>1 DEF Sent, Registered
<1>2. ASSUME NEW c \in Calls, HandlerArrives(c) \/ CallStep(c)
      PROVE  /\ Sent \subseteq Sent' /\ Registered \subseteq Registered'
             /\ Registered' = Registered \/ Register(c)
             /\ \A d \in Silent : callPc'[d] # "locked"
  <2>1. Sent \subseteq Sent'
    BY <1>2, CallerMoves DEF Sent, Over
  <2>2. Registered \subseteq Registered'
    BY <1>2, CallerMoves DEF Registered, Early
  <2>3. Registered' \subseteq Registered \/ Register(c)
    BY <1>2, CallerMoves DEF Registered, Early
  <2>4. \A d \in Silent : callPc'[d] # "locked"
    BY <1>0, <1>2, CallerMoves
  <2>. QED
    BY <2>1, <2>2, <2>3, <2>4
<1>3. ASSUME NEW r \in Runners, Handover(r)
      PROVE  /\ Sent \subseteq Sent' /\ Registered' = Registered
             /\ \A d \in Silent : callPc'[d] # "locked"
  <2>1. \A d \in Calls : \/ callPc'[d] = callPc[d]
                         \/ callPc[d] = "sent" /\ callPc'[d] = "returned"
    BY <1>3, HandoverMoves
  <2>. QED
    BY <1>0, <2>1 DEF Sent, Registered
<1>. QED
  BY <1>1, <1>2, <1>3, StepKinds, NetFrame, RunnerFrame DEF vars

(* What executing a callback does to the history.                          *)
LEMMA Delivered ==
  ASSUME Inv, NEW d \in Calls, NEW e \in Calls,
         received' = [received EXCEPT ![d] = Append(@, e)]
  PROVE  /\ received'[d] = Append(received[d], e) /\ received'[d] # <<>>
         /\ \A c \in Calls \ {d} : received'[c] = received[c]
         /\ \A c \in Calls : received[c] # <<>> => received'[c] # <<>>
<1>1. received[d] \in Seq(Calls) /\ received \in [Calls -> Seq(Calls)]
  BY DEF Inv, TypeOK
<1>2. Append(received[d], e) # <<>>
  BY <1>1, AppendNotEmpty
<1>. QED
  BY <1>1, <1>2

(* A runner that looks a callback up finds that of its answer, or none.    *)
LEMMA FoundOwn ==
  ASSUME Inv, NEW r \in Runners, runPc[r] = "lookup", Found(r) # NoCall
  PROVE  Found(r) = runTask[r].call /\ Found(r) \in Registered /\ Found(r) \in Calls
<1>1. runTask[r].call \in Sent /\ runTask[r].call \in Calls
  BY DEF Inv, FlowInv, RunnerInv, Sent
<1>2. midOf[runTask[r].call] \in Mids
  BY <1>1 DEF Inv, TypeOK
<1>3. Found(r) \in Registered /\ midOf[Found(r)] = midOf[runTask[r].call]
  BY <1>2 DEF Inv, MidInv, Found
<1>4. midOf[Found(r)] # 0
  BY <1>3 DEF Inv, MidInv
<1>5. runTask[r].call \in Registered
  BY <1>1, <1>3, <1>4 DEF Inv, MidInv
<1>. QED
  BY <1>3, <1>5 DEF Inv, MidInv, Registered

(* Executing a callback: it belongs to the call that is answered.          *)
LEMMA Execution ==
  ASSUME Inv, NEW r \in Runners, Executes(r)
  PROVE  /\ runTask[r].call \in Registered /\ runTask[r].call \in Calls
         /\ received' = [received EXCEPT ![runTask[r].call] = Append(@, runTask[r].call)]
         /\ UNCHANGED <<handlers, midOf>>
         /\ \/ CallbackPanics(r) /\ runTask[r].call \in Panicky
            \/ CallbackReturns(r) /\ runTask[r].call \notin WaitCalls
                 /\ runCbk'[r] = runTask[r].call
            \/ Handover(r) /\ runCbk[r] = runTask[r].call
                 /\ runCbk'[r] = runTask[r].call
<1>0. runCbk = [x \in Runners |-> runCbk[x]]
  BY DEF Inv, TypeOK
<1>1. CASE CallbackPanics(r)
  <2>1. Found(r) = runTask[r].call /\ Found(r) \in Registered /\ Found(r) \in Calls
    BY <1>1, FoundOwn, ConstantsOK DEF CallbackPanics, ConstantsOK
  <2>. QED
    BY <2>1, <1>1 DEF CallbackPanics, tableVars
<1>2. CASE CallbackReturns(r)
  <2>1. Found(r) = runTask[r].call /\ Found(r) \in Registered /\ Found(r) \in Calls
    BY <1>2, FoundOwn, ConstantsOK DEF CallbackReturns, ConstantsOK
  <2>. QED
    BY <2>1, <1>0, <1>2 DEF CallbackReturns, tableVars
<1>3. CASE Handover(r)
  BY <1>3, HandoverMoves DEF Handover, tableVars
<1>. QED
  BY <1>1, <1>2, <1>3 DEF Executes

(* Executed callbacks stay executed.                                       *)
LEMMA ReceivedGrows ==
  ASSUME Inv, [Next]_vars
  PROVE  \A d \in Calls : received[d] # <<>> => received'[d] # <<>>
<1>1. ASSUME NEW r \in Runners, Executes(r)
      PROVE  \A d \in Calls : received[d] # <<>> => received'[d] # <<>>
  BY <1>1, Execution, Delivered
<1>. QED
  BY <1>1, StepKinds, CallFrame, NetFrame, RunnerFrame DEF vars

(* The table of a step that neither registers nor unregisters.             *)
LEMMA TableKept ==
  ASSUME [Next]_vars, \A c \in Calls : ~Register(c), \A r \in Runners : ~Unregister(r)
  PROVE  UNCHANGED <<handlers, mid, midOf>>
BY StepKinds, CallFrame, NetFrame, RunnerFrame DEF vars, tableVars

(* The types of where callers and runners are, and the mutex's discipline. *)
PlaceOK ==
  /\ lock \in Calls \cup Runners \cup {Nobody} /\ crashed \in BOOLEAN
  /\ \A c \in Calls : lock = c <=> callPc[c] = "locked"
  /\ \A r \in Runners : lock = r <=> runPc[r] = "deleting"
  /\ callPc \in [Calls -> {"idle", "posted", "locked", "registered", "sent",
                          "failed", "returned", "timedout"}]
  /\ runPc \in [Runners -> {"idle", "handler", "answer", "lookup", "offering",
                           "called", "deleting"}]
  /\ runTask \in [Runners -> Tasks \cup {NoTask}]
  /\ runCbk \in [Runners -> Calls \cup {NoCall}]

LEMMA PlaceStep ==
  ASSUME Inv, [Next]_vars
  PROVE  PlaceOK'
<1>0. PlaceOK /\ Runners \cap Calls = {} /\ Nobody \notin Calls \cup Runners
  BY ConstantsOK DEF Inv, TypeOK, PlaceOK, ConstantsOK
<1>1. ASSUME NEW c \in Calls, HandlerArrives(c)
      PROVE  PlaceOK'
  BY <1>0, <1>1 DEF PlaceOK, HandlerArrives, tableVars, netVars, runVars
<1>2. ASSUME NEW c \in Calls, RegisterNothing(c)
      PROVE  PlaceOK'
  BY <1>0, <1>2 DEF PlaceOK, RegisterNothing, MayCall, tableVars, netVars, runVars
<1>3. ASSUME NEW c \in Calls, RegisterLock(c)
      PROVE  PlaceOK'
  BY <1>0, <1>3 DEF PlaceOK, RegisterLock, MayCall, netVars, runVars
<1>4. ASSUME NEW c \in Calls, Register(c)
      PROVE  PlaceOK'
  BY <1>0, <1>4 DEF PlaceOK, Register, RegisterAs, netVars, runVars
<1>5. ASSUME NEW c \in Calls, SendFails(c)
      PROVE  PlaceOK'
  BY <1>0, <1>5 DEF PlaceOK, SendFails, tableVars, netVars, runVars
<1>6. ASSUME NEW c \in Calls, SendRequest(c)
      PROVE  PlaceOK'
  BY <1>0, <1>6 DEF PlaceOK, SendRequest, tableVars, netVars, runVars
<1>7. ASSUME NEW c \in Calls, Timeout(c)
      PROVE  PlaceOK'
  BY <1>0, <1>7 DEF PlaceOK, Timeout, tableVars, netVars, runVars
<1>8. ASSUME NEW c \in Calls, NetStep(c)
      PROVE  PlaceOK'
  BY <1>0, <1>8 DEF PlaceOK, NetStep, Reply, Lose, Receive, tableVars, runVars
<1>9. ASSUME NEW r \in Runners, Take(r)
      PROVE  PlaceOK'
  <2>1. Head(queue) \in Tasks
    BY <1>9, HeadTailProperties DEF Inv, TypeOK, Take
  <2>2. Head(queue).kind \in {"answer", "handler"}
    BY <2>1, TaskType
  <2>. QED
    BY <1>0, <2>1, <2>2, <1>9 DEF PlaceOK, Take, tableVars
<1>10. ASSUME NEW r \in Runners, HandlerReturns(r)
      PROVE  PlaceOK'
  BY <1>0, <1>10 DEF PlaceOK, HandlerReturns, Free, tableVars
<1>11. ASSUME NEW r \in Runners, GetCallback(r)
      PROVE  PlaceOK'
  BY <1>0, <1>11 DEF PlaceOK, GetCallback, tableVars
<1>12. ASSUME NEW r \in Runners, ReadDuringWrite(r)
      PROVE  PlaceOK'
  BY <1>0, <1>12 DEF PlaceOK, ReadDuringWrite, tableVars, runVars
<1>13. ASSUME NEW r \in Runners, CallbackMissing(r)
      PROVE  PlaceOK'
  BY <1>0, <1>13 DEF PlaceOK, CallbackMissing, Free, tableVars
<1>14. ASSUME NEW r \in Runners, CallbackPanics(r)
      PROVE  PlaceOK'
  BY <1>0, <1>14 DEF PlaceOK, CallbackPanics, Free, tableVars
<1>15. ASSUME NEW r \in Runners, CallbackReturns(r)
      PROVE  PlaceOK'
  <2>1. Found(r) \in Calls
    BY <1>15, ConstantsOK DEF CallbackReturns, ConstantsOK
  <2>. QED
    BY <1>0, <2>1, <1>15 DEF PlaceOK, CallbackReturns, tableVars
<1>16. ASSUME NEW r \in Runners, CallbackOffers(r)
      PROVE  PlaceOK'
  <2>1. Found(r) \in Calls
    BY <1>16, ConstantsOK DEF CallbackOffers, ConstantsOK
  <2>. QED
    BY <1>0, <2>1, <1>16 DEF PlaceOK, CallbackOffers, tableVars
<1>17. ASSUME NEW r \in Runners, Handover(r)
      PROVE  PlaceOK'
  <2>1. runCbk[r] \in Calls
    BY <1>17, HandoverMoves
  <2>. QED
    BY <1>0, <2>1, <1>17 DEF PlaceOK, Handover, tableVars
<1>18. ASSUME NEW r \in Runners, UnregisterLock(r)
      PROVE  PlaceOK'
  BY <1>0, <1>18 DEF PlaceOK, UnregisterLock
<1>19. ASSUME NEW r \in Runners, Unregister(r)
      PROVE  PlaceOK'
  BY <1>0, <1>19 DEF PlaceOK, Unregister, Free
<1>20. CASE UNCHANGED vars
  BY <1>0, <1>20 DEF PlaceOK, vars, tableVars, runVars
<1>. QED
  BY <1>1, <1>2, <1>3, <1>4, <1>5, <1>6, <1>7, <1>8, <1>9, <1>10, <1>11, <1>12, <1>13,
     <1>14, <1>15, <1>16, <1>17, <1>18, <1>19, <1>20, StepKinds DEF CallStep, RunnerStep

(* Every step keeps the types and the discipline of the mutex.             *)
LEMMA TypeStep ==
  ASSUME Inv, [Next]_vars
  PROVE  TypeOK'
<1>1. handlers' \in [Mids -> Calls \cup {NoCall}] /\ mid' \in Mids /\ midOf' \in [Calls -> Mids]
  <2>0. handlers \in [Mids -> Calls \cup {NoCall}] /\ mid \in Mids /\ midOf \in [Calls -> Mids]
    BY DEF Inv, TypeOK
  <2>1. ASSUME NEW c \in Calls, Register(c)
        PROVE  /\ handlers' \in [Mids -> Calls \cup {NoCall}]
               /\ mid' \in Mids /\ midOf' \in [Calls -> Mids]
    <3>1. /\ mid + 1 \in Mids /\ mid' = mid + 1
          /\ handlers' = [handlers EXCEPT ![mid + 1] = c]
          /\ midOf' = [midOf EXCEPT ![c] = mid + 1]
      BY <2>1, NextMid
    <3>. QED
      BY <2>0, <3>1
  <2>2. ASSUME NEW r \in Runners, Unregister(r)
        PROVE  /\ handlers' \in [Mids -> Calls \cup {NoCall}]
               /\ mid' \in Mids /\ midOf' \in [Calls -> Mids]
    BY <2>0, <2>2 DEF Unregister
  <2>. QED
    BY <2>0, <2>1, <2>2, TableKept
<1>2. replies' \in [Calls -> 0..MaxAnswers] /\ wire' \in [Calls -> 0..MaxAnswers]
  <2>0. /\ replies \in [Calls -> 0..MaxAnswers] /\ wire \in [Calls -> 0..MaxAnswers]
        /\ MaxAnswers \in Nat
    BY ConstantsOK DEF Inv, TypeOK, ConstantsOK
  <2>1. ASSUME NEW c \in Calls, Reply(c)
        PROVE  replies' \in [Calls -> 0..MaxAnswers] /\ wire' \in [Calls -> 0..MaxAnswers]
    <3>1. replies[c] < MaxAnswers /\ wire[c] <= replies[c]
      BY <2>1 DEF Inv, FlowInv, WireInv, Reply
    <3>. QED
      BY <2>0, <2>1, <3>1 DEF Reply
  <2>2. ASSUME NEW c \in Calls, Lose(c) \/ Receive(c)
        PROVE  replies' \in [Calls -> 0..MaxAnswers] /\ wire' \in [Calls -> 0..MaxAnswers]
    BY <2>0, <2>2 DEF Lose, Receive
  <2>. QED
    BY <2>0, <2>1, <2>2, StepKinds, CallFrame, RunnerFrame DEF NetStep, vars, netVars
<1>3. queue' \in Seq(Tasks)
  <2>0. queue \in Seq(Tasks)
    BY DEF Inv, TypeOK
  <2>1. ASSUME NEW t \in Tasks, queue' = Append(queue, t)
        PROVE  queue' \in Seq(Tasks)
    BY <2>0, <2>1, AppendProperties
  <2>2. ASSUME NEW r \in Runners, Take(r)
        PROVE  queue' \in Seq(Tasks)
    BY <2>0, <2>2, HeadTailProperties DEF Take
  <2>3. ASSUME NEW c \in Calls, HandlerArrives(c)
        PROVE  queue' \in Seq(Tasks)
    BY <2>1, <2>3, HandlerTask DEF HandlerArrives
  <2>4. ASSUME NEW c \in Calls, Receive(c)
        PROVE  queue' \in Seq(Tasks)
    BY <2>1, <2>4, AnswerTask DEF Receive
  <2>. QED
    BY <2>0, <2>2, <2>3, <2>4, StepKinds, CallFrame, NetFrame, RunnerFrame DEF vars
<1>4. received' \in [Calls -> Seq(Calls)]
  <2>0. received \in [Calls -> Seq(Calls)]
    BY DEF Inv, TypeOK
  <2>1. ASSUME NEW r \in Runners, Executes(r)
        PROVE  received' \in [Calls -> Seq(Calls)]
    <3>1. /\ runTask[r].call \in Calls
          /\ received' = [received EXCEPT ![runTask[r].call] = Append(@, runTask[r].call)]
      BY <2>1, Execution
    <3>. QED
      BY <2>0, <3>1, AppendProperties
  <2>. QED
    BY <2>0, <2>1, StepKinds, CallFrame, NetFrame, RunnerFrame DEF vars
<1>. QED
  BY <1>1, <1>2, <1>3, <1>4, PlaceStep DEF TypeOK, PlaceOK

(* Every step keeps ids unique and the table consistent with them.         *)
LEMMA MidStep ==
  ASSUME Inv, [Next]_vars
  PROVE  MidInv'
<1>1. ASSUME NEW c \in Calls, Register(c)
      PROVE  MidInv'
  <2>0. /\ handlers = [m \in Mids |-> handlers[m]] /\ midOf = [d \in Calls |-> midOf[d]]
        /\ mid + 1 \in Mids /\ mid \in Nat /\ c \notin Registered
        /\ handlers' = [handlers EXCEPT ![mid + 1] = c]
        /\ midOf' = [midOf EXCEPT ![c] = mid + 1]
    BY <1>1, NextMid DEF Inv, TypeOK
  <2>1. \A d \in Registered : midOf[d] \in 1..mid
    BY DEF Inv, MidInv
  <2>2. /\ c \notin Registered /\ midOf'[c] = mid + 1 /\ mid \in Nat
        /\ \A d \in Calls \ {c} : midOf'[d] = midOf[d]
    BY <2>0
  <2>3. /\ Registered' = Registered \cup {c} /\ Registered \subseteq Calls
        /\ \A d \in Registered : midOf'[d] = midOf[d]
    BY <2>2, <1>1, NextMid DEF Registered
  <2>4. \A d \in Registered' : midOf'[d] \in 1..(mid + 1)
    BY <2>1, <2>2, <2>3
  <2>5. \A d, e \in Registered' : midOf'[d] = midOf'[e] => d = e
    <3>1. \A d, e \in Registered : midOf[d] = midOf[e] => d = e
      BY DEF Inv, MidInv
    <3>2. \A d \in Registered : midOf'[d] # midOf'[c]
      BY <2>1, <2>2, <2>3
    <3>. QED
      BY <3>1, <3>2, <2>3
  <2>6. \A d \in Calls \ Registered' : midOf'[d] = 0
    BY <2>2, <2>3 DEF Inv, MidInv
  <2>7. \A m \in Mids : handlers'[m] # NoCall =>
                       handlers'[m] \in Registered' /\ midOf'[handlers'[m]] = m
    <3>1. \A m \in Mids \ {mid + 1} : handlers'[m] = handlers[m]
      BY <2>0
    <3>2. handlers'[mid + 1] = c
      BY <2>0
    <3>3. \A m \in Mids : handlers[m] # NoCall =>
                         handlers[m] \in Registered /\ midOf[handlers[m]] = m
      BY DEF Inv, MidInv
    <3>4. TAKE m \in Mids
    <3>5. CASE m = mid + 1
      BY <3>2, <3>5, <2>2, <2>3
    <3>6. CASE m # mid + 1
      BY <3>1, <3>3, <3>6, <2>3
    <3>. QED
      BY <3>5, <3>6
  <2>8. \A d \in Silent : callPc'[d] # "locked"
    BY <1>1 DEF Inv, TypeOK, MidInv, Register, RegisterAs
  <2>. QED
    BY <2>2, <2>4, <2>5, <2>6, <2>7, <2>8, <1>1, NextMid DEF MidInv
<1>2. ASSUME NEW r \in Runners, Unregister(r), Registered' = Registered
      PROVE  MidInv'
  <2>1. UNCHANGED <<mid, midOf>>
    BY <1>2 DEF Unregister
  <2>2. /\ handlers = [m \in Mids |-> handlers[m]]
        /\ handlers' = [handlers EXCEPT ![midOf[runTask[r].call]] = NoCall]
    BY <1>2 DEF Inv, TypeOK, Unregister
  <2>3. \A m \in Mids : handlers'[m] \in {handlers[m], NoCall}
    BY <2>2
  <2>. QED
    BY <2>1, <2>3, <1>2, GrowStep DEF Inv, MidInv
<1>3. CASE UNCHANGED <<handlers, mid, midOf>> /\ Registered' = Registered
  BY <1>3, GrowStep DEF Inv, MidInv
<1>. QED
  BY <1>1, <1>2, <1>3, GrowStep, TableKept

(* No answer without a request: the network only loses messages.           *)
LEMMA WireStep ==
  ASSUME Inv, [Next]_vars
  PROVE  WireInv'
<1>1. ASSUME NEW c \in Calls, Reply(c)
      PROVE  WireInv'
  <2>1. ASSUME NEW d \in Calls
        PROVE  wire'[d] <= replies'[d] /\ (replies'[d] > 0 => d \in Sent')
    <3>1. /\ replies[d] \in Nat /\ wire[d] \in Nat /\ wire[d] <= replies[d]
          /\ replies[d] > 0 => d \in Sent
      BY ConstantsOK DEF Inv, TypeOK, FlowInv, WireInv, ConstantsOK
    <3>2. CASE d = c
      <4>1. replies'[d] = replies[d] + 1 /\ wire'[d] = wire[d] + 1 /\ d \in Sent
        BY <3>2, <1>1 DEF Inv, TypeOK, Reply
      <4>. QED
        BY <4>1, <3>1, GrowStep
    <3>3. CASE d # c
      <4>1. replies'[d] = replies[d] /\ wire'[d] = wire[d]
        BY <3>3, <1>1 DEF Inv, TypeOK, Reply
      <4>. QED
        BY <4>1, <3>1, GrowStep
    <3>. QED
      BY <3>2, <3>3
  <2>. QED
    BY <2>1 DEF WireInv
<1>2. ASSUME NEW c \in Calls, Lose(c) \/ Receive(c)
      PROVE  WireInv'
  <2>1. /\ wire[c] > 0 /\ wire' = [wire EXCEPT ![c] = @ - 1] /\ replies' = replies
        /\ wire \in [Calls -> 0..MaxAnswers] /\ replies \in [Calls -> 0..MaxAnswers]
    BY <1>2 DEF Inv, TypeOK, Lose, Receive
  <2>2. \A d \in Calls : wire'[d] <= wire[d] /\ wire[d] \in Nat /\ replies[d] \in Nat
    BY <2>1, ConstantsOK DEF ConstantsOK
  <2>3. \A d \in Calls : wire'[d] \in Int
    BY <2>1, <2>2
  <2>. QED
    BY <2>1, <2>2, <2>3, GrowStep DEF Inv, FlowInv, WireInv
<1>3. CASE UNCHANGED <<replies, wire>>
  BY <1>3, GrowStep DEF Inv, FlowInv, WireInv
<1>. QED
  BY <1>1, <1>2, <1>3, StepKinds, CallFrame, RunnerFrame DEF NetStep, vars, netVars

(* The receive loop posts only answers to requests that were sent.         *)
LEMMA QueueStep ==
  ASSUME Inv, [Next]_vars
  PROVE  QueueInv'
<1>1. ASSUME NEW c \in Calls, HandlerArrives(c)
      PROVE  QueueInv'
  <2>1. queue \in Seq(Tasks) /\ queue' = Append(queue, Handler(c)) /\ c \in NestedCalls
    BY <1>1 DEF Inv, TypeOK, HandlerArrives
  <2>2. /\ Len(queue') = Len(queue) + 1 /\ Len(queue) \in Nat
        /\ \A i \in 1..Len(queue) : queue'[i] = queue[i]
        /\ queue'[Len(queue) + 1] = Handler(c)
    BY <2>1, HandlerTask, AppendProperties
  <2>3. queue'[Len(queue) + 1].kind # "answer"
    BY <2>1, <2>2, HandlerTask
  <2>. QED
    BY <2>2, <2>3, GrowStep DEF Inv, FlowInv, QueueInv
<1>2. ASSUME NEW c \in Calls, Receive(c)
      PROVE  QueueInv'
  <2>1. queue \in Seq(Tasks) /\ queue' = Append(queue, Answer(c))
    BY <1>2 DEF Inv, TypeOK, Receive
  <2>2. /\ Len(queue') = Len(queue) + 1 /\ Len(queue) \in Nat
        /\ \A i \in 1..Len(queue) : queue'[i] = queue[i]
        /\ queue'[Len(queue) + 1] = Answer(c)
    BY <2>1, AnswerTask, AppendProperties
  <2>3. c \in Sent
    BY <1>2 DEF Inv, TypeOK, FlowInv, WireInv, Receive
  <2>4. queue'[Len(queue) + 1].call \in Sent
    BY <2>2, <2>3, AnswerTask
  <2>. QED
    BY <2>2, <2>4, GrowStep DEF Inv, FlowInv, QueueInv
<1>3. ASSUME NEW r \in Runners, Take(r)
      PROVE  QueueInv'
  <2>1. queue \in Seq(Tasks) /\ queue # <<>> /\ queue' = Tail(queue)
    BY <1>3 DEF Inv, TypeOK, Take
  <2>2. /\ Len(queue') = Len(queue) - 1 /\ Len(queue) \in Nat
        /\ \A i \in 1..Len(queue') : queue'[i] = queue[i + 1]
    BY <2>1, HeadTailProperties
  <2>. QED
    BY <2>2, GrowStep DEF Inv, FlowInv, QueueInv
<1>4. CASE UNCHANGED queue
  BY <1>4, GrowStep DEF Inv, FlowInv, QueueInv
<1>. QED
  BY <1>1, <1>2, <1>3, <1>4, StepKinds, CallFrame, NetFrame, RunnerFrame DEF vars

(* A runner that does not move keeps its invariant.                        *)
LEMMA RunnerKept ==
  ASSUME Inv, [Next]_vars, NEW q \in Runners,
         runPc'[q] = runPc[q], runTask'[q] = runTask[q], runCbk'[q] = runCbk[q]
  PROVE  RunnerInv(q)'
<1>1. RunnerInv(q)
  BY DEF Inv, FlowInv
<1>2. Registered \subseteq Calls
  BY DEF Registered
<1>. QED
  BY <1>1, <1>2, GrowStep, ReceivedGrows DEF RunnerInv

(* A runner's own step.                                                    *)
LEMMA RunnerMoves ==
  ASSUME Inv, [Next]_vars, NEW r \in Runners, RunnerStep(r)
  PROVE  RunnerInv(r)'
<1>0. /\ runPc = [x \in Runners |-> runPc[x]]
      /\ runTask = [x \in Runners |-> runTask[x]]
      /\ runCbk = [x \in Runners |-> runCbk[x]]
      /\ RunnerInv(r)
  BY DEF Inv, TypeOK, FlowInv
<1>1. CASE Take(r)
  <2>1. Head(queue) \in Tasks /\ Head(queue) = queue[1] /\ 1 \in 1..Len(queue)
    BY <1>1, HeadTailProperties DEF Inv, TypeOK, Take
  <2>2. /\ Head(queue).kind \in {"answer", "handler"}
        /\ Head(queue).kind = "answer" => Head(queue).call \in Sent
    BY <2>1, TaskType DEF Inv, FlowInv, QueueInv
  <2>3. /\ runPc'[r] = Head(queue).kind /\ runTask'[r] = Head(queue)
        /\ runCbk'[r] = NoCall
    BY <1>0, <1>1 DEF Take, RunnerInv
  <2>. QED
    BY <2>2, <2>3, GrowStep DEF RunnerInv
<1>2. CASE Free(r)
  <2>1. runPc'[r] = "idle" /\ runCbk'[r] = NoCall
    BY <1>0, <1>2 DEF Free
  <2>. QED
    BY <2>1 DEF RunnerInv
<1>3. CASE GetCallback(r)
  <2>1. /\ runPc[r] = "answer" /\ runPc'[r] = "lookup"
        /\ runTask'[r] = runTask[r] /\ runCbk'[r] = runCbk[r]
    BY <1>0, <1>3 DEF GetCallback
  <2>. QED
    BY <1>0, <2>1, GrowStep DEF RunnerInv
<1>4. CASE ReadDuringWrite(r)
  BY <1>4, RunnerKept DEF ReadDuringWrite, runVars
<1>5. CASE CallbackReturns(r)
  <2>1. /\ runPc[r] = "lookup" /\ runPc'[r] = "called"
        /\ runTask'[r] = runTask[r] /\ Executes(r)
    BY <1>0, <1>5 DEF CallbackReturns, Executes
  <2>2. /\ runTask[r].call \in Registered /\ runCbk'[r] = runTask[r].call
        /\ received'[runTask[r].call] # <<>>
    <3>1. ~Handover(r)
      BY <2>1 DEF Handover
    <3>2. ~CallbackPanics(r)
      BY <1>0, <2>1 DEF CallbackPanics, Free
    <3>. QED
      BY <2>1, <3>1, <3>2, Execution, Delivered
  <2>. QED
    BY <1>0, <2>1, <2>2, GrowStep DEF RunnerInv
<1>6. CASE CallbackOffers(r)
  <2>1. /\ runPc[r] = "lookup" /\ runPc'[r] = "offering" /\ runTask'[r] = runTask[r]
        /\ runCbk'[r] = Found(r) /\ Found(r) \in WaitCalls
    BY <1>0, <1>6 DEF CallbackOffers
  <2>2. Found(r) = runTask[r].call /\ Found(r) \in Registered
    BY <2>1, FoundOwn, ConstantsOK DEF ConstantsOK
  <2>. QED
    BY <1>0, <2>1, <2>2, GrowStep DEF RunnerInv
<1>7. CASE Handover(r)
  <2>1. /\ runPc[r] = "offering" /\ runPc'[r] = "called" /\ Executes(r)
        /\ runTask'[r] = runTask[r] /\ runCbk'[r] = runCbk[r]
    BY <1>0, <1>7 DEF Handover, Executes
  <2>2. runCbk[r] = runTask[r].call /\ received'[runTask[r].call] # <<>>
    BY <2>1, <1>7, HandoverMoves, Execution, Delivered
  <2>. QED
    BY <1>0, <2>1, <2>2, GrowStep DEF RunnerInv
<1>8. CASE UnregisterLock(r)
  <2>1. /\ runPc[r] = "called" /\ runPc'[r] = "deleting"
        /\ runTask'[r] = runTask[r] /\ runCbk'[r] = runCbk[r]
    BY <1>0, <1>8 DEF UnregisterLock
  <2>2. runCbk[r] \in Calls
    BY <1>0, <2>1 DEF RunnerInv, Registered
  <2>. QED
    BY <1>0, <2>1, <2>2, GrowStep, ReceivedGrows DEF RunnerInv
<1>. QED
  BY <1>1, <1>2, <1>3, <1>4, <1>5, <1>6, <1>7, <1>8
     DEF RunnerStep, HandlerReturns, CallbackMissing, CallbackPanics, Unregister

(* What a runner executes stays what its task says.                        *)
LEMMA RunnerInvStep ==
  ASSUME Inv, [Next]_vars
  PROVE  (\A q \in Runners : RunnerInv(q))'
<1>1. SUFFICES ASSUME NEW q \in Runners
               PROVE  RunnerInv(q)'
  OBVIOUS
<1>2. ASSUME NEW r \in Runners, RunnerStep(r)
      PROVE  RunnerInv(q)'
  <2>1. CASE q = r
    BY <1>2, <2>1, RunnerMoves
  <2>2. CASE q # r
    BY <1>2, <2>2, OtherRunners, RunnerKept
  <2>. QED
    BY <2>1, <2>2
<1>3. CASE UNCHANGED <<runPc, runTask, runCbk>>
  BY <1>3, RunnerKept
<1>. QED
  BY <1>2, <1>3, StepKinds, CallFrame, NetFrame DEF vars, runVars

(* Only registered callbacks are executed, and only with their own answer. *)
LEMMA ReceivedStep ==
  ASSUME Inv, [Next]_vars
  PROVE  (\A d \in Calls : received[d] # <<>> => d \in Registered)' /\ Correlation'
<1>1. ASSUME NEW r \in Runners, Executes(r)
      PROVE  (\A d \in Calls : received[d] # <<>> => d \in Registered)' /\ Correlation'
  <2>1. ASSUME NEW d \in Calls
        PROVE  /\ received'[d] # <<>> => d \in Registered'
               /\ \A i \in 1..Len(received'[d]) : received'[d][i] = d
    <3>1. /\ received[d] \in Seq(Calls) /\ \A i \in 1..Len(received[d]) : received[d][i] = d
          /\ received[d] # <<>> => d \in Registered
      BY DEF Inv, TypeOK, Correlation, FlowInv
    <3>2. CASE d = runTask[r].call
      <4>1. received'[d] = Append(received[d], d) /\ d \in Registered
        BY <3>2, <1>1, Execution, Delivered
      <4>2. /\ Len(received'[d]) = Len(received[d]) + 1 /\ Len(received[d]) \in Nat
            /\ \A i \in 1..Len(received[d]) : received'[d][i] = received[d][i]
            /\ received'[d][Len(received[d]) + 1] = d
        BY <3>1, <4>1, AppendProperties
      <4>. QED
        BY <3>1, <4>1, <4>2, GrowStep
    <3>3. CASE d # runTask[r].call
      <4>1. received'[d] = received[d]
        BY <3>3, <1>1, Execution, Delivered
      <4>. QED
        BY <3>1, <4>1, GrowStep
    <3>. QED
      BY <3>2, <3>3
  <2>. QED
    BY <2>1 DEF Correlation
<1>2. CASE UNCHANGED received
  BY <1>2, GrowStep DEF Inv, FlowInv, Correlation
<1>. QED
  BY <1>1, <1>2, StepKinds, CallFrame, NetFrame, RunnerFrame DEF vars

(* RequestWait returns with the answer that its callback delivers.         *)
LEMMA WaitStep ==
  ASSUME Inv, [Next]_vars
  PROVE  WaitOnce'
<1>0. WaitCalls \subseteq Calls /\ Panicky \cap WaitCalls = {}
  BY ConstantsOK DEF ConstantsOK
<1>1. ASSUME NEW c \in Calls, HandlerArrives(c) \/ CallStep(c)
      PROVE  WaitOnce'
  <2>1. \A d \in Calls : callPc'[d] = "returned" <=> callPc[d] = "returned"
    BY <1>1, CallerMoves DEF Over
  <2>2. received' = received
    BY <1>1, CallFrame
  <2>. QED
    BY <1>0, <2>1, <2>2 DEF Inv, WaitOnce
<1>2. ASSUME NEW r \in Runners, Handover(r)
      PROVE  WaitOnce'
  <2>1. received[runCbk[r]] = <<>>
    BY <1>2, HandoverMoves DEF Inv, WaitOnce
  <2>2. received'[runCbk[r]] = Append(<<>>, runCbk[r])
    BY <1>2, <2>1, HandoverMoves, Execution, Delivered DEF Executes
  <2>3. \A d \in Calls \ {runCbk[r]} : received'[d] = received[d] /\ callPc'[d] = callPc[d]
    BY <1>2, HandoverMoves, Execution, Delivered DEF Executes
  <2>4. Append(<<>>, runCbk[r]) = <<runCbk[r]>>
    OBVIOUS
  <2>. SUFFICES ASSUME NEW d \in WaitCalls
                PROVE  received'[d] = IF callPc'[d] = "returned" THEN <<d>> ELSE <<>>
    BY DEF WaitOnce
  <2>5. CASE d = runCbk[r]
    BY <1>2, <2>2, <2>4, <2>5, HandoverMoves
  <2>6. CASE d # runCbk[r]
    BY <1>0, <2>3, <2>6 DEF Inv, WaitOnce
  <2>. QED
    BY <2>5, <2>6
<1>3. ASSUME NEW r \in Runners, CallbackPanics(r) \/ CallbackReturns(r)
      PROVE  WaitOnce'
  <2>1. runPc[r] = "lookup" /\ callPc' = callPc /\ Executes(r)
    BY <1>3 DEF CallbackPanics, CallbackReturns, Executes
  <2>2. ~Handover(r)
    BY <2>1 DEF Handover
  <2>3. runTask[r].call \in Calls \ WaitCalls
    BY <1>0, <2>1, <2>2, Execution
  <2>4. \A d \in WaitCalls : received'[d] = received[d]
    BY <1>0, <2>1, <2>3, Execution, Delivered
  <2>. QED
    BY <2>1, <2>4 DEF Inv, WaitOnce
<1>4. CASE UNCHANGED <<callPc, received>>
  BY <1>4 DEF Inv, WaitOnce
<1>. QED
  BY <1>1, <1>2, <1>3, <1>4, StepKinds, NetFrame, RunnerFrame DEF Executes, vars

(* Only the runner that executed a callback deletes it.                    *)
LEMMA NoLostStep ==
  ASSUME Inv, [Next]_vars
  PROVE  NoLostCallback'
<1>1. ASSUME NEW c \in Calls, Register(c)
      PROVE  NoLostCallback'
  <2>1. /\ handlers' = [handlers EXCEPT ![mid + 1] = c] /\ mid + 1 \in Mids
        /\ midOf' = [midOf EXCEPT ![c] = mid + 1] /\ Registered' = Registered \cup {c}
        /\ mid \in Nat
    BY <1>1, NextMid
  <2>2. ASSUME NEW d \in Registered', received'[d] = <<>>
        PROVE  handlers'[midOf'[d]] = d
    <3>1. CASE d = c
      BY <2>1, <3>1 DEF Inv, TypeOK
    <3>2. CASE d # c
      <4>1. d \in Registered /\ d \in Calls /\ midOf'[d] = midOf[d]
        BY <2>1, <3>2 DEF Inv, TypeOK, Registered
      <4>2. midOf[d] \in 1..mid /\ midOf[d] \in Mids /\ handlers[midOf[d]] = d
        BY <4>1, <2>2, ReceivedGrows DEF Inv, TypeOK, MidInv, NoLostCallback
      <4>3. midOf[d] # mid + 1
        BY <4>2, <2>1
      <4>. QED
        BY <2>1, <4>1, <4>2, <4>3 DEF Inv, TypeOK
    <3>. QED
      BY <3>1, <3>2
  <2>. QED
    BY <2>2 DEF NoLostCallback
<1>2. ASSUME NEW r \in Runners, Unregister(r), Registered' = Registered
      PROVE  NoLostCallback'
  <2>1. runTask[r].call \in Registered /\ received[runTask[r].call] # <<>>
    BY <1>2 DEF Inv, FlowInv, RunnerInv, Unregister
  <2>2. ASSUME NEW d \in Registered, received'[d] = <<>>
        PROVE  handlers'[midOf'[d]] = d
    <3>1. handlers[midOf[d]] = d /\ d # runTask[r].call /\ midOf'[d] = midOf[d]
      BY <2>1, <2>2, <1>2, ReceivedGrows DEF Inv, NoLostCallback, Registered, Unregister
    <3>2. midOf[d] # midOf[runTask[r].call] /\ midOf[d] \in Mids
      BY <2>1, <3>1 DEF Inv, TypeOK, MidInv, Registered
    <3>. QED
      BY <3>1, <3>2, <1>2 DEF Inv, TypeOK, Unregister
  <2>. QED
    BY <1>2, <2>2 DEF NoLostCallback
<1>3. CASE UNCHANGED <<handlers, mid, midOf>> /\ Registered' = Registered
  <2>1. Registered \subseteq Calls
    BY DEF Registered
  <2>. QED
    BY <1>3, <2>1, ReceivedGrows DEF Inv, NoLostCallback
<1>. QED
  BY <1>1, <1>2, <1>3, GrowStep, TableKept

(* Only Unregister makes a runner forget the callback it executes.         *)
LEMMA CallbackKept ==
  ASSUME Inv, [Next]_vars, NEW q \in Runners, ~Unregister(q), runCbk[q] # NoCall
  PROVE  runCbk'[q] = runCbk[q]
<1>1. runPc[q] \in {"offering", "called", "deleting"}
  BY DEF Inv, FlowInv, RunnerInv
<1>2. CASE RunnerStep(q)
  <2>1. Handover(q) \/ UnregisterLock(q) \/ ReadDuringWrite(q)
    BY <1>1, <1>2 DEF RunnerStep, Take, HandlerReturns, GetCallback, CallbackMissing,
       CallbackPanics, CallbackReturns, CallbackOffers
  <2>. QED
    BY <2>1 DEF Handover, UnregisterLock, ReadDuringWrite, runVars
<1>3. ASSUME NEW r \in Runners, RunnerStep(r), r # q
      PROVE  runCbk'[q] = runCbk[q]
  BY <1>3, OtherRunners
<1>. QED
  BY <1>2, <1>3, StepKinds, CallFrame, NetFrame DEF vars, runVars

(* A callback that returned stays out of the table.                        *)
LEMMA EntryStep ==
  ASSUME Inv, [Next]_vars
  PROVE  EntryReleased'
<1>1. ASSUME NEW c \in Calls, Register(c)
      PROVE  EntryReleased'
  <2>1. /\ handlers' = [handlers EXCEPT ![mid + 1] = c] /\ mid + 1 \in Mids
        /\ midOf' = [midOf EXCEPT ![c] = mid + 1] /\ c \notin Registered
        /\ mid \in Nat /\ received' = received /\ runCbk' = runCbk
    BY <1>1, NextMid DEF Register, RegisterAs, runVars
  <2>2. ASSUME NEW d \in Calls \ Panicky, received[d] # <<>>,
               \A q \in Runners : runCbk[q] # d
        PROVE  handlers'[midOf'[d]] # d
    <3>1. d \in Registered /\ d # c /\ handlers[midOf[d]] # d
      BY <2>1, <2>2 DEF Inv, FlowInv, EntryReleased
    <3>2. midOf[d] \in 1..mid /\ midOf[d] \in Mids /\ midOf'[d] = midOf[d]
      BY <2>1, <3>1 DEF Inv, TypeOK, MidInv
    <3>3. midOf[d] # mid + 1
      BY <2>1, <3>2
    <3>. QED
      BY <2>1, <3>1, <3>2, <3>3 DEF Inv, TypeOK
  <2>. QED
    BY <2>1, <2>2 DEF EntryReleased
<1>2. ASSUME NEW r \in Runners, Unregister(r)
      PROVE  EntryReleased'
  <2>1. /\ runCbk[r] = runTask[r].call /\ runCbk[r] \in Registered /\ runCbk[r] \in Calls
        /\ midOf[runCbk[r]] \in Mids
    BY <1>2 DEF Inv, TypeOK, FlowInv, RunnerInv, Registered, Unregister
  <2>2. /\ handlers' = [handlers EXCEPT ![midOf[runCbk[r]]] = NoCall]
        /\ runCbk' = [runCbk EXCEPT ![r] = NoCall]
        /\ midOf' = midOf /\ received' = received
    BY <2>1, <1>2 DEF Unregister, Free
  <2>3. ASSUME NEW d \in Calls \ Panicky, received[d] # <<>>,
               \A q \in Runners : runCbk'[q] # d
        PROVE  handlers'[midOf[d]] # d
    <3>1. midOf[d] \in Mids /\ d # NoCall
      BY ConstantsOK DEF Inv, TypeOK, ConstantsOK
    <3>2. CASE d = runCbk[r]
      BY <2>1, <2>2, <3>1, <3>2 DEF Inv, TypeOK
    <3>3. CASE d # runCbk[r]
      <4>1. \A q \in Runners : runCbk[q] # d
        BY <2>2, <2>3, <3>3 DEF Inv, TypeOK
      <4>2. handlers[midOf[d]] # d
        BY <2>3, <4>1 DEF Inv, EntryReleased
      <4>. QED
        BY <2>1, <2>2, <3>1, <4>2 DEF Inv, TypeOK
    <3>. QED
      BY <3>2, <3>3
  <2>. QED
    BY <2>2, <2>3 DEF EntryReleased
<1>3. ASSUME UNCHANGED <<handlers, mid, midOf>>, \A r \in Runners : ~Unregister(r)
      PROVE  EntryReleased'
  <2>1. ASSUME NEW d \in Calls \ Panicky, received'[d] # <<>>,
               \A q \in Runners : runCbk'[q] # d
        PROVE  handlers'[midOf'[d]] # d
    <3>1. d # NoCall /\ \A q \in Runners : runCbk[q] # d
      BY <1>3, <2>1, CallbackKept, ConstantsOK DEF ConstantsOK
    <3>2. ASSUME NEW r \in Runners, Executes(r)
          PROVE  received'[d] = received[d]
      <4>1. d # runTask[r].call
        BY <2>1, <3>2, Execution
      <4>. QED
        BY <3>2, <4>1, Execution, Delivered
    <3>3. received[d] # <<>>
      BY <2>1, <3>2, StepKinds, CallFrame, NetFrame, RunnerFrame DEF vars
    <3>. QED
      BY <1>3, <3>1, <3>3 DEF Inv, EntryReleased
  <2>. QED
    BY <2>1 DEF EntryReleased
<1>. QED
  BY <1>1, <1>2, <1>3, TableKept

(* The invariant that the properties below follow from.                    *)
THEOREM Invariance == Spec => []Inv
<1>1. Init => Inv
  <2>1. ASSUME Init
        PROVE  TypeOK
    <3>1. 0 \in Mids /\ MaxAnswers \in Nat /\ 0 \in 0..MaxAnswers
      BY ConstantsOK, EnoughMids, FS_CardinalityType DEF Mids, ConstantsOK
    <3>2. /\ \A c \in Calls : lock # c
          /\ \A r \in Runners : lock # r
      BY <2>1, ConstantsOK DEF Init, ConstantsOK
    <3>3. handlers \in [Mids -> Calls \cup {NoCall}] /\ midOf \in [Calls -> Mids]
      BY <2>1, <3>1 DEF Init
    <3>4. replies \in [Calls -> 0..MaxAnswers] /\ wire \in [Calls -> 0..MaxAnswers]
      BY <2>1, <3>1 DEF Init
    <3>5. queue \in Seq(Tasks) /\ received \in [Calls -> Seq(Calls)]
      BY <2>1 DEF Init
    <3>6. /\ runTask \in [Runners -> Tasks \cup {NoTask}]
          /\ runCbk \in [Runners -> Calls \cup {NoCall}]
      BY <2>1 DEF Init
    <3>7. /\ \A c \in Calls : lock = c <=> callPc[c] = "locked"
          /\ \A r \in Runners : lock = r <=> runPc[r] = "deleting"
      BY <2>1, <3>2 DEF Init
    <3>8. /\ mid \in Mids /\ lock \in Calls \cup Runners \cup {Nobody} /\ crashed \in BOOLEAN
          /\ callPc \in [Calls -> {"idle", "posted", "locked", "registered", "sent",
                                   "failed", "returned", "timedout"}]
          /\ runPc \in [Runners -> {"idle", "handler", "answer", "lookup", "offering",
                                    "called", "deleting"}]
      BY <2>1, <3>1 DEF Init
    <3>. QED
      BY <3>3, <3>4, <3>5, <3>6, <3>7, <3>8 DEF TypeOK
  <2>2. ASSUME Init
        PROVE  MidInv
    <3>1. Registered = {}
      BY <2>2 DEF Init, Registered
    <3>2. Cardinality(Registered) = 0
      BY <3>1, FS_EmptySet
    <3>. QED
      BY <2>2, <3>1, <3>2, ConstantsOK DEF Init, MidInv, ConstantsOK
  <2>3. ASSUME Init
        PROVE  FlowInv
    BY <2>3, ConstantsOK DEF Init, FlowInv, WireInv, QueueInv, RunnerInv, ConstantsOK
  <2>4. ASSUME Init
        PROVE  Correlation /\ WaitOnce /\ NoLostCallback /\ EntryReleased
    BY <2>4, ConstantsOK
       DEF Init, Correlation, WaitOnce, NoLostCallback, EntryReleased, Registered,
           ConstantsOK
  <2>. QED
    BY <2>1, <2>2, <2>3, <2>4 DEF Inv
<1>2. Inv /\ [Next]_vars => Inv'
  <2>1. SUFFICES ASSUME Inv, [Next]_vars
                 PROVE  Inv'
    OBVIOUS
  <2>2. FlowInv'
    BY <2>1, WireStep, QueueStep, RunnerInvStep, ReceivedStep DEF FlowInv
  <2>. QED
    BY <2>1, <2>2, TypeStep, MidStep, ReceivedStep, WaitStep, NoLostStep, EntryStep
       DEF Inv
<1>. QED
  BY <1>1, <1>2, PTL DEF Spec

(* The types, and that only the holder of the mutex is between Lock and     *)
(* Unlock (requester.go:33-47).                                            *)
THEOREM TypeCorrect == Spec => []TypeOK
<1>1. Inv => TypeOK
  BY DEF Inv
<1>. QED
  BY Invariance, <1>1, PTL

(* A callback only gets the answer to its own request, however answers are *)
(* delayed, repeated or lost (requester.go:32-55).                         *)
THEOREM AnswersMatchRequests == Spec => []Correlation
<1>1. Inv => Correlation
  BY DEF Inv
<1>. QED
  BY Invariance, <1>1, PTL

(* RequestWait returns an answer exactly if one was handed over, and after *)
(* a timeout none is (requester.go:70-95).                                 *)
THEOREM WaitGetsItsAnswer == Spec => []WaitOnce
<1>1. Inv => WaitOnce
  BY DEF Inv
<1>. QED
  BY Invariance, <1>1, PTL

(* No other request deletes or replaces a callback that has not run, and   *)
(* one that returned is out of the table when its runner is done           *)
(* (requester.go:32-55).                                                   *)
THEOREM TableIsExact == Spec => []TableExact
<1>1. Inv => TableExact
  BY DEF Inv, TableExact
<1>. QED
  BY Invariance, <1>1, PTL

===============================================================================
