----------------------------- MODULE WorkerProofs -----------------------------
(* Theorems about Worker.tla, for every number of posters, runners and     *)
(* stoppers, every capacity and every choice of panicking tasks.           *)
EXTENDS Worker, FiniteSetTheorems, SequenceTheorems, TLAPS

(* What each program counter says about the rest of the state.             *)
PcInv ==
  /\ \A g \in Goroutines : postPc[g] # "idle" => postArg[g] \in Tasks
  /\ \A r \in Runners : postPc[r] # "idle" => runPc[r] = "running"
  /\ \A r \in Busy : runArg[r] \in Tasks
  /\ \A r \in Runners : runPc[r] = "exited" => chClosed /\ fs = <<>>
  /\ \A s \in Stoppers : stopPc[s] \in {"closing", "waiting", "drained"} => AllStarted
  /\ \A s \in Stoppers : stopPc[s] \in {"waiting", "drained"} => chClosed

(* No task is lost: what entered the channel is in it, being executed, or done. *)
Accounted == sent = Queued \cup InHand \cup ran

(* No task is in two places, in one place twice, or still about to be sent *)
(* after it was sent.                                                      *)
Once ==
  /\ \A i, j \in 1..Len(fs) : fs[i] = fs[j] => i = j
  /\ \A r, q \in Busy : runArg[r] = runArg[q] => r = q
  /\ Queued \cap InHand = {}
  /\ ran \cap (Queued \cup InHand) = {}
  /\ sent \subseteq posted
  /\ \A g \in Goroutines : postPc[g] # "idle" => postArg[g] \in posted \ sent
  /\ \A g, h \in Goroutines :
       postPc[g] # "idle" /\ postPc[h] # "idle" /\ postArg[g] = postArg[h] => g = h

Inv == TypeOK /\ PcInv /\ WgExact /\ LenExact /\ Accounted /\ Once /\ StopDrains
(* Finite sets that the wait group and Len() count.                         *)
LEMMA Finite ==
  /\ IsFiniteSet(Goroutines) /\ IsFiniteSet(Live)
  /\ IsFiniteSet(Sending) /\ IsFiniteSet(Taking)
<1>1. IsFiniteSet(Goroutines)
  BY ConstantsOK, FS_Union DEF ConstantsOK, Goroutines
<1>2. Live \subseteq Runners /\ Taking \subseteq Runners /\ Sending \subseteq Goroutines
  BY DEF Live, Taking, Sending
<1>. QED
  BY <1>1, <1>2, ConstantsOK, FS_Subset DEF ConstantsOK

(* Every step keeps the types.                                             *)
LEMMA TypeStep ==
  ASSUME Inv, [Next]_vars
  PROVE  TypeOK'
<1>1. ASSUME NEW g \in Goroutines, NEW t \in Tasks, PostRejected(g, t)
      PROVE  TypeOK'
  BY <1>1, Inv, ConstantsOK DEF Inv, TypeOK, PcInv, Busy, Goroutines, PostRejected,
     postVars, runVars, stopVars
<1>2. ASSUME NEW g \in Goroutines, NEW t \in Tasks, PostAdmitted(g, t)
      PROVE  TypeOK'
  BY <1>2, Inv, ConstantsOK DEF Inv, TypeOK, PcInv, Busy, Goroutines, PostAdmitted,
     postVars, runVars, stopVars
<1>3. ASSUME NEW g \in Goroutines, PostCount(g)
      PROVE  TypeOK'
  BY <1>3, Inv, ConstantsOK DEF Inv, TypeOK, PcInv, Busy, Goroutines, PostCount,
     postVars, runVars, stopVars
<1>4. ASSUME NEW g \in Goroutines, PostSend(g)
      PROVE  TypeOK'
  BY <1>4, Inv, ConstantsOK DEF Inv, TypeOK, PcInv, Busy, Goroutines, PostSend,
     postVars, runVars, stopVars
<1>5. ASSUME NEW g \in Goroutines, PostOnClosed(g)
      PROVE  TypeOK'
  <2>1. CASE crashed' = TRUE /\ UNCHANGED <<runPc, runArg, ran>>
    BY <2>1, <1>5, Inv DEF Inv, TypeOK, Goroutines, PostOnClosed, postVars, runVars,
       stopVars
  <2>2. CASE g \in Runners /\ UNCHANGED crashed
    <3>1. runArg[g] \in Tasks
      BY <2>2, <1>5, Inv DEF Inv, PcInv, Busy, PostOnClosed
    <3>. QED
      BY <2>2, <3>1, <1>5, Inv DEF Inv, TypeOK, Goroutines, PostOnClosed, postVars,
         runVars, stopVars
  <2>. QED
    BY <2>1, <2>2, <1>5 DEF PostOnClosed
<1>6. ASSUME NEW r \in Runners, Start(r)
      PROVE  TypeOK'
  BY <1>6, Inv, ConstantsOK DEF Inv, TypeOK, PcInv, Busy, Goroutines, Start, postVars,
     runVars, stopVars
<1>7. ASSUME NEW r \in Runners, Take(r)
      PROVE  TypeOK'
  BY <1>7, Inv, ConstantsOK DEF Inv, TypeOK, PcInv, Busy, Goroutines, Take, postVars,
     runVars, stopVars
<1>8. ASSUME NEW r \in Runners, Begin(r)
      PROVE  TypeOK'
  BY <1>8, Inv, ConstantsOK DEF Inv, TypeOK, PcInv, Busy, Goroutines, Begin, postVars,
     runVars, stopVars
<1>9. ASSUME NEW r \in Runners, Finish(r)
      PROVE  TypeOK'
  BY <1>9, Inv, ConstantsOK DEF Inv, TypeOK, PcInv, Busy, Goroutines, Finish,
     TaskEnds, postVars, runVars, stopVars
<1>10. ASSUME NEW r \in Runners, Panic(r)
      PROVE  TypeOK'
  BY <1>10, Inv, ConstantsOK DEF Inv, TypeOK, PcInv, Busy, Goroutines, Panic,
     TaskEnds, postVars, runVars, stopVars
<1>11. ASSUME NEW r \in Runners, Restart(r)
      PROVE  TypeOK'
  BY <1>11, Inv, ConstantsOK DEF Inv, TypeOK, PcInv, Busy, Goroutines, Restart,
     postVars, runVars, stopVars
<1>12. ASSUME NEW r \in Runners, Exit(r)
      PROVE  TypeOK'
  BY <1>12, Inv, ConstantsOK DEF Inv, TypeOK, PcInv, Busy, Goroutines, Exit, postVars,
     runVars, stopVars
<1>13. ASSUME WgDone
      PROVE  TypeOK'
  <2>1. Cardinality(Live) \in Nat
    BY Finite, FS_CardinalityType
  <2>2. wg - 1 \in Nat /\ exiting - 1 \in Nat
    BY <2>1, <1>13, Inv DEF Inv, TypeOK, WgExact, WgDone
  <2>. QED
    BY <2>2, <1>13, Inv DEF Inv, TypeOK, WgDone, postVars, runVars, stopVars
<1>14. ASSUME NEW s \in Stoppers, StopClaim(s)
      PROVE  TypeOK'
  BY <1>14, Inv, ConstantsOK DEF Inv, TypeOK, PcInv, Busy, Goroutines, StopClaim,
     postVars, runVars, stopVars
<1>15. ASSUME NEW s \in Stoppers, StopSkip(s)
      PROVE  TypeOK'
  BY <1>15, Inv, ConstantsOK DEF Inv, TypeOK, PcInv, Busy, Goroutines, StopSkip,
     postVars, runVars, stopVars
<1>16. ASSUME NEW s \in Stoppers, StopClose(s)
      PROVE  TypeOK'
  BY <1>16, Inv, ConstantsOK DEF Inv, TypeOK, PcInv, Busy, Goroutines, StopClose,
     postVars, runVars, stopVars
<1>17. ASSUME NEW s \in Stoppers, StopReturn(s)
      PROVE  TypeOK'
  BY <1>17, Inv, ConstantsOK DEF Inv, TypeOK, PcInv, Busy, Goroutines, StopReturn,
     postVars, runVars, stopVars
<1>18. CASE UNCHANGED vars
  BY <1>18, Inv DEF Inv, TypeOK, vars, postVars, runVars, stopVars
<1>. QED
  BY <1>1, <1>2, <1>3, <1>4, <1>5, <1>6, <1>7, <1>8, <1>9, <1>10, <1>11, <1>12, <1>13,
     <1>14, <1>15, <1>16, <1>17, <1>18
     DEF Next, PostStep, RunnerStep, StopStep, Terminated

(* Every step keeps what the program counters say.                         *)
LEMMA PcStep ==
  ASSUME Inv, [Next]_vars
  PROVE  PcInv'
<1>1. ASSUME NEW g \in Goroutines, NEW t \in Tasks, PostRejected(g, t)
      PROVE  PcInv'
  BY <1>1, Inv, ConstantsOK DEF Inv, TypeOK, PcInv, Busy, AllStarted, Goroutines,
     PostRejected, postVars, runVars, stopVars
<1>2. ASSUME NEW g \in Goroutines, NEW t \in Tasks, PostAdmitted(g, t)
      PROVE  PcInv'
  BY <1>2, Inv, ConstantsOK
     DEF Inv, TypeOK, PcInv, Busy, AllStarted, Goroutines, MayPost, PostAdmitted,
         ConstantsOK, postVars, runVars, stopVars
<1>3. ASSUME NEW g \in Goroutines, PostCount(g)
      PROVE  PcInv'
  BY <1>3, Inv, ConstantsOK DEF Inv, TypeOK, PcInv, Busy, AllStarted, Goroutines,
     PostCount, postVars, runVars, stopVars
<1>4. ASSUME NEW g \in Goroutines, PostSend(g)
      PROVE  PcInv'
  BY <1>4, Inv, ConstantsOK DEF Inv, TypeOK, PcInv, Busy, AllStarted, Goroutines,
     PostSend, postVars, runVars, stopVars
<1>5. ASSUME NEW g \in Goroutines, PostOnClosed(g)
      PROVE  PcInv'
  BY <1>5, Inv, ConstantsOK DEF Inv, TypeOK, PcInv, Busy, AllStarted, Goroutines,
     PostOnClosed, postVars, runVars, stopVars
<1>6. ASSUME NEW r \in Runners, Start(r)
      PROVE  PcInv'
  BY <1>6, Inv, ConstantsOK DEF Inv, TypeOK, PcInv, Busy, AllStarted, Goroutines,
     Start, postVars, runVars, stopVars
<1>7. ASSUME NEW r \in Runners, Take(r)
      PROVE  PcInv'
  BY <1>7, Inv, ConstantsOK DEF Inv, TypeOK, PcInv, Busy, AllStarted, Goroutines,
     Take, postVars, runVars, stopVars
<1>8. ASSUME NEW r \in Runners, Begin(r)
      PROVE  PcInv'
  BY <1>8, Inv, ConstantsOK DEF Inv, TypeOK, PcInv, Busy, AllStarted, Goroutines,
     Begin, postVars, runVars, stopVars
<1>9. ASSUME NEW r \in Runners, Finish(r)
      PROVE  PcInv'
  BY <1>9, Inv, ConstantsOK DEF Inv, TypeOK, PcInv, Busy, AllStarted, Goroutines,
     Finish, TaskEnds, postVars, runVars, stopVars
<1>10. ASSUME NEW r \in Runners, Panic(r)
      PROVE  PcInv'
  BY <1>10, Inv, ConstantsOK DEF Inv, TypeOK, PcInv, Busy, AllStarted, Goroutines,
     Panic, TaskEnds, postVars, runVars, stopVars
<1>11. ASSUME NEW r \in Runners, Restart(r)
      PROVE  PcInv'
  BY <1>11, Inv, ConstantsOK DEF Inv, TypeOK, PcInv, Busy, AllStarted, Goroutines,
     Restart, postVars, runVars, stopVars
<1>12. ASSUME NEW r \in Runners, Exit(r)
      PROVE  PcInv'
  BY <1>12, Inv, ConstantsOK DEF Inv, TypeOK, PcInv, Busy, AllStarted, Goroutines,
     Exit, postVars, runVars, stopVars
<1>13. ASSUME WgDone
      PROVE  PcInv'
  BY <1>13, Inv, ConstantsOK DEF Inv, TypeOK, PcInv, Busy, AllStarted, Goroutines,
     WgDone, postVars, runVars, stopVars
<1>14. ASSUME NEW s \in Stoppers,
             StopClaim(s) \/ StopSkip(s) \/ StopClose(s) \/ StopReturn(s)
      PROVE  PcInv'
  BY <1>14, Inv, ConstantsOK DEF Inv, TypeOK, PcInv, Busy, AllStarted, Goroutines,
     StopClaim, StopSkip, StopClose, StopReturn, postVars, runVars, stopVars
<1>15. CASE UNCHANGED vars
  BY <1>15, Inv DEF Inv, PcInv, Busy, AllStarted, vars, postVars, runVars, stopVars
<1>. QED
  BY <1>1, <1>2, <1>3, <1>4, <1>5, <1>6, <1>7, <1>8, <1>9, <1>10, <1>11, <1>12, <1>13,
     <1>14, <1>15 DEF Next, PostStep, RunnerStep, StopStep, Terminated

(* Every step keeps the wait group equal to what it counts.                *)
LEMMA WgStep ==
  ASSUME Inv, [Next]_vars
  PROVE  WgExact'
<1>1. ASSUME NEW g \in Goroutines, NEW t \in Tasks,
             PostRejected(g, t) \/ PostAdmitted(g, t)
      PROVE  WgExact'
  BY <1>1, Inv DEF Inv, WgExact, Live, PostRejected, PostAdmitted, postVars, runVars,
     stopVars
<1>2. ASSUME NEW g \in Goroutines, PostCount(g) \/ PostSend(g)
      PROVE  WgExact'
  BY <1>2, Inv DEF Inv, WgExact, Live, PostCount, PostSend, postVars, runVars,
     stopVars
<1>3. ASSUME NEW g \in Goroutines, PostOnClosed(g)
      PROVE  WgExact'
  <2>1. Live' = Live
    BY <1>3, Inv DEF Inv, TypeOK, PcInv, Live, PostOnClosed
  <2>. QED
    BY <2>1, <1>3, Inv DEF Inv, WgExact, PostOnClosed, postVars, runVars, stopVars
<1>4. ASSUME NEW r \in Runners, Start(r)
      PROVE  WgExact'
  <2>1. Live' = Live \cup {r} /\ r \notin Live
    BY <1>4, Inv DEF Inv, TypeOK, Live, Start
  <2>2. Cardinality(Live) \in Nat
    BY Finite, FS_CardinalityType
  <2>3. Cardinality(Live') = Cardinality(Live) + 1
    BY <2>1, Finite, FS_AddElement
  <2>. QED
    BY <2>2, <2>3, <1>4, Inv DEF Inv, TypeOK, WgExact, Start, postVars, runVars, stopVars
<1>5. ASSUME NEW r \in Runners, Take(r)
      PROVE  WgExact'
  <2>1. Live' = Live
    BY <1>5, Inv DEF Inv, TypeOK, PcInv, Live, Take
  <2>. QED
    BY <2>1, <1>5, Inv DEF Inv, WgExact, Take, postVars, runVars, stopVars
<1>6. ASSUME NEW r \in Runners, Begin(r)
      PROVE  WgExact'
  <2>1. Live' = Live
    BY <1>6, Inv DEF Inv, TypeOK, PcInv, Live, Begin
  <2>. QED
    BY <2>1, <1>6, Inv DEF Inv, WgExact, Begin, postVars, runVars, stopVars
<1>7. ASSUME NEW r \in Runners, Finish(r)
      PROVE  WgExact'
  <2>1. Live' = Live
    BY <1>7, Inv DEF Inv, TypeOK, PcInv, Live, Finish, TaskEnds
  <2>. QED
    BY <2>1, <1>7, Inv DEF Inv, WgExact, Finish, TaskEnds, postVars, runVars, stopVars
<1>8. ASSUME NEW r \in Runners, Panic(r)
      PROVE  WgExact'
  <2>1. Live' = Live
    BY <1>8, Inv DEF Inv, TypeOK, PcInv, Live, Panic, TaskEnds
  <2>. QED
    BY <2>1, <1>8, Inv DEF Inv, WgExact, Panic, TaskEnds, postVars, runVars, stopVars
<1>9. ASSUME NEW r \in Runners, Restart(r)
      PROVE  WgExact'
  <2>1. Live' = Live
    BY <1>9, Inv DEF Inv, TypeOK, Live, Restart
  <2>2. Cardinality(Live) \in Nat
    BY Finite, FS_CardinalityType
  <2>. QED
    BY <2>1, <2>2, <1>9, Inv DEF Inv, TypeOK, WgExact, Restart, postVars, runVars,
       stopVars
<1>10. ASSUME NEW r \in Runners, Exit(r)
      PROVE  WgExact'
  <2>1. Live' = Live \ {r} /\ r \in Live
    BY <1>10, Inv DEF Inv, TypeOK, Live, Exit
  <2>2. Cardinality(Live) \in Nat
    BY Finite, FS_CardinalityType
  <2>3. Cardinality(Live') = Cardinality(Live) - 1
    BY <2>1, Finite, FS_RemoveElement
  <2>. QED
    BY <2>2, <2>3, <1>10, Inv DEF Inv, TypeOK, WgExact, Exit, postVars, runVars, stopVars
<1>11. ASSUME WgDone
      PROVE  WgExact'
  <2>1. Cardinality(Live) \in Nat
    BY Finite, FS_CardinalityType
  <2>2. Live' = Live
    BY <1>11 DEF Live, WgDone
  <2>. QED
    BY <2>1, <2>2, <1>11, Inv DEF Inv, TypeOK, WgExact, WgDone, postVars, runVars,
       stopVars
<1>12. ASSUME NEW s \in Stoppers,
             StopClaim(s) \/ StopSkip(s) \/ StopClose(s) \/ StopReturn(s)
      PROVE  WgExact'
  BY <1>12, Inv DEF Inv, WgExact, Live, StopClaim, StopSkip, StopClose, StopReturn,
     postVars, runVars, stopVars
<1>13. CASE UNCHANGED vars
  BY <1>13, Inv DEF Inv, WgExact, Live, vars, postVars, runVars, stopVars
<1>. QED
  BY <1>1, <1>2, <1>3, <1>4, <1>5, <1>6, <1>7, <1>8, <1>9, <1>10, <1>11, <1>12, <1>13
     DEF Next, PostStep, RunnerStep, StopStep, Terminated

(* Every step keeps len in step with the queue.                            *)
LEMMA LenStep ==
  ASSUME Inv, [Next]_vars
  PROVE  LenExact'
<1>1. ASSUME NEW g \in Goroutines, NEW t \in Tasks, PostRejected(g, t)
      PROVE  LenExact'
  BY <1>1, Inv DEF Inv, LenExact, Sending, Taking, PostRejected, postVars, runVars,
     stopVars
<1>2. ASSUME NEW g \in Goroutines, NEW t \in Tasks, PostAdmitted(g, t)
      PROVE  LenExact'
  <2>1. Sending' = Sending
    BY <1>2, Inv DEF Inv, TypeOK, Sending, PostAdmitted
  <2>. QED
    BY <2>1, <1>2, Inv DEF Inv, LenExact, Taking, PostAdmitted, postVars, runVars,
       stopVars
<1>3. ASSUME NEW g \in Goroutines, PostCount(g)
      PROVE  LenExact'
  <2>. Cardinality(Sending) \in Nat /\ Cardinality(Taking) \in Nat
    BY Finite, FS_CardinalityType
  <2>1. Sending' = Sending \cup {g} /\ g \notin Sending
    BY <1>3, Inv DEF Inv, TypeOK, Sending, PostCount
  <2>2. Cardinality(Sending') = Cardinality(Sending) + 1
    BY <2>1, Finite, FS_AddElement
  <2>3. Taking' = Taking
    BY <1>3 DEF Taking, PostCount, postVars, runVars, stopVars
  <2>. QED
    BY <2>2, <2>3, <1>3, Inv DEF Inv, TypeOK, LenExact, PostCount, postVars, runVars,
       stopVars
<1>4. ASSUME NEW g \in Goroutines, PostSend(g)
      PROVE  LenExact'
  <2>. Cardinality(Sending) \in Nat /\ Cardinality(Taking) \in Nat
    BY Finite, FS_CardinalityType
  <2>1. Sending' = Sending \ {g} /\ g \in Sending
    BY <1>4, Inv DEF Inv, TypeOK, Sending, PostSend
  <2>2. Cardinality(Sending') = Cardinality(Sending) - 1
    BY <2>1, Finite, FS_RemoveElement
  <2>3. Taking' = Taking
    BY <1>4 DEF Taking, PostSend, postVars, runVars, stopVars
  <2>4. Len(fs') = Len(fs) + 1
    BY <1>4, Inv, AppendProperties DEF Inv, TypeOK, PcInv, PostSend
  <2>. QED
    BY <2>2, <2>3, <2>4, <1>4, Inv DEF Inv, TypeOK, LenExact, PostSend, postVars,
       runVars, stopVars
<1>5. ASSUME NEW g \in Goroutines, PostOnClosed(g)
      PROVE  LenExact'
  BY <1>5 DEF LenExact, PostOnClosed, postVars, runVars, stopVars
<1>6. ASSUME NEW r \in Runners, Start(r)
      PROVE  LenExact'
  <2>1. Taking' = Taking
    BY <1>6, Inv DEF Inv, TypeOK, Taking, Start
  <2>. QED
    BY <2>1, <1>6, Inv DEF Inv, LenExact, Sending, Start, postVars, runVars, stopVars
<1>7. ASSUME NEW r \in Runners, Take(r)
      PROVE  LenExact'
  <2>. Cardinality(Sending) \in Nat /\ Cardinality(Taking) \in Nat
    BY Finite, FS_CardinalityType
  <2>1. Taking' = Taking \cup {r} /\ r \notin Taking
    BY <1>7, Inv DEF Inv, TypeOK, Taking, Take
  <2>2. Cardinality(Taking') = Cardinality(Taking) + 1
    BY <2>1, Finite, FS_AddElement
  <2>3. Sending' = Sending
    BY <1>7 DEF Sending, Take, postVars, runVars, stopVars
  <2>4. Len(fs') = Len(fs) - 1 /\ Len(fs) \in Nat
    BY <1>7, Inv, HeadTailProperties DEF Inv, TypeOK, Take
  <2>. QED
    BY <2>2, <2>3, <2>4, <1>7, Inv DEF Inv, TypeOK, LenExact, Take, postVars, runVars,
       stopVars
<1>8. ASSUME NEW r \in Runners, Begin(r)
      PROVE  LenExact'
  <2>. Cardinality(Sending) \in Nat /\ Cardinality(Taking) \in Nat
    BY Finite, FS_CardinalityType
  <2>1. Taking' = Taking \ {r} /\ r \in Taking
    BY <1>8, Inv DEF Inv, TypeOK, Taking, Begin
  <2>2. Cardinality(Taking') = Cardinality(Taking) - 1
    BY <2>1, Finite, FS_RemoveElement
  <2>3. Sending' = Sending
    BY <1>8 DEF Sending, Begin, postVars, runVars, stopVars
  <2>. QED
    BY <2>2, <2>3, <1>8, Inv DEF Inv, TypeOK, LenExact, Begin, postVars, runVars, stopVars
<1>9. ASSUME NEW r \in Runners, Finish(r)
      PROVE  LenExact'
  <2>1. Taking' = Taking
    BY <1>9, Inv DEF Inv, TypeOK, Taking, Finish, TaskEnds
  <2>. QED
    BY <2>1, <1>9, Inv DEF Inv, LenExact, Sending, Finish, TaskEnds, postVars, runVars,
       stopVars
<1>10. ASSUME NEW r \in Runners, Panic(r)
      PROVE  LenExact'
  <2>1. Taking' = Taking
    BY <1>10, Inv DEF Inv, TypeOK, Taking, Panic, TaskEnds
  <2>. QED
    BY <2>1, <1>10, Inv DEF Inv, LenExact, Sending, Panic, TaskEnds, postVars, runVars,
       stopVars
<1>11. ASSUME NEW r \in Runners, Restart(r)
      PROVE  LenExact'
  <2>1. Taking' = Taking
    BY <1>11, Inv DEF Inv, TypeOK, Taking, Restart
  <2>. QED
    BY <2>1, <1>11, Inv DEF Inv, LenExact, Sending, Restart, postVars, runVars, stopVars
<1>12. ASSUME NEW r \in Runners, Exit(r)
      PROVE  LenExact'
  <2>1. Taking' = Taking
    BY <1>12, Inv DEF Inv, TypeOK, Taking, Exit
  <2>. QED
    BY <2>1, <1>12, Inv DEF Inv, LenExact, Sending, Exit, postVars, runVars, stopVars
<1>13. ASSUME WgDone
      PROVE  LenExact'
  BY <1>13, Inv DEF Inv, LenExact, Sending, Taking, WgDone, postVars, runVars,
     stopVars
<1>14. ASSUME NEW s \in Stoppers,
             StopClaim(s) \/ StopSkip(s) \/ StopClose(s) \/ StopReturn(s)
      PROVE  LenExact'
  BY <1>14, Inv DEF Inv, LenExact, Sending, Taking, StopClaim, StopSkip, StopClose,
     StopReturn, postVars, runVars, stopVars
<1>15. CASE UNCHANGED vars
  BY <1>15, Inv DEF Inv, LenExact, Sending, Taking, vars, postVars, runVars, stopVars
<1>. QED
  BY <1>1, <1>2, <1>3, <1>4, <1>5, <1>6, <1>7, <1>8, <1>9, <1>10, <1>11, <1>12, <1>13,
     <1>14, <1>15
     DEF Next, PostStep, RunnerStep, StopStep, Terminated

(* What Append and Tail do to the set of elements of a sequence.           *)
LEMMA ElemsAppend ==
  ASSUME NEW S, NEW seq \in Seq(S), NEW x \in S
  PROVE  Elems(Append(seq, x)) = Elems(seq) \cup {x}
BY AppendProperties DEF Elems

LEMMA ElemsTail ==
  ASSUME NEW S, NEW seq \in Seq(S), seq # <<>>
  PROVE  Elems(seq) = Elems(Tail(seq)) \cup {Head(seq)}
<1>1. Len(seq) \in Nat \ {0} /\ Len(Tail(seq)) = Len(seq) - 1 /\ Head(seq) = seq[1]
  BY HeadTailProperties, EmptySeq
<1>2. \A i \in 1..Len(Tail(seq)) : Tail(seq)[i] = seq[i + 1]
  BY HeadTailProperties
<1>3. ASSUME NEW i \in 1..Len(seq)
      PROVE  seq[i] \in Elems(Tail(seq)) \cup {Head(seq)}
  <2>1. CASE i = 1
    BY <2>1, <1>1
  <2>2. CASE i # 1
    <3>1. i - 1 \in 1..Len(Tail(seq)) /\ Tail(seq)[i - 1] = seq[i]
      BY <2>2, <1>1, <1>2
    <3>. QED
      BY <3>1 DEF Elems
  <2>. QED
    BY <2>1, <2>2
<1>4. ASSUME NEW i \in 1..Len(Tail(seq))
      PROVE  Tail(seq)[i] \in Elems(seq)
  <2>1. i + 1 \in 1..Len(seq)
    BY <1>1
  <2>. QED
    BY <2>1, <1>2 DEF Elems
<1>5. Head(seq) \in Elems(seq)
  BY <1>1 DEF Elems
<1>. QED
  BY <1>3, <1>4, <1>5 DEF Elems

(* No step loses a task.                                                  *)
LEMMA AccountedStep ==
  ASSUME Inv, [Next]_vars
  PROVE  Accounted'
<1>1. ASSUME NEW g \in Goroutines, NEW t \in Tasks,
             PostRejected(g, t) \/ PostAdmitted(g, t)
      PROVE  Accounted'
  BY <1>1, Inv DEF Inv, Accounted, Queued, InHand, Busy, PostRejected, PostAdmitted,
     postVars, runVars, stopVars
<1>2. ASSUME NEW g \in Goroutines, PostCount(g)
      PROVE  Accounted'
  BY <1>2, Inv DEF Inv, Accounted, Queued, InHand, Busy, PostCount, postVars, runVars,
     stopVars
<1>3. ASSUME NEW g \in Goroutines, PostSend(g)
      PROVE  Accounted'
  <2>1. postArg[g] \in Tasks /\ fs \in Seq(Tasks)
    BY <1>3, Inv DEF Inv, PcInv, TypeOK, PostSend
  <2>2. Queued' = Queued \cup {postArg[g]}
    BY <2>1, <1>3, ElemsAppend DEF Queued, PostSend
  <2>3. InHand' = InHand
    BY <1>3 DEF InHand, Busy, PostSend, postVars, runVars, stopVars
  <2>. QED
    BY <2>2, <2>3, <1>3, Inv DEF Inv, Accounted, PostSend, postVars, runVars, stopVars
<1>4. ASSUME NEW g \in Goroutines, PostOnClosed(g)
      PROVE  Accounted'
  <2>1. CASE crashed' = TRUE /\ UNCHANGED <<runPc, runArg, ran>>
    BY <2>1, <1>4, Inv DEF Inv, Accounted, Queued, InHand, Busy, PostOnClosed, postVars,
       runVars, stopVars
  <2>2. CASE g \in Runners /\ ran' = ran \cup {runArg[g]}
    <3>1. g \in Busy
      BY <2>2, <1>4, Inv DEF Inv, PcInv, Busy, PostOnClosed
    <3>2. InHand = InHand' \cup {runArg[g]}
      BY <2>2, <3>1, <1>4, Inv DEF Inv, TypeOK, InHand, Busy, PostOnClosed
    <3>. QED
      BY <2>2, <3>2, <1>4, Inv DEF Inv, Accounted, Queued, PostOnClosed, postVars,
         runVars, stopVars
  <2>. QED
    BY <2>1, <2>2, <1>4 DEF PostOnClosed
<1>5. ASSUME NEW r \in Runners, Start(r)
      PROVE  Accounted'
  <2>1. InHand' = InHand
    BY <1>5, Inv DEF Inv, TypeOK, InHand, Busy, Start
  <2>. QED
    BY <2>1, <1>5, Inv DEF Inv, Accounted, Queued, Start, postVars, runVars, stopVars
<1>6. ASSUME NEW r \in Runners, Take(r)
      PROVE  Accounted'
  <2>1. Queued = Queued' \cup {Head(fs)}
    BY <1>6, Inv, ElemsTail DEF Inv, TypeOK, Queued, Take
  <2>2. InHand' = InHand \cup {Head(fs)}
    BY <1>6, Inv DEF Inv, TypeOK, InHand, Busy, Take
  <2>. QED
    BY <2>1, <2>2, <1>6, Inv DEF Inv, Accounted, Take, postVars, runVars, stopVars
<1>7. ASSUME NEW r \in Runners, Begin(r)
      PROVE  Accounted'
  <2>1. InHand' = InHand
    BY <1>7, Inv DEF Inv, TypeOK, InHand, Busy, Begin
  <2>. QED
    BY <2>1, <1>7, Inv DEF Inv, Accounted, Queued, Begin, postVars, runVars, stopVars
<1>8. ASSUME NEW r \in Runners, Finish(r)
      PROVE  Accounted'
  <2>1. InHand = InHand' \cup {runArg[r]}
    BY <1>8, Inv DEF Inv, TypeOK, InHand, Busy, Finish, TaskEnds
  <2>. QED
    BY <2>1, <1>8, Inv DEF Inv, Accounted, Queued, Finish, TaskEnds, postVars, runVars,
       stopVars
<1>9. ASSUME NEW r \in Runners, Panic(r)
      PROVE  Accounted'
  <2>1. InHand = InHand' \cup {runArg[r]}
    BY <1>9, Inv DEF Inv, TypeOK, InHand, Busy, Panic, TaskEnds
  <2>. QED
    BY <2>1, <1>9, Inv DEF Inv, Accounted, Queued, Panic, TaskEnds, postVars, runVars,
       stopVars
<1>10. ASSUME NEW r \in Runners, Restart(r)
      PROVE  Accounted'
  <2>1. InHand' = InHand
    BY <1>10, Inv DEF Inv, TypeOK, InHand, Busy, Restart
  <2>. QED
    BY <2>1, <1>10, Inv DEF Inv, Accounted, Queued, Restart, postVars, runVars, stopVars
<1>11. ASSUME NEW r \in Runners, Exit(r)
      PROVE  Accounted'
  <2>1. InHand' = InHand
    BY <1>11, Inv DEF Inv, TypeOK, InHand, Busy, Exit
  <2>. QED
    BY <2>1, <1>11, Inv DEF Inv, Accounted, Queued, Exit, postVars, runVars, stopVars
<1>12. ASSUME WgDone
      PROVE  Accounted'
  BY <1>12, Inv DEF Inv, Accounted, Queued, InHand, Busy, WgDone, postVars, runVars,
     stopVars
<1>13. ASSUME NEW s \in Stoppers,
             StopClaim(s) \/ StopSkip(s) \/ StopClose(s) \/ StopReturn(s)
      PROVE  Accounted'
  BY <1>13, Inv DEF Inv, Accounted, Queued, InHand, Busy, StopClaim, StopSkip,
     StopClose, StopReturn, postVars, runVars, stopVars
<1>14. CASE UNCHANGED vars
  BY <1>14, Inv DEF Inv, Accounted, Queued, InHand, Busy, vars, postVars, runVars,
     stopVars
<1>. QED
  BY <1>1, <1>2, <1>3, <1>4, <1>5, <1>6, <1>7, <1>8, <1>9, <1>10, <1>11, <1>12, <1>13,
     <1>14
     DEF Next, PostStep, RunnerStep, StopStep, Terminated

(* Every step keeps the promise of a Stop that has returned.               *)
LEMMA DrainsStep ==
  ASSUME Inv, [Next]_vars
  PROVE  StopDrains'
<1>1. ASSUME NEW g \in Goroutines, NEW t \in Tasks,
             PostRejected(g, t) \/ PostAdmitted(g, t)
      PROVE  StopDrains'
  BY <1>1, Inv DEF Inv, TypeOK, StopDrains, Live, PostRejected, PostAdmitted,
     postVars, runVars, stopVars
<1>2. ASSUME NEW g \in Goroutines, PostCount(g)
      PROVE  StopDrains'
  BY <1>2, Inv DEF Inv, TypeOK, StopDrains, Live, PostCount, postVars, runVars,
     stopVars
<1>3. ASSUME NEW g \in Goroutines, PostSend(g)
      PROVE  StopDrains'
  <2>1. \A s \in Stoppers : stopPc[s] # "drained"
    BY <1>3, Inv DEF Inv, PcInv, PostSend
  <2>. QED
    BY <2>1, <1>3 DEF StopDrains, PostSend, postVars, runVars, stopVars
<1>4. ASSUME NEW g \in Goroutines, PostOnClosed(g)
      PROVE  StopDrains'
  <2>1. CASE crashed' = TRUE /\ UNCHANGED <<runPc, runArg, ran>>
    BY <2>1, <1>4, Inv DEF Inv, StopDrains, Live, PostOnClosed, postVars, runVars,
       stopVars
  <2>2. CASE g \in Runners /\ UNCHANGED crashed
    <3>1. \A s \in Stoppers : stopPc[s] # "drained"
      BY <2>2, <1>4, Inv DEF Inv, StopDrains, Live, PcInv, PostOnClosed
    <3>. QED
      BY <3>1, <1>4 DEF StopDrains, PostOnClosed, postVars, runVars, stopVars
  <2>. QED
    BY <2>1, <2>2, <1>4 DEF PostOnClosed
<1>5. ASSUME NEW r \in Runners, Start(r)
      PROVE  StopDrains'
  <2>1. \A s \in Stoppers : stopPc[s] # "drained"
    BY <1>5, Inv DEF Inv, StopDrains, Live, PcInv, AllStarted, Start
  <2>. QED
    BY <2>1, <1>5 DEF StopDrains, Start, postVars, runVars, stopVars
<1>6. ASSUME NEW r \in Runners, Take(r)
      PROVE  StopDrains'
  <2>1. \A s \in Stoppers : stopPc[s] # "drained"
    BY <1>6, Inv DEF Inv, StopDrains, Live, Take
  <2>. QED
    BY <2>1, <1>6 DEF StopDrains, Take, postVars, runVars, stopVars
<1>7. ASSUME NEW r \in Runners, Begin(r)
      PROVE  StopDrains'
  <2>1. \A s \in Stoppers : stopPc[s] # "drained"
    BY <1>7, Inv DEF Inv, StopDrains, Live, Begin
  <2>. QED
    BY <2>1, <1>7 DEF StopDrains, Begin, postVars, runVars, stopVars
<1>8. ASSUME NEW r \in Runners, Finish(r)
      PROVE  StopDrains'
  <2>1. \A s \in Stoppers : stopPc[s] # "drained"
    BY <1>8, Inv DEF Inv, StopDrains, Live, Finish, TaskEnds
  <2>. QED
    BY <2>1, <1>8 DEF StopDrains, Finish, TaskEnds, postVars, runVars, stopVars
<1>9. ASSUME NEW r \in Runners, Panic(r)
      PROVE  StopDrains'
  <2>1. \A s \in Stoppers : stopPc[s] # "drained"
    BY <1>9, Inv DEF Inv, StopDrains, Live, Panic, TaskEnds
  <2>. QED
    BY <2>1, <1>9 DEF StopDrains, Panic, TaskEnds, postVars, runVars, stopVars
<1>10. ASSUME NEW r \in Runners, Restart(r)
      PROVE  StopDrains'
  <2>1. \A s \in Stoppers : stopPc[s] # "drained"
    BY <1>10, Inv DEF Inv, StopDrains, Live, Restart
  <2>. QED
    BY <2>1, <1>10 DEF StopDrains, Restart, postVars, runVars, stopVars
<1>11. ASSUME NEW r \in Runners, Exit(r)
      PROVE  StopDrains'
  <2>1. \A s \in Stoppers : stopPc[s] # "drained"
    BY <1>11, Inv DEF Inv, StopDrains, Live, Exit
  <2>. QED
    BY <2>1, <1>11 DEF StopDrains, Exit, postVars, runVars, stopVars
<1>12. ASSUME WgDone
      PROVE  StopDrains'
  BY <1>12, Inv DEF Inv, TypeOK, StopDrains, Live, WgDone, postVars, runVars, stopVars
<1>13. ASSUME NEW s \in Stoppers, StopClaim(s) \/ StopSkip(s) \/ StopClose(s)
      PROVE  StopDrains'
  BY <1>13, Inv DEF Inv, TypeOK, StopDrains, Live, StopClaim, StopSkip, StopClose,
     postVars, runVars, stopVars
<1>14. ASSUME NEW s \in Stoppers, StopReturn(s)
      PROVE  StopDrains'
  <2>1. Cardinality(Live) \in Nat
    BY Finite, FS_CardinalityType
  <2>2. Cardinality(Live) = 0
    BY <2>1, <1>14, Inv DEF Inv, TypeOK, WgExact, StopReturn
  <2>3. Live = {}
    BY <2>2, Finite, FS_EmptySet
  <2>4. PICK r \in Runners : TRUE
    BY ConstantsOK DEF ConstantsOK
  <2>5. \A q \in Runners : runPc[q] = "exited"
    BY <2>3, <1>14, Inv DEF Inv, TypeOK, PcInv, AllStarted, Live, StopReturn
  <2>6. fs = <<>> /\ InHand = {}
    BY <2>4, <2>5, Inv DEF Inv, PcInv, InHand, Busy
  <2>7. Queued = {}
    BY <2>6, EmptySeq DEF Queued, Elems
  <2>8. ran = sent
    BY <2>6, <2>7, Inv DEF Inv, Accounted
  <2>. QED
    BY <2>3, <2>6, <2>8, <1>14 DEF StopDrains, Live, StopReturn, postVars, runVars,
       stopVars
<1>15. CASE UNCHANGED vars
  BY <1>15, Inv DEF Inv, StopDrains, Live, vars, postVars, runVars, stopVars
<1>. QED
  BY <1>1, <1>2, <1>3, <1>4, <1>5, <1>6, <1>7, <1>8, <1>9, <1>10, <1>11, <1>12, <1>13,
     <1>14, <1>15
     DEF Next, PostStep, RunnerStep, StopStep, Terminated

(* Taking the head of a sequence without repetitions.                      *)
LEMMA TailOnce ==
  ASSUME NEW S, NEW seq \in Seq(S), seq # <<>>,
         \A i, j \in 1..Len(seq) : seq[i] = seq[j] => i = j
  PROVE  /\ \A i, j \in 1..Len(Tail(seq)) : Tail(seq)[i] = Tail(seq)[j] => i = j
         /\ Head(seq) \notin Elems(Tail(seq))
         /\ Head(seq) \in Elems(seq)
<1>1. Len(seq) \in Nat \ {0} /\ Len(Tail(seq)) = Len(seq) - 1 /\ Head(seq) = seq[1]
  BY HeadTailProperties, EmptySeq
<1>2. \A i \in 1..Len(Tail(seq)) : Tail(seq)[i] = seq[i + 1] /\ i + 1 \in 1..Len(seq) /\ i + 1 # 1
  BY <1>1, HeadTailProperties
<1>3. ASSUME NEW i \in 1..Len(Tail(seq)), NEW j \in 1..Len(Tail(seq)), Tail(seq)[i] = Tail(seq)[j]
      PROVE  i = j
  <2>1. i + 1 = j + 1
    BY <1>2, <1>3
  <2>. QED
    BY <2>1, <1>1
<1>4. Head(seq) \notin Elems(Tail(seq))
  BY <1>1, <1>2 DEF Elems
<1>5. Head(seq) \in Elems(seq)
  BY <1>1 DEF Elems
<1>. QED
  BY <1>3, <1>4, <1>5

(* No step duplicates a task.                                              *)
LEMMA OnceStep ==
  ASSUME Inv, [Next]_vars
  PROVE  Once'
<1>1. ASSUME NEW g \in Goroutines, NEW t \in Tasks, PostRejected(g, t)
      PROVE  Once'
  BY <1>1, Inv DEF Inv, Once, Queued, InHand, Busy, PostRejected, postVars, runVars,
     stopVars
<1>2. ASSUME NEW g \in Goroutines, NEW t \in Tasks, PostAdmitted(g, t)
      PROVE  Once'
  <2>1. InHand' = InHand /\ Queued' = Queued /\ Busy' = Busy
    BY <1>2 DEF InHand, Queued, Busy, PostAdmitted, postVars, runVars, stopVars
  <2>2. \A h \in Goroutines : postPc'[h] # "idle" => postArg'[h] \in posted' \ sent'
    BY <1>2, Inv DEF Inv, TypeOK, Once, PostAdmitted
  <2>3. \A h, k \in Goroutines :
          postPc'[h] # "idle" /\ postPc'[k] # "idle" /\ postArg'[h] = postArg'[k] => h = k
    BY <1>2, Inv DEF Inv, TypeOK, Once, PostAdmitted
  <2>. QED
    BY <2>1, <2>2, <2>3, <1>2, Inv DEF Inv, Once, PostAdmitted, postVars, runVars,
       stopVars
<1>3. ASSUME NEW g \in Goroutines, PostCount(g)
      PROVE  Once'
  <2>1. InHand' = InHand /\ Queued' = Queued /\ Busy' = Busy
    BY <1>3 DEF InHand, Queued, Busy, PostCount, postVars, runVars, stopVars
  <2>. QED
    BY <2>1, <1>3, Inv DEF Inv, TypeOK, Once, PostCount, postVars, runVars, stopVars
<1>4. ASSUME NEW g \in Goroutines, PostSend(g)
      PROVE  Once'
  <2>1. /\ postArg[g] \in Tasks /\ fs \in Seq(Tasks)
        /\ postArg[g] \in posted \ sent
    BY <1>4, Inv DEF Inv, PcInv, TypeOK, Once, PostSend
  <2>2. InHand' = InHand /\ Busy' = Busy
    BY <1>4 DEF InHand, Busy, PostSend, postVars, runVars, stopVars
  <2>3. Queued' = Queued \cup {postArg[g]}
    BY <2>1, <1>4, ElemsAppend DEF Queued, PostSend
  <2>4. postArg[g] \notin Queued \cup InHand \cup ran
    BY <2>1, Inv DEF Inv, Accounted
  <2>5. \A i, j \in 1..Len(fs') : fs'[i] = fs'[j] => i = j
    <3>1. /\ Len(fs') = Len(fs) + 1 /\ Len(fs) \in Nat
          /\ fs'[Len(fs) + 1] = postArg[g]
          /\ \A i \in 1..Len(fs) : fs'[i] = fs[i]
      BY <2>1, <1>4, AppendProperties DEF PostSend
    <3>2. \A i \in 1..Len(fs) : fs'[i] # postArg[g]
      BY <3>1, <2>4 DEF Queued, Elems
    <3>. QED
      BY <3>1, <3>2, Inv DEF Inv, Once
  <2>6. \A h \in Goroutines : postPc'[h] # "idle" => postArg'[h] \in posted' \ sent'
    BY <2>1, <1>4, Inv DEF Inv, TypeOK, Once, PostSend
  <2>7. \A h, k \in Goroutines :
          postPc'[h] # "idle" /\ postPc'[k] # "idle" /\ postArg'[h] = postArg'[k] => h = k
    BY <1>4, Inv DEF Inv, TypeOK, Once, PostSend
  <2>. QED
    BY <2>1, <2>2, <2>3, <2>4, <2>5, <2>6, <2>7, <1>4, Inv DEF Inv, Once, PostSend,
       postVars, runVars, stopVars
<1>5. ASSUME NEW g \in Goroutines, PostOnClosed(g)
      PROVE  Once'
  <2>1. \A h \in Goroutines : postPc'[h] # "idle" => postPc[h] # "idle" /\ postArg'[h] = postArg[h]
    BY <1>5, Inv DEF Inv, TypeOK, PostOnClosed
  <2>2. CASE UNCHANGED <<runPc, runArg, ran>>
    <3>1. InHand' = InHand /\ Queued' = Queued /\ Busy' = Busy
      BY <2>2, <1>5 DEF InHand, Queued, Busy, PostOnClosed, postVars, runVars, stopVars
    <3>. QED
      BY <2>1, <2>2, <3>1, <1>5, Inv DEF Inv, Once, PostOnClosed, postVars, runVars,
         stopVars
  <2>3. CASE /\ g \in Runners
             /\ runPc' = [runPc EXCEPT ![g] = "panicked"]
             /\ ran' = ran \cup {runArg[g]}
             /\ runArg' = [runArg EXCEPT ![g] = NoTask]
    <3>1. g \in Busy
      BY <2>3, <1>5, Inv DEF Inv, PcInv, Busy, PostOnClosed
    <3>2. Busy' = Busy \ {g} /\ \A q \in Busy' : runArg'[q] = runArg[q]
      BY <2>3, Inv DEF Inv, TypeOK, Busy
    <3>3. InHand' = InHand \ {runArg[g]} /\ runArg[g] \in InHand
      BY <3>1, <3>2, Inv DEF Inv, Once, InHand
    <3>4. Queued' = Queued
      BY <1>5 DEF Queued, PostOnClosed
    <3>. QED
      BY <2>1, <2>3, <3>2, <3>3, <3>4, <1>5, Inv DEF Inv, Once, PostOnClosed, postVars,
         runVars, stopVars
  <2>. QED
    BY <2>2, <2>3, <1>5 DEF PostOnClosed
<1>6. ASSUME NEW r \in Runners, Start(r)
      PROVE  Once'
  <2>1. /\ Busy' = Busy
        /\ InHand' = InHand
    BY <1>6, Inv DEF Inv, TypeOK, InHand, Busy, Start
  <2>. QED
    BY <2>1, <1>6, Inv DEF Inv, Once, Queued, Start, postVars, runVars, stopVars
<1>7. ASSUME NEW r \in Runners, Take(r)
      PROVE  Once'
  <2>1. /\ Queued' = Queued \ {Head(fs)} /\ Head(fs) \in Queued
        /\ \A i, j \in 1..Len(fs') : fs'[i] = fs'[j] => i = j
    BY <1>7, Inv, ElemsTail, TailOnce DEF Inv, TypeOK, Once, Queued, Take
  <2>2. Busy' = Busy \cup {r} /\ r \notin Busy
    BY <1>7, Inv DEF Inv, TypeOK, Busy, Take
  <2>3. runArg'[r] = Head(fs) /\ \A q \in Busy : runArg'[q] = runArg[q]
    BY <2>2, <1>7, Inv DEF Inv, TypeOK, Busy, Take
  <2>4. InHand' = InHand \cup {Head(fs)}
    BY <2>2, <2>3 DEF InHand
  <2>5. \A p, q \in Busy' : runArg'[p] = runArg'[q] => p = q
    <3>1. \A q \in Busy : runArg[q] # Head(fs)
      BY <2>1, Inv DEF Inv, Once, InHand
    <3>. QED
      BY <3>1, <2>2, <2>3, Inv DEF Inv, Once
  <2>. QED
    BY <2>1, <2>4, <2>5, <1>7, Inv DEF Inv, Once, Take, postVars, runVars, stopVars
<1>8. ASSUME NEW r \in Runners, Begin(r)
      PROVE  Once'
  <2>1. /\ Busy' = Busy
        /\ InHand' = InHand
    BY <1>8, Inv DEF Inv, TypeOK, InHand, Busy, Begin
  <2>. QED
    BY <2>1, <1>8, Inv DEF Inv, Once, Queued, Begin, postVars, runVars, stopVars
<1>9. ASSUME NEW r \in Runners, Finish(r)
      PROVE  Once'
  <2>1. r \in Busy /\ Busy' = Busy \ {r} /\ \A q \in Busy' : runArg'[q] = runArg[q]
    BY <1>9, Inv DEF Inv, TypeOK, Busy, Finish, TaskEnds
  <2>2. InHand' = InHand \ {runArg[r]} /\ runArg[r] \in InHand
    BY <2>1, Inv DEF Inv, Once, InHand
  <2>3. Queued' = Queued /\ ran' = ran \cup {runArg[r]}
    BY <1>9 DEF Queued, Finish, TaskEnds
  <2>. QED
    BY <2>1, <2>2, <2>3, <1>9, Inv DEF Inv, Once, Finish, TaskEnds, postVars, runVars,
       stopVars
<1>10. ASSUME NEW r \in Runners, Panic(r)
      PROVE  Once'
  <2>1. r \in Busy /\ Busy' = Busy \ {r} /\ \A q \in Busy' : runArg'[q] = runArg[q]
    BY <1>10, Inv DEF Inv, TypeOK, Busy, Panic, TaskEnds
  <2>2. InHand' = InHand \ {runArg[r]} /\ runArg[r] \in InHand
    BY <2>1, Inv DEF Inv, Once, InHand
  <2>3. Queued' = Queued /\ ran' = ran \cup {runArg[r]}
    BY <1>10 DEF Queued, Panic, TaskEnds
  <2>. QED
    BY <2>1, <2>2, <2>3, <1>10, Inv DEF Inv, Once, Panic, TaskEnds, postVars, runVars,
       stopVars
<1>11. ASSUME NEW r \in Runners, Restart(r)
      PROVE  Once'
  <2>1. /\ Busy' = Busy
        /\ InHand' = InHand
    BY <1>11, Inv DEF Inv, TypeOK, InHand, Busy, Restart
  <2>. QED
    BY <2>1, <1>11, Inv DEF Inv, Once, Queued, Restart, postVars, runVars, stopVars
<1>12. ASSUME NEW r \in Runners, Exit(r)
      PROVE  Once'
  <2>1. /\ Busy' = Busy
        /\ InHand' = InHand
    BY <1>12, Inv DEF Inv, TypeOK, InHand, Busy, Exit
  <2>. QED
    BY <2>1, <1>12, Inv DEF Inv, Once, Queued, Exit, postVars, runVars, stopVars
<1>13. ASSUME WgDone
      PROVE  Once'
  BY <1>13, Inv DEF Inv, Once, Queued, InHand, Busy, WgDone, postVars, runVars,
     stopVars
<1>14. ASSUME NEW s \in Stoppers,
             StopClaim(s) \/ StopSkip(s) \/ StopClose(s) \/ StopReturn(s)
      PROVE  Once'
  BY <1>14, Inv DEF Inv, Once, Queued, InHand, Busy, StopClaim, StopSkip, StopClose,
     StopReturn, postVars, runVars, stopVars
<1>15. CASE UNCHANGED vars
  BY <1>15, Inv DEF Inv, Once, Queued, InHand, Busy, vars, postVars, runVars, stopVars
<1>. QED
  BY <1>1, <1>2, <1>3, <1>4, <1>5, <1>6, <1>7, <1>8, <1>9, <1>10, <1>11, <1>12, <1>13,
     <1>14, <1>15
     DEF Next, PostStep, RunnerStep, StopStep, Terminated

(* The inductive invariant holds in every reachable state.                 *)
THEOREM Invariance == Spec => []Inv
<1>1. Init => Inv
  <2>. SUFFICES ASSUME Init PROVE Inv
    OBVIOUS
  <2>1. TypeOK
    <3>1. fs \in Seq(Tasks) /\ Len(fs) <= Cap
      BY ConstantsOK DEF Init, ConstantsOK
    <3>2. /\ postPc \in [Goroutines -> {"idle", "admitted", "counted"}]
          /\ postArg \in [Goroutines -> Tasks \cup {NoTask}]
          /\ stopPc \in [Stoppers -> {"idle", "closing", "waiting", "drained", "skipped"}]
      BY DEF Init
    <3>3. /\ runPc \in [Runners -> {"unstarted", "idle", "got", "running", "panicked", "exited"}]
          /\ runArg \in [Runners -> Tasks \cup {NoTask}]
      BY DEF Init
    <3>4. closed \in BOOLEAN /\ chClosed \in BOOLEAN /\ crashed \in BOOLEAN
      BY Zenon DEF Init
    <3>5. len \in Int /\ wg \in Nat /\ exiting \in Nat
      BY DEF Init
    <3>6. posted \in SUBSET Tasks /\ sent \in SUBSET Tasks /\ ran \in SUBSET Tasks
      BY DEF Init
    <3>. QED
      BY <3>1, <3>2, <3>3, <3>4, <3>5, <3>6 DEF TypeOK
  <2>2. PcInv
    BY DEF Init, PcInv, Goroutines, Busy
  <2>3. Live = {} /\ Sending = {} /\ Taking = {} /\ Busy = {}
    BY DEF Init, Live, Sending, Taking, Busy
  <2>4. WgExact /\ LenExact
    BY <2>3, FS_EmptySet DEF Init, WgExact, LenExact
  <2>5. Queued = {} /\ InHand = {}
    BY <2>3, EmptySeq DEF Init, Queued, Elems, InHand
  <2>6. Accounted /\ Once /\ StopDrains
    BY <2>3, <2>5, EmptySeq DEF Init, Accounted, Once, StopDrains
  <2>. QED
    BY <2>1, <2>2, <2>4, <2>6 DEF Inv
<1>2. Inv /\ [Next]_vars => Inv'
  BY TypeStep, PcStep, WgStep, LenStep, AccountedStep, OnceStep, DrainsStep DEF Inv
<1>. QED
  BY <1>1, <1>2, PTL DEF Spec

(* The types of all variables; in particular the channel never holds more  *)
(* than Cap tasks and the wait group never becomes negative, which Go      *)
(* would answer with a panic.                                              *)
THEOREM TypeCorrect == Spec => []TypeOK
<1>1. Inv => TypeOK
  BY DEF Inv
<1>. QED
  BY <1>1, Invariance, PTL

(* worker.go:65-70: the Stop that waited leaves nothing undone.             *)
THEOREM StopIsComplete == Spec => []StopDrains
<1>1. Inv => StopDrains
  BY DEF Inv
<1>. QED
  BY <1>1, Invariance, PTL

(* The wait group and Len agree with what they count (worker.go:27-63).    *)
THEOREM CountersAreExact == Spec => []CountersExact
<1>1. Inv => CountersExact
  BY DEF Inv, CountersExact
<1>. QED
  BY Invariance, <1>1, PTL

(* facade/worker.go:9-12: the worker with its restarts and its half-done   *)
(* operations is a task queue: PostSend is Accept, Take is Dispatch, the   *)
(* end of a task is Complete, close(fs) is Close and the return from Wait  *)
(* is ReportQuiet; every other step changes nothing that a caller sees.    *)
THEOREM Refinement == Spec => ImplementsTaskQueue
<1>1. Init => Pool!TQInit
  BY EmptySeq DEF Init, Pool!TQInit, InHand, Busy, Reported
<1>2. ASSUME Inv, [Next]_vars
      PROVE  [Pool!TQNext]_(Pool!tqVars)
  <2>. DEFINE Same == UNCHANGED Pool!tqVars
  <2>1. ASSUME NEW g \in Goroutines, NEW t \in Tasks, PostRejected(g, t) \/ PostAdmitted(g, t)
        PROVE  Same
    BY <2>1 DEF PostRejected, PostAdmitted, Pool!tqVars, InHand, Busy, Reported,
       postVars, runVars, stopVars
  <2>2. ASSUME NEW g \in Goroutines, PostCount(g)
        PROVE  Same
    BY <2>2 DEF PostCount, Pool!tqVars, InHand, Busy, Reported, postVars, runVars,
       stopVars
  <2>3. ASSUME NEW g \in Goroutines, PostSend(g)
        PROVE  Pool!Accept(postArg[g])
    <3>1. postArg[g] \notin Queued \cup InHand \cup ran
      BY <2>3, <1>2 DEF Inv, Accounted, Once, PostSend
    <3>2. InHand' = InHand /\ Reported' = Reported
      BY <2>3 DEF PostSend, InHand, Busy, Reported, runVars, stopVars
    <3>. QED
      BY <2>3, <3>1, <3>2 DEF PostSend, Pool!Accept, Pool!Waiting, Queued, Elems,
         runVars, stopVars
  <2>4. ASSUME NEW g \in Goroutines, PostOnClosed(g)
        PROVE  Same \/ \E t \in Tasks : Pool!Complete(t)
    <3>1. Reported' = Reported
      BY <2>4 DEF PostOnClosed, Reported, stopVars
    <3>2. CASE UNCHANGED <<runPc, runArg, ran>>
      BY <2>4, <3>1, <3>2 DEF PostOnClosed, Pool!tqVars, InHand, Busy, stopVars
    <3>3. CASE /\ g \in Runners
               /\ runPc' = [runPc EXCEPT ![g] = "panicked"]
               /\ ran' = ran \cup {runArg[g]}
               /\ runArg' = [runArg EXCEPT ![g] = NoTask]
      <4>1. g \in Busy /\ runArg[g] \in Tasks
        BY <2>4, <3>3, <1>2 DEF Inv, PcInv, Busy, PostOnClosed
      <4>2. Busy' = Busy \ {g} /\ \A q \in Busy' : runArg'[q] = runArg[q]
        BY <3>3, <1>2 DEF Inv, TypeOK, Busy
      <4>3. InHand' = InHand \ {runArg[g]} /\ runArg[g] \in InHand
        BY <4>1, <4>2, <1>2 DEF Inv, Once, InHand
      <4>4. Pool!Complete(runArg[g])
        BY <2>4, <3>1, <3>3, <4>3 DEF PostOnClosed, Pool!Complete, stopVars
      <4>. QED
        BY <4>1, <4>4
    <3>. QED
      BY <3>2, <3>3, <2>4 DEF PostOnClosed
  <2>5. ASSUME NEW r \in Runners, Start(r) \/ Begin(r) \/ Restart(r) \/ Exit(r)
        PROVE  Same
    <3>1. InHand' = InHand
      BY <2>5, <1>2 DEF Inv, TypeOK, InHand, Busy, Start, Begin, Restart, Exit
    <3>. QED
      BY <2>5, <3>1 DEF Start, Begin, Restart, Exit, Pool!tqVars, Reported, stopVars
  <2>6. ASSUME NEW r \in Runners, Take(r)
        PROVE  Pool!Dispatch
    <3>1. InHand' = InHand \cup {Head(fs)}
      BY <2>6, <1>2 DEF Inv, TypeOK, InHand, Busy, Take
    <3>. QED
      BY <2>6, <3>1 DEF Take, Pool!Dispatch, Reported, stopVars
  <2>7. ASSUME NEW r \in Runners, Finish(r) \/ Panic(r)
        PROVE  \E t \in Tasks : Pool!Complete(t)
    <3>. PICK nextPc \in {"idle", "panicked"} : TaskEnds(r, nextPc)
      BY <2>7 DEF Finish, Panic
    <3>1. /\ r \in Busy /\ runArg[r] \in Tasks
          /\ Busy' = Busy \ {r} /\ \A q \in Busy' : runArg'[q] = runArg[q]
      BY <1>2 DEF Inv, TypeOK, PcInv, Busy, TaskEnds
    <3>2. InHand' = InHand \ {runArg[r]} /\ runArg[r] \in InHand
      BY <3>1, <1>2 DEF Inv, Once, InHand
    <3>3. Pool!Complete(runArg[r])
      BY <3>2 DEF TaskEnds, Pool!Complete, Reported, stopVars
    <3>. QED
      BY <3>1, <3>3
  <2>8. ASSUME WgDone
        PROVE  Same
    BY <2>8 DEF WgDone, Pool!tqVars, InHand, Busy, Reported, stopVars
  <2>9. ASSUME NEW s \in Stoppers, StopClaim(s) \/ StopSkip(s)
        PROVE  Same
    <3>1. Reported' = Reported
      BY <2>9, <1>2 DEF Inv, TypeOK, Reported, StopClaim, StopSkip
    <3>. QED
      BY <2>9, <3>1 DEF StopClaim, StopSkip, Pool!tqVars, InHand, Busy, runVars
  <2>10. ASSUME NEW s \in Stoppers, StopClose(s)
         PROVE  Same \/ Pool!Close
    <3>1. Reported' = Reported
      BY <2>10, <1>2 DEF Inv, TypeOK, Reported, StopClose
    <3>2. InHand' = InHand
      BY <2>10 DEF StopClose, InHand, Busy, runVars
    <3>. QED
      BY <2>10, <3>1, <3>2, <1>2 DEF Inv, TypeOK, StopClose, Pool!tqVars, Pool!Close,
         runVars
  <2>11. ASSUME NEW s \in Stoppers, StopReturn(s)
         PROVE  Pool!ReportQuiet
    <3>1. StopDrains' /\ PcInv' /\ stopPc'[s] = "drained"
      BY <2>11, <1>2, DrainsStep, PcStep DEF StopReturn, Inv, TypeOK
    <3>2. Reported'
      BY <3>1 DEF Reported
    <3>3. fs = <<>> /\ InHand = {} /\ chClosed
      BY <3>1, <2>11 DEF StopDrains, PcInv, StopReturn, Live, InHand, Busy, runVars
    <3>4. InHand' = InHand
      BY <2>11 DEF StopReturn, InHand, Busy, runVars
    <3>. QED
      BY <3>2, <3>3, <3>4, <2>11 DEF StopReturn, Pool!ReportQuiet, runVars
  <2>12. CASE UNCHANGED vars
    BY <2>12 DEF vars, Pool!tqVars, InHand, Busy, Reported, postVars, runVars, stopVars
  <2>13. ASSUME NEW g \in Goroutines, PostSend(g)
         PROVE  postArg[g] \in Tasks
    BY <2>13, <1>2 DEF Inv, PcInv, PostSend
  <2>. QED
    BY <1>2, <2>1, <2>2, <2>3, <2>4, <2>5, <2>6, <2>7, <2>8, <2>9, <2>10, <2>11, <2>12,
       <2>13
       DEF Next, PostStep, RunnerStep, StopStep, Terminated, Pool!TQNext
<1>. QED
  BY <1>1, <1>2, Invariance, PTL DEF Spec, ImplementsTaskQueue, Pool!TQSpec

===============================================================================
