--------------------------- MODULE ApplicationProofs ---------------------------
(* Theorems about Application.tla, for any requests, runners and callers   *)
(* of Shutdown.                                                            *)
EXTENDS Application, TLAPS, SequenceTheorems

Threads == Callers \cup Runners \cup {Startup}

(* A request is taken by receive once NATS has delivered it, and by a      *)
(* runner once it was accepted.                                            *)
FlowInv ==
  /\ \A i \in 1..Len(ch) : ch[i] \in arrived
  /\ recvPc = "posting" => recvMsg \in arrived
  /\ \A i \in 1..Len(fs) : fs[i] \in accepted
  /\ \A r \in Runners : run[r] # NoReq => run[r] \in accepted

(* Inside Stop and Shutdown: somebody has closed the worker; a runner is   *)
(* there on behalf of its handler; who waits has closed the channel; and   *)
(* when the one that closed the worker is past its Stop, it is drained.    *)
StopInv ==
  /\ \A a \in Threads : stopPc[a] # "idle" => closed
  /\ \A r \in Runners : stopPc[r] \in {"closing", "waiting", "sending"} => run[r] \in ShutdownReqs
  /\ \A a \in Threads : stopPc[a] = "waiting" => chClosed
  /\ closed => stopPc[closer] \in {"closing", "waiting"} \/ (chClosed /\ Drained)
  /\ mainPc = "done" => closed
  /\ cause \in Threads => closed
  /\ mainPc \notin {"stopping", "stopWorker", "done"} => cause = "none"

(* Until something ends the node, each accepted request is in the queue,   *)
(* with a runner, or done.                                                 *)
Accounted ==
  cause = "none" =>
    \A m \in accepted : \/ m \in answered \cup failed
                        \/ \E i \in 1..Len(fs) : fs[i] = m
                        \/ \E r \in Runners : run[r] = m

(* What the one that closed the worker leaves behind when it ends the node.*)
EndInv == cause = closer => chClosed /\ accepted \subseteq answered \cup failed

Inv == TypeOK /\ FlowInv /\ StopInv /\ Accounted /\ EndInv

-------------------------------------------------------------------------------
LEMMA Names ==
  /\ \A a \in Threads : a # "none" /\ a # "signal" /\ a # Nobody
  /\ "none" # Nobody /\ "signal" # Nobody
  /\ Startup \notin Runners /\ Callers \cap Runners = {}
  BY ConstantsOK DEF ConstantsOK, Threads

LEMMA Steps ==
  ASSUME TypeOK, [Next]_vars
  PROVE  \/ InitCluster \/ InitDiscovery \/ OnAfterInit \/ SetRunning \/ StopCluster
         \/ StartupReturns \/ TakeSignal
         \/ \E m \in Reqs : Arrive(m)
         \/ Subscribe \/ Receive \/ PostSend
         \/ \E r \in Runners : Take(r) \/ Answer(r)
         \/ \E a \in Threads : \/ StopClaim(a) \/ StopSkip(a) \/ StopClose(a) \/ StopReturn(a)
                               \/ TakeDie(a) \/ EtcdTakesDie(a)
         \/ UNCHANGED vars
  BY DEF Next, StartupStep, StopStep, DieStep, Threads, TypeOK

(* The type invariant is kept.                                             *)
LEMMA TypeStep ==
  ASSUME Inv, [Next]_vars
  PROVE  TypeOK'
<1>. USE DEF Inv, TypeOK, FlowInv, Threads, AfterStop, mainVars, recvVars, workVars, stopVars
<1>1. CASE InitCluster
  BY <1>1 DEF InitCluster
<1>2. CASE InitDiscovery
  BY <1>2 DEF InitDiscovery
<1>3. CASE OnAfterInit
  BY <1>3 DEF OnAfterInit
<1>4. CASE SetRunning
  BY <1>4 DEF SetRunning
<1>5. CASE StopCluster
  BY <1>5 DEF StopCluster
<1>6. CASE StartupReturns
  BY <1>6 DEF StartupReturns
<1>7. CASE TakeSignal
  BY <1>7 DEF TakeSignal
<1>8. ASSUME NEW m \in Reqs, Arrive(m)
      PROVE  TypeOK'
  BY <1>8 DEF Arrive
<1>9. CASE Receive
  BY <1>9 DEF Receive
<1>10. CASE PostSend
  <2>1. /\ UNCHANGED <<mainVars, etcd, ch, arrived, run, answered, failed, stopVars>>
        /\ recvPc' = "idle" /\ recvMsg' = NoReq /\ crashed' = chClosed /\ recvMsg \in arrived
    BY <1>10 DEF PostSend, FlowInv
  <2>2. fs' \in Seq(Reqs) /\ accepted' \subseteq arrived /\ accepted \subseteq accepted'
    <3>1. CASE chClosed
      BY <1>10, <3>1 DEF PostSend
    <3>2. CASE ~chClosed
      <4>1. fs' = Append(fs, recvMsg) /\ accepted' = accepted \cup {recvMsg} /\ recvMsg \in Reqs
        BY <1>10, <2>1, <3>2 DEF PostSend
      <4>. QED
        BY <2>1, <4>1
    <3>. QED
      BY <3>1, <3>2
  <2>. QED
    BY <2>1, <2>2 DEF TypeOK, mainVars, stopVars
<1>11. ASSUME NEW r \in Runners, Take(r)
      PROVE  TypeOK'
  BY <1>11 DEF Take
<1>12. ASSUME NEW r \in Runners, Answer(r)
      PROVE  TypeOK'
  BY <1>12 DEF Answer
<1>13. ASSUME NEW a \in Threads, StopClaim(a)
      PROVE  TypeOK'
  BY <1>13 DEF StopClaim
<1>14. ASSUME NEW a \in Threads, StopSkip(a)
      PROVE  TypeOK'
  BY <1>14 DEF StopSkip
<1>15. ASSUME NEW a \in Threads, StopClose(a)
      PROVE  TypeOK'
  BY <1>15 DEF StopClose
<1>16. ASSUME NEW a \in Threads, StopReturn(a)
      PROVE  TypeOK'
  BY <1>16 DEF StopReturn
<1>17. ASSUME NEW a \in Threads, TakeDie(a)
      PROVE  TypeOK'
  BY <1>17 DEF TakeDie
<1>18. ASSUME NEW a \in Threads, EtcdTakesDie(a)
      PROVE  TypeOK'
  BY <1>18 DEF EtcdTakesDie
<1>19. CASE UNCHANGED vars
  BY <1>19 DEF vars
<1>20. CASE Subscribe
  BY <1>20 DEF Subscribe
<1>. QED
  BY <1>1, <1>2, <1>3, <1>4, <1>5, <1>6, <1>7, <1>8, <1>9, <1>10, <1>11, <1>12, <1>13, <1>14, <1>15,
     <1>16, <1>17, <1>18, <1>19, <1>20, Steps

(* Requests keep their way through channel, receive, queue and runner.     *)
LEMMA FlowStep ==
  ASSUME Inv, [Next]_vars
  PROVE  FlowInv'
<1>. USE DEF Inv, FlowInv, TypeOK, mainVars, recvVars, workVars, stopVars
<1>1. CASE InitCluster
  BY <1>1 DEF InitCluster
<1>2. CASE InitDiscovery
  BY <1>2 DEF InitDiscovery
<1>3. CASE OnAfterInit
  BY <1>3 DEF OnAfterInit
<1>4. CASE SetRunning
  BY <1>4 DEF SetRunning
<1>5. CASE StopCluster
  BY <1>5 DEF StopCluster
<1>6. CASE StartupReturns
  BY <1>6 DEF StartupReturns
<1>7. CASE TakeSignal
  BY <1>7 DEF TakeSignal
<1>8. ASSUME NEW m \in Reqs, Arrive(m)
      PROVE  FlowInv'
  BY <1>8 DEF Arrive
<1>9. CASE Receive
  BY <1>9 DEF Receive
<1>10. CASE PostSend
  <2>1. CASE chClosed
    BY <1>10, <2>1 DEF PostSend
  <2>2. CASE ~chClosed
    <3>1. fs' = Append(fs, recvMsg) /\ accepted' = accepted \cup {recvMsg} /\ recvMsg \in Reqs
      BY <1>10, <2>2, ConstantsOK DEF PostSend, ConstantsOK
    <3>2. \A i \in 1..Len(fs') : fs'[i] \in accepted'
      BY <3>1, AppendProperties
    <3>. QED
      BY <1>10, <3>1, <3>2 DEF PostSend
  <2>. QED
    BY <2>1, <2>2
<1>11. ASSUME NEW r \in Runners, Take(r)
      PROVE  FlowInv'
  BY <1>11 DEF Take
<1>12. ASSUME NEW r \in Runners, Answer(r)
      PROVE  FlowInv'
  BY <1>12 DEF Answer
<1>13. ASSUME NEW a \in Threads, StopClaim(a)
      PROVE  FlowInv'
  BY <1>13 DEF StopClaim
<1>14. ASSUME NEW a \in Threads, StopSkip(a)
      PROVE  FlowInv'
  BY <1>14 DEF StopSkip
<1>15. ASSUME NEW a \in Threads, StopClose(a)
      PROVE  FlowInv'
  BY <1>15 DEF StopClose
<1>16. ASSUME NEW a \in Threads, StopReturn(a)
      PROVE  FlowInv'
  BY <1>16 DEF StopReturn
<1>17. ASSUME NEW a \in Threads, TakeDie(a)
      PROVE  FlowInv'
  BY <1>17 DEF TakeDie
<1>18. ASSUME NEW a \in Threads, EtcdTakesDie(a)
      PROVE  FlowInv'
  BY <1>18 DEF EtcdTakesDie
<1>19. CASE UNCHANGED vars
  BY <1>19 DEF vars
<1>20. CASE Subscribe
  BY <1>20 DEF Subscribe
<1>. QED
  BY <1>1, <1>2, <1>3, <1>4, <1>5, <1>6, <1>7, <1>8, <1>9, <1>10, <1>11, <1>12, <1>13, <1>14, <1>15,
     <1>16, <1>17, <1>18, <1>19, <1>20, Steps

(* The one that closed the worker waits until it is drained, and nothing   *)
(* enters it any more.                                                     *)
LEMMA StopInvStep ==
  ASSUME Inv, [Next]_vars
  PROVE  StopInv'
<1>. USE DEF Inv, StopInv, TypeOK, closed, Drained, AfterStop, Threads, mainVars,
      recvVars, workVars, stopVars
<1>1. CASE InitCluster
  BY <1>1, Names DEF InitCluster
<1>2. CASE InitDiscovery
  BY <1>2, Names DEF InitDiscovery
<1>3. CASE OnAfterInit
  BY <1>3, Names DEF OnAfterInit
<1>4. CASE SetRunning
  BY <1>4, Names DEF SetRunning
<1>5. CASE StopCluster
  BY <1>5, Names DEF StopCluster
<1>6. CASE StartupReturns
  BY <1>6, Names DEF StartupReturns
<1>7. CASE TakeSignal
  BY <1>7, Names DEF TakeSignal
<1>8. ASSUME NEW m \in Reqs, Arrive(m)
      PROVE  StopInv'
  BY <1>8, Names DEF Arrive
<1>9. CASE Receive
  BY <1>9, Names DEF Receive
<1>10. CASE PostSend
  BY <1>10, Names DEF PostSend
<1>11. ASSUME NEW r \in Runners, Take(r)
      PROVE  StopInv'
  <2>1. run[r] = NoReq /\ NoReq \notin ShutdownReqs /\ ~Drained
    BY <1>11, ConstantsOK DEF ConstantsOK, Drained, Take
  <2>2. stopPc[r] \notin {"closing", "waiting", "sending"}
    BY <2>1 DEF StopInv
  <2>3. /\ UNCHANGED <<mainPc, cause, closer, chClosed>>
        /\ stopPc' = [stopPc EXCEPT ![r] = "idle"] /\ \A q \in Runners \ {r} : run'[q] = run[q]
    BY <1>11 DEF Take, mainVars, TypeOK
  <2>4. closed => stopPc[closer] \in {"closing", "waiting"} /\ closer # r
    BY <2>1, <2>2 DEF StopInv
  <2>. QED
    BY <2>2, <2>3, <2>4 DEF StopInv, TypeOK, closed, Threads
<1>12. ASSUME NEW r \in Runners, Answer(r)
      PROVE  StopInv'
  BY <1>12, Names DEF Answer
<1>13. ASSUME NEW a \in Threads, StopClaim(a)
      PROVE  StopInv'
  <2>1. a \in Runners => run[a] \in ShutdownReqs
    BY <1>13, Names DEF StopClaim, MayStop
  <2>. QED
    BY <1>13, <2>1, Names DEF StopInv, TypeOK, closed, Threads, StopClaim, mainVars, workVars
<1>14. ASSUME NEW a \in Threads, StopSkip(a)
      PROVE  StopInv'
  <2>1. a \in Runners => run[a] \in ShutdownReqs
    BY <1>14, Names DEF StopSkip, MayStop
  <2>. QED
    BY <1>14, <2>1, Names DEF StopInv, TypeOK, closed, Drained, AfterStop, Threads, StopSkip, mainVars,
       workVars
<1>15. ASSUME NEW a \in Threads, StopClose(a)
      PROVE  StopInv'
  BY <1>15, Names DEF StopClose
<1>16. ASSUME NEW a \in Threads, StopReturn(a)
      PROVE  StopInv'
  BY <1>16, Names DEF StopReturn
<1>17. ASSUME NEW a \in Threads, TakeDie(a)
      PROVE  StopInv'
  BY <1>17, Names DEF TakeDie
<1>18. ASSUME NEW a \in Threads, EtcdTakesDie(a)
      PROVE  StopInv'
  BY <1>18, Names DEF EtcdTakesDie
<1>19. CASE UNCHANGED vars
  BY <1>19 DEF vars
<1>20. CASE Subscribe
  BY <1>20, Names DEF Subscribe
<1>. QED
  BY <1>1, <1>2, <1>3, <1>4, <1>5, <1>6, <1>7, <1>8, <1>9, <1>10, <1>11, <1>12, <1>13, <1>14, <1>15,
     <1>16, <1>17, <1>18, <1>19, <1>20, Steps

(* No accepted request is lost while the node is up.                       *)
LEMMA AccountedStep ==
  ASSUME Inv, [Next]_vars
  PROVE  Accounted'
<1>. USE DEF Inv, Accounted, TypeOK, Threads, mainVars, recvVars, workVars, stopVars
<1>1. CASE InitCluster
  BY <1>1 DEF InitCluster
<1>2. CASE InitDiscovery
  BY <1>2 DEF InitDiscovery
<1>3. CASE OnAfterInit
  BY <1>3 DEF OnAfterInit
<1>4. CASE SetRunning
  BY <1>4 DEF SetRunning
<1>5. CASE StopCluster
  BY <1>5 DEF StopCluster
<1>6. CASE StartupReturns
  BY <1>6 DEF StartupReturns
<1>7. CASE TakeSignal
  BY <1>7, Names DEF TakeSignal
<1>8. ASSUME NEW m \in Reqs, Arrive(m)
      PROVE  Accounted'
  BY <1>8 DEF Arrive
<1>9. CASE Receive
  BY <1>9 DEF Receive
<1>10. CASE PostSend
  <2>1. CASE chClosed
    BY <1>10, <2>1 DEF PostSend
  <2>2. CASE ~chClosed
    <3>1. fs' = Append(fs, recvMsg) /\ accepted' = accepted \cup {recvMsg} /\ recvMsg \in arrived
      BY <1>10, <2>2 DEF PostSend, FlowInv
    <3>2. /\ Len(fs) \in Nat /\ Len(fs') = Len(fs) + 1 /\ fs'[Len(fs) + 1] = recvMsg
          /\ \A i \in 1..Len(fs) : fs'[i] = fs[i]
      BY <3>1, AppendProperties
    <3>3. \A i \in 1..Len(fs) : i \in 1..Len(fs')
      BY <3>2
    <3>4. Len(fs) + 1 \in 1..Len(fs')
      BY <3>2
    <3>5. UNCHANGED <<cause, run, answered, failed>>
      BY <1>10 DEF PostSend
    <3>. QED
      BY <3>1, <3>2, <3>3, <3>4, <3>5
  <2>. QED
    BY <2>1, <2>2
<1>11. ASSUME NEW r \in Runners, Take(r)
      PROVE  Accounted'
  <2>1. /\ fs' = Tail(fs) /\ run' = [run EXCEPT ![r] = fs[1]] /\ run[r] = NoReq
        /\ UNCHANGED <<cause, accepted, answered, failed>>
    BY <1>11 DEF Take, mainVars, TypeOK
  <2>2. Len(Tail(fs)) = Len(fs) - 1 /\ \A i \in 1..(Len(fs) - 1) : Tail(fs)[i] = fs[i + 1]
    BY <1>11, HeadTailProperties DEF Take, TypeOK
  <2>3. Len(fs) \in Nat /\ NoReq \notin accepted
    BY ConstantsOK DEF ConstantsOK, TypeOK
  <2>4. ASSUME cause = "none", NEW m \in accepted, m \notin answered \cup failed
        PROVE  (\E i \in 1..Len(fs') : fs'[i] = m) \/ (\E q \in Runners : run'[q] = m)
    <3>1. CASE \E q \in Runners : run[q] = m
      BY <2>1, <2>3, <3>1 DEF TypeOK
    <3>2. ASSUME NEW i \in 1..Len(fs), fs[i] = m
          PROVE  (\E j \in 1..Len(fs') : fs'[j] = m) \/ (\E q \in Runners : run'[q] = m)
      <4>1. CASE i = 1
        BY <2>1, <3>2, <4>1 DEF TypeOK
      <4>2. CASE i # 1
        <5>1. i - 1 \in 1..Len(Tail(fs)) /\ Tail(fs)[i - 1] = m
          BY <2>2, <2>3, <3>2, <4>2
        <5>. QED
          BY <2>1, <5>1
      <4>. QED
        BY <4>1, <4>2
    <3>. QED
      BY <2>4, <3>1, <3>2 DEF Accounted
  <2>. QED
    BY <2>1, <2>4 DEF Accounted
<1>12. ASSUME NEW r \in Runners, Answer(r)
      PROVE  Accounted'
  BY <1>12 DEF Answer
<1>13. ASSUME NEW a \in Threads, StopClaim(a)
      PROVE  Accounted'
  BY <1>13 DEF StopClaim
<1>14. ASSUME NEW a \in Threads, StopSkip(a)
      PROVE  Accounted'
  BY <1>14 DEF StopSkip
<1>15. ASSUME NEW a \in Threads, StopClose(a)
      PROVE  Accounted'
  BY <1>15 DEF StopClose
<1>16. ASSUME NEW a \in Threads, StopReturn(a)
      PROVE  Accounted'
  BY <1>16 DEF StopReturn
<1>17. ASSUME NEW a \in Threads, TakeDie(a)
      PROVE  Accounted'
  BY <1>17, Names DEF TakeDie
<1>18. ASSUME NEW a \in Threads, EtcdTakesDie(a)
      PROVE  Accounted'
  BY <1>18 DEF EtcdTakesDie
<1>19. CASE UNCHANGED vars
  BY <1>19 DEF vars
<1>20. CASE Subscribe
  BY <1>20 DEF Subscribe
<1>. QED
  BY <1>1, <1>2, <1>3, <1>4, <1>5, <1>6, <1>7, <1>8, <1>9, <1>10, <1>11, <1>12, <1>13, <1>14, <1>15,
     <1>16, <1>17, <1>18, <1>19, <1>20, Steps

(* When the one that closed the worker ends the node, all has been done.   *)
LEMMA EndStep ==
  ASSUME Inv, [Next]_vars
  PROVE  EndInv'
<1>. USE DEF Inv, EndInv, TypeOK, StopInv, Accounted, Drained, closed, Threads, mainVars,
      recvVars, workVars, stopVars
<1>1. CASE InitCluster
  BY <1>1 DEF InitCluster
<1>2. CASE InitDiscovery
  BY <1>2 DEF InitDiscovery
<1>3. CASE OnAfterInit
  BY <1>3 DEF OnAfterInit
<1>4. CASE SetRunning
  BY <1>4 DEF SetRunning
<1>5. CASE StopCluster
  BY <1>5 DEF StopCluster
<1>6. CASE StartupReturns
  BY <1>6 DEF StartupReturns
<1>7. CASE TakeSignal
  BY <1>7, Names DEF TakeSignal
<1>8. ASSUME NEW m \in Reqs, Arrive(m)
      PROVE  EndInv'
  BY <1>8 DEF Arrive
<1>9. CASE Receive
  BY <1>9 DEF Receive
<1>10. CASE PostSend
  BY <1>10 DEF PostSend
<1>11. ASSUME NEW r \in Runners, Take(r)
      PROVE  EndInv'
  BY <1>11 DEF Take
<1>12. ASSUME NEW r \in Runners, Answer(r)
      PROVE  EndInv'
  BY <1>12 DEF Answer
<1>13. ASSUME NEW a \in Threads, StopClaim(a)
      PROVE  EndInv'
  BY <1>13 DEF StopClaim
<1>14. ASSUME NEW a \in Threads, StopSkip(a)
      PROVE  EndInv'
  BY <1>14 DEF StopSkip
<1>15. ASSUME NEW a \in Threads, StopClose(a)
      PROVE  EndInv'
  BY <1>15 DEF StopClose
<1>16. ASSUME NEW a \in Threads, StopReturn(a)
      PROVE  EndInv'
  BY <1>16 DEF StopReturn
<1>17. ASSUME NEW a \in Threads, TakeDie(a)
      PROVE  EndInv'
  <2>1. stopPc[a] = "sending" /\ cause = "none" /\ cause' = a
    BY <1>17 DEF StopInv, TakeDie
  <2>2. UNCHANGED <<closer, chClosed, accepted, answered, failed>>
    BY <1>17 DEF TakeDie, workVars
  <2>3. CASE closer = a
    <3>1. chClosed /\ Drained
      BY <2>1, <2>3, Names DEF StopInv, closed
    <3>2. Len(fs) = 0 /\ NoReq \notin accepted
      BY <3>1, ConstantsOK, EmptySeq DEF ConstantsOK, Drained, TypeOK
    <3>3. accepted \subseteq answered \cup failed
      BY <2>1, <3>1, <3>2 DEF Accounted, Drained
    <3>. QED
      BY <2>2, <3>1, <3>3 DEF EndInv
  <2>. QED
    BY <2>1, <2>2, <2>3 DEF EndInv
<1>18. ASSUME NEW a \in Threads, EtcdTakesDie(a)
      PROVE  EndInv'
  BY <1>18 DEF EtcdTakesDie
<1>19. CASE UNCHANGED vars
  BY <1>19 DEF vars
<1>20. CASE Subscribe
  BY <1>20 DEF Subscribe
<1>. QED
  BY <1>1, <1>2, <1>3, <1>4, <1>5, <1>6, <1>7, <1>8, <1>9, <1>10, <1>11, <1>12, <1>13, <1>14, <1>15,
     <1>16, <1>17, <1>18, <1>19, <1>20, Steps

-------------------------------------------------------------------------------
(* The invariant holds in every reachable state.                           *)
THEOREM Invariance == Spec => []Inv
<1>1. Init => Inv
  <2>. SUFFICES ASSUME Init
                PROVE  Inv
    OBVIOUS
  <2>1. TypeOK
    BY EmptySeq DEF Init, TypeOK
  <2>2. FlowInv /\ Accounted
    BY EmptySeq DEF Init, FlowInv, Accounted
  <2>3. StopInv /\ EndInv
    BY Names DEF Init, StopInv, EndInv, Threads, closed
  <2>. QED
    BY <2>1, <2>2, <2>3 DEF Inv
<1>2. Inv /\ [Next]_vars => Inv'
  BY TypeStep, FlowStep, StopInvStep, AccountedStep, EndStep DEF Inv
<1>. QED
  BY <1>1, <1>2, PTL DEF Spec

(* application.go, cluster.go: the state keeps its types.                  *)
THEOREM TypeCorrect == Spec => []TypeOK
<1>1. Inv => TypeOK
  BY DEF Inv
<1>. QED
  BY <1>1, Invariance, PTL

(* application.go:250-253: Shutdown drains the worker before it ends the   *)
(* node.                                                                   *)
THEOREM NothingIsAbandoned == Spec => []AcceptedAreAnswered
<1>1. Inv => AcceptedAreAnswered
  BY DEF Inv, EndInv, AcceptedAreAnswered
<1>. QED
  BY <1>1, Invariance, PTL

(* application.go:238-245, worker.go:65-70: nothing is half done at exit.  *)
THEOREM StartupReturnsClean == Spec => []ExitIsClean
<1>1. Inv => ExitIsClean
  BY DEF Inv, TypeOK, StopInv, ExitIsClean, closed, Threads
<1>. QED
  BY <1>1, Invariance, PTL

===============================================================================
