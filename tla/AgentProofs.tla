----------------------------- MODULE AgentProofs ------------------------------
(* Theorems about Agent.tla, for any set of responses, any finite number   *)
(* of runners and any backlog, and about the table of Agents.tla, for any  *)
(* number of sessions and players.                                         *)
EXTENDS Agent, Agents, TLAPS, FiniteSetTheorems, SequenceTheorems

Places == {"loop", "push", "write", "unbind", "disconnect", "closeWrite", "close", "select",
           "closing", "done"}
Ending == {"select", "closing"}
Gone   == {"close", "select", "closing", "done"}

(* Close: the goroutine whose swap found "init" is on its way to chDie,    *)
(* and nobody else ever is.                                                *)
CloseInv ==
  /\ pc["reader"] \in {"loop"} \cup Gone
  /\ \A g \in Loops : pc[g] \in Ending => chDie = "open"
  /\ \A g, h \in Loops : pc[g] \in Ending /\ pc[h] \in Ending => g = h
  /\ \A g \in Loops : pc[g] \in Ending \cup {"done"} => state = "closed"
  /\ chDie = "closed" => state = "closed"
  /\ state = "closed" => chDie = "closed" \/ \E g \in Loops : pc[g] \in Ending

(* closeProcess: what the writer has left behind where.                    *)
WriterInv ==
  /\ pc["writer"] \in {"disconnect", "closeWrite"} \cup Gone => ~registered
  /\ pc["writer"] \in {"closeWrite"} \cup Gone => conn = "closed"
  /\ pc["writer"] \notin Gone => chWriteOpen

(* Who moves a response has one.                                           *)
HandInv ==
  /\ pc["writer"] \in {"push", "write"} => inHand \in Msgs
  /\ \A r \in Runners : sendPc[r] # "idle" => sendMsg[r] \in Msgs

Inv == TypeOK /\ CloseInv /\ WriterInv /\ HandInv /\ NoPanic /\ OrderKept /\ FewWaiting

-------------------------------------------------------------------------------
(* The steps, by what they touch.                                          *)

WriterCloses == CloseUnbind \/ Disconnect \/ CloseWrite
WriterTurns  == TakeDie \/ TickIdle

LEMMA Steps ==
  ASSUME [Next]_vars
  PROVE  \/ PeerBreaks \/ PeerStalls \/ Forward \/ ReadFails \/ TickAlive
         \/ \E g \in Loops : CloseSwap(g) \/ CloseSelect(g) \/ CloseDie(g)
         \/ WriterTurns \/ TakePending \/ TakeWrite \/ Push \/ WriteEnds \/ WriterCloses
         \/ \E r \in Runners : CheckState(r) \/ CheckRoom(r) \/ Put(r)
         \/ \E r \in Runners, m \in Msgs : FindAgent(r, m)
         \/ UNCHANGED vars
  BY DEF Next, Terminated, CloseStep, WriterSelects, WriterMoves, Deliver, WriterCloses,
     WriterTurns

(* A runner's step leaves the connection and its goroutines alone.         *)
LEMMA RunnerFrame ==
  ASSUME NEW r \in Runners,
         CheckState(r) \/ CheckRoom(r) \/ Put(r) \/ \E m \in Msgs : FindAgent(r, m)
  PROVE  UNCHANGED <<connVars, dieVars, chWrite, chWriteOpen, inHand, written, registered,
                     pc, age, crashed>>
  BY DEF CheckState, CheckRoom, Put, FindAgent, SendStep, connVars, dieVars, outVars

(* In its loop and in closeProcess the writer moves only itself.           *)
LEMMA WriterFrame ==
  ASSUME TypeOK, CloseInv,
         WriterTurns \/ TakePending \/ TakeWrite \/ Push \/ WriteEnds \/ WriterCloses
  PROVE  /\ pc["writer"] \notin Gone
         /\ pc'["writer"] \notin Ending \cup {"done"} /\ pc'["reader"] = pc["reader"]
         /\ pc' \in [Loops -> Places]
         /\ UNCHANGED <<dieVars, sendVars, stalled, age>>
  BY DEF TypeOK, Loops, Places, Gone, Ending, WriterTurns, WriterCloses, TakeDie, TickIdle, TakePending,
     TakeWrite, Push, WriteEnds, CloseUnbind, Disconnect, CloseWrite, Selecting, WriterGoes, connVars

-------------------------------------------------------------------------------
(* The type invariant is kept, given who holds a response.                 *)
LEMMA TypeStep ==
  ASSUME Inv, [Next]_vars
  PROVE  TypeOK'
<1>. USE DEF Inv
<1>1. TypeOK
  OBVIOUS
<1>2. ASSUME UNCHANGED <<dieVars, outVars, sendVars, registered, pc, crashed>>,
             conn' \in {"open", "broken", "closed"}, stalled' \in BOOLEAN, age' \in 0..IdleTicks
      PROVE  TypeOK'
  BY <1>1, <1>2 DEF TypeOK, dieVars, outVars, sendVars
<1>3. CASE PeerBreaks
  BY <1>1, <1>2, <1>3 DEF TypeOK, PeerBreaks
<1>4. CASE PeerStalls
  BY <1>1, <1>2, <1>4 DEF TypeOK, PeerStalls
<1>5. CASE Forward
  BY <1>1, <1>2, <1>5 DEF TypeOK, Forward, connVars, IdleTicks
<1>6. CASE TickAlive
  BY <1>1, <1>2, <1>6 DEF TypeOK, TickAlive, connVars, IdleTicks
<1>7. ASSUME UNCHANGED <<outVars, sendVars, stalled, age>>, pc' \in [Loops -> Places],
             state' \in {"init", "closed"}, chDie' \in {"open", "closed"},
             registered' \in BOOLEAN, conn' \in {"open", "broken", "closed"}, crashed' \in BOOLEAN
      PROVE  TypeOK'
  BY <1>1, <1>7 DEF TypeOK, Places, outVars, sendVars
<1>8. CASE ReadFails
  <2>1. pc' \in [Loops -> Places]
    BY <1>1, <1>8 DEF TypeOK, Places, ReadFails
  <2>. QED
    BY <1>1, <1>7, <1>8, <2>1 DEF TypeOK, ReadFails, connVars, dieVars
<1>9. ASSUME NEW g \in Loops, CloseSwap(g)
      PROVE  TypeOK'
  <2>1. pc' \in [Loops -> Places]
    BY <1>1, <1>9 DEF TypeOK, Places, CloseSwap
  <2>. QED
    BY <1>1, <1>7, <1>9, <2>1 DEF TypeOK, CloseSwap, connVars
<1>10. ASSUME NEW g \in Loops, CloseSelect(g)
       PROVE  TypeOK'
  <2>1. pc' \in [Loops -> Places]
    BY <1>1, <1>10 DEF TypeOK, Places, CloseSelect
  <2>. QED
    BY <1>1, <1>7, <1>10, <2>1 DEF TypeOK, CloseSelect, connVars, dieVars
<1>11. ASSUME NEW g \in Loops, CloseDie(g)
       PROVE  TypeOK'
  <2>1. pc' \in [Loops -> Places]
    BY <1>1, <1>11 DEF TypeOK, Places, CloseDie
  <2>. QED
    BY <1>1, <1>7, <1>11, <2>1 DEF TypeOK, CloseDie, connVars
<1>12. CASE WriterTurns
  <2>1. pc' \in [Loops -> Places]
    BY <1>12, WriterFrame
  <2>. QED
    BY <1>1, <1>7, <1>12, <2>1 DEF TypeOK, WriterTurns, TakeDie, TickIdle, connVars, dieVars
<1>13. CASE CloseUnbind \/ Disconnect
  <2>1. pc' \in [Loops -> Places]
    BY <1>13, WriterFrame DEF WriterCloses
  <2>. QED
    BY <1>1, <1>7, <1>13, <2>1 DEF TypeOK, CloseUnbind, Disconnect, connVars, dieVars
<1>14. ASSUME UNCHANGED <<connVars, dieVars, sendVars, registered, age>>,
              pc' \in [Loops -> Places], crashed' \in BOOLEAN, chWriteOpen' \in BOOLEAN,
              chPending' \in Seq(Msgs), Len(chPending') <= Backlog,
              chWrite' \in Seq(Msgs), Len(chWrite') <= Backlog,
              inHand' \in Msgs \cup {NoMsg}, accepted' \in Seq(Msgs), written' \in Seq(Msgs)
       PROVE  TypeOK'
  BY <1>1, <1>14 DEF TypeOK, Places, connVars, dieVars, sendVars
<1>15. /\ chPending \in Seq(Msgs) /\ Len(chPending) <= Backlog
       /\ chWrite \in Seq(Msgs) /\ Len(chWrite) <= Backlog
       /\ Backlog \in Nat /\ Len(chPending) \in Nat /\ Len(chWrite) \in Nat
       /\ inHand \in Msgs \cup {NoMsg} /\ accepted \in Seq(Msgs) /\ written \in Seq(Msgs)
       /\ crashed \in BOOLEAN /\ chWriteOpen \in BOOLEAN
  BY <1>1, ConstantsOK DEF TypeOK, ConstantsOK
<1>16. CASE CloseWrite
  <2>1. pc' \in [Loops -> Places]
    BY <1>16, WriterFrame DEF WriterCloses
  <2>. QED
    BY <1>14, <1>15, <1>16, <2>1 DEF CloseWrite
<1>17. CASE TakePending
  <2>1. pc' \in [Loops -> Places]
    BY <1>17, WriterFrame
  <2>2. Head(chPending) \in Msgs /\ Tail(chPending) \in Seq(Msgs) /\ Len(Tail(chPending)) <= Backlog
    BY <1>15, <1>17, HeadTailProperties DEF TakePending
  <2>. QED
    BY <1>14, <1>15, <1>17, <2>1, <2>2 DEF TakePending
<1>18. CASE TakeWrite
  <2>1. pc' \in [Loops -> Places]
    BY <1>18, WriterFrame
  <2>2. Head(chWrite) \in Msgs /\ Tail(chWrite) \in Seq(Msgs) /\ Len(Tail(chWrite)) <= Backlog
    BY <1>15, <1>18, HeadTailProperties DEF TakeWrite
  <2>. QED
    BY <1>14, <1>15, <1>18, <2>1, <2>2 DEF TakeWrite
<1>19. CASE Push
  <2>1. pc' \in [Loops -> Places]
    BY <1>19, WriterFrame
  <2>2. inHand \in Msgs
    BY <1>19 DEF HandInv, Push
  <2>3. Append(chWrite, inHand) \in Seq(Msgs) /\ Len(Append(chWrite, inHand)) <= Backlog
    BY <1>15, <1>19, <2>2, AppendProperties DEF Push
  <2>. QED
    BY <1>14, <1>15, <1>19, <2>1, <2>3 DEF Push
<1>20. CASE WriteEnds
  <2>1. pc' \in [Loops -> Places]
    BY <1>20, WriterFrame
  <2>2. Append(written, inHand) \in Seq(Msgs)
    BY <1>15, <1>20 DEF HandInv, WriteEnds
  <2>. QED
    BY <1>14, <1>15, <1>20, <2>1, <2>2 DEF WriteEnds
<1>21. ASSUME UNCHANGED <<connVars, dieVars, registered, age, pc, chWriteOpen, chWrite, inHand,
                          written, crashed>>,
              sendPc' \in [Runners -> {"idle", "found", "live", "room"}],
              sendMsg' \in [Runners -> Msgs \cup {NoMsg}], asked' \in SUBSET Msgs,
              chPending' \in Seq(Msgs), Len(chPending') <= Backlog, accepted' \in Seq(Msgs)
       PROVE  TypeOK'
  BY <1>1, <1>21 DEF TypeOK, connVars, dieVars
<1>22. /\ sendPc \in [Runners -> {"idle", "found", "live", "room"}]
       /\ sendMsg \in [Runners -> Msgs \cup {NoMsg}] /\ asked \in SUBSET Msgs
  BY <1>1 DEF TypeOK
<1>23. ASSUME NEW r \in Runners, CheckState(r)
       PROVE  TypeOK'
  <2>1. /\ sendPc' \in [Runners -> {"idle", "found", "live", "room"}]
        /\ sendMsg' \in [Runners -> Msgs \cup {NoMsg}] /\ asked' = asked
    BY <1>22, <1>23 DEF CheckState, SendStep
  <2>. QED
    BY <1>15, <1>21, <1>22, <1>23, <2>1, RunnerFrame DEF CheckState
<1>24. ASSUME NEW r \in Runners, CheckRoom(r)
       PROVE  TypeOK'
  <2>1. /\ sendPc' \in [Runners -> {"idle", "found", "live", "room"}]
        /\ sendMsg' \in [Runners -> Msgs \cup {NoMsg}] /\ asked' = asked
    BY <1>22, <1>24 DEF CheckRoom, SendStep
  <2>. QED
    BY <1>15, <1>21, <1>22, <1>24, <2>1, RunnerFrame DEF CheckRoom
<1>25. ASSUME NEW r \in Runners, Put(r)
       PROVE  TypeOK'
  <2>1. /\ sendPc' \in [Runners -> {"idle", "found", "live", "room"}]
        /\ sendMsg' \in [Runners -> Msgs \cup {NoMsg}] /\ asked' = asked
    BY <1>22, <1>25 DEF Put, SendStep
  <2>2. sendMsg[r] \in Msgs
    BY <1>25 DEF HandInv, Put, SendStep
  <2>3. /\ Append(chPending, sendMsg[r]) \in Seq(Msgs) /\ Append(accepted, sendMsg[r]) \in Seq(Msgs)
        /\ Len(Append(chPending, sendMsg[r])) <= Backlog
    BY <1>15, <1>25, <2>2, AppendProperties DEF Put
  <2>. QED
    BY <1>15, <1>21, <1>22, <1>25, <2>1, <2>3, RunnerFrame DEF Put
<1>26. ASSUME NEW r \in Runners, NEW m \in Msgs, FindAgent(r, m)
       PROVE  TypeOK'
  <2>1. /\ sendPc' \in [Runners -> {"idle", "found", "live", "room"}]
        /\ sendMsg' \in [Runners -> Msgs \cup {NoMsg}] /\ asked' \in SUBSET Msgs
    BY <1>22, <1>26 DEF FindAgent
  <2>2. UNCHANGED <<chPending, accepted>>
    BY <1>26 DEF FindAgent, outVars
  <2>. QED
    BY <1>15, <1>21, <1>26, <2>1, <2>2, RunnerFrame
<1>27. CASE UNCHANGED vars
  BY <1>1, <1>27 DEF TypeOK, vars, connVars, sendVars, dieVars, outVars
<1>. QED
  BY <1>3, <1>4, <1>5, <1>6, <1>8, <1>9, <1>10, <1>11, <1>12, <1>13, <1>16, <1>17, <1>18, <1>19,
     <1>20, <1>23, <1>24, <1>25, <1>26, <1>27, Steps DEF WriterCloses

(* Only one goroutine ever gets to close(chDie), and it finds it open.     *)
LEMMA CloseInvStep ==
  ASSUME Inv, [Next]_vars
  PROVE  CloseInv'
<1>. USE DEF Inv, Gone, Ending
<1>1. CASE PeerBreaks \/ PeerStalls \/ Forward \/ TickAlive \/ UNCHANGED vars
  BY <1>1 DEF CloseInv, PeerBreaks, PeerStalls, Forward, TickAlive, dieVars, vars
<1>2. CASE ReadFails
  BY <1>2 DEF CloseInv, TypeOK, ReadFails, Loops, dieVars
<1>3. ASSUME NEW g \in Loops, CloseSwap(g)
      PROVE  CloseInv'
  <2>1. /\ state' = "closed" /\ chDie' = chDie
        /\ pc'[g] = IF state = "closed" THEN "done" ELSE "select"
        /\ \A h \in Loops \ {g} : pc'[h] = pc[h]
    BY <1>3 DEF TypeOK, CloseSwap
  <2>2. pc'["reader"] \in {"loop"} \cup Gone
    BY <1>3, <2>1 DEF CloseInv, Loops
  <2>3. CASE state = "closed"
    BY <2>1, <2>2, <2>3, <1>3 DEF CloseInv, CloseSwap
  <2>4. CASE state # "closed"
    <3>1. chDie = "open" /\ \A h \in Loops : pc[h] \notin Ending \cup {"done"}
      BY <2>4, <1>3 DEF CloseInv, TypeOK
    <3>. QED
      BY <2>1, <2>2, <2>4, <3>1 DEF CloseInv
  <2>. QED
    BY <2>3, <2>4
<1>4. ASSUME NEW g \in Loops, CloseSelect(g)
      PROVE  CloseInv'
  BY <1>4 DEF CloseInv, TypeOK, CloseSelect, Loops, dieVars
<1>5. ASSUME NEW g \in Loops, CloseDie(g)
      PROVE  CloseInv'
  BY <1>5 DEF CloseInv, TypeOK, CloseDie, Loops
<1>6. CASE WriterTurns \/ TakePending \/ TakeWrite \/ Push \/ WriteEnds \/ WriterCloses
  BY <1>6, WriterFrame DEF CloseInv, Loops, dieVars
<1>7. ASSUME NEW r \in Runners,
             CheckState(r) \/ CheckRoom(r) \/ Put(r) \/ \E m \in Msgs : FindAgent(r, m)
      PROVE  CloseInv'
  BY <1>7, RunnerFrame DEF CloseInv, dieVars
<1>. QED
  BY <1>1, <1>2, <1>3, <1>4, <1>5, <1>6, <1>7, Steps

(* The writer leaves the table, the socket and chWrite in this order.      *)
LEMMA WriterInvStep ==
  ASSUME Inv, [Next]_vars
  PROVE  WriterInv'
<1>. USE DEF Inv, Gone
<1>1. CASE PeerStalls \/ Forward \/ TickAlive \/ UNCHANGED vars
  BY <1>1 DEF WriterInv, PeerStalls, Forward, TickAlive, connVars, outVars, vars
<1>2. CASE PeerBreaks
  <2>1. pc["writer"] \notin {"closeWrite"} \cup Gone
    BY <1>2 DEF WriterInv, PeerBreaks
  <2>. QED
    BY <2>1, <1>2 DEF WriterInv, PeerBreaks, outVars
<1>3. CASE ReadFails
  BY <1>3 DEF WriterInv, TypeOK, ReadFails, Loops, connVars, outVars
<1>4. ASSUME NEW g \in Loops, CloseSwap(g) \/ CloseSelect(g) \/ CloseDie(g)
      PROVE  WriterInv'
  BY <1>4 DEF WriterInv, TypeOK, CloseSwap, CloseSelect, CloseDie, Loops, connVars, outVars
<1>5. CASE WriterTurns \/ TakePending \/ TakeWrite \/ Push \/ WriteEnds
  BY <1>5 DEF WriterInv, TypeOK, WriterTurns, TakeDie, TickIdle, TakePending, TakeWrite, Push,
     WriteEnds, Selecting, WriterGoes, Loops, connVars, outVars
<1>6. CASE WriterCloses
  BY <1>6 DEF WriterInv, TypeOK, WriterCloses, CloseUnbind, Disconnect, CloseWrite, WriterGoes, Loops,
     connVars, outVars
<1>7. ASSUME NEW r \in Runners,
             CheckState(r) \/ CheckRoom(r) \/ Put(r) \/ \E m \in Msgs : FindAgent(r, m)
      PROVE  WriterInv'
  BY <1>7, RunnerFrame DEF WriterInv, connVars
<1>. QED
  BY <1>1, <1>3, <1>4, <1>5, <1>6, <1>7, <1>2, Steps

(* No close of a closed channel.                                           *)
LEMMA NoPanicStep ==
  ASSUME Inv, [Next]_vars
  PROVE  NoPanic'
<1>1. ASSUME NEW g \in Loops, CloseSwap(g) \/ CloseSelect(g) \/ CloseDie(g)
      PROVE  NoPanic'
  BY <1>1 DEF Inv, NoPanic, CloseInv, Ending, CloseSwap, CloseSelect, CloseDie
<1>2. CASE WriterCloses
  BY <1>2 DEF Inv, NoPanic, WriterInv, Gone, WriterCloses, CloseUnbind, Disconnect, CloseWrite
<1>3. ASSUME NEW r \in Runners,
             CheckState(r) \/ CheckRoom(r) \/ Put(r) \/ \E m \in Msgs : FindAgent(r, m)
      PROVE  NoPanic'
  BY <1>3, RunnerFrame DEF Inv, NoPanic
<1>. QED
  BY <1>1, <1>2, <1>3, Steps
     DEF Inv, NoPanic, PeerBreaks, PeerStalls, Forward, ReadFails, TickAlive, WriterTurns,
         TakeDie, TickIdle, TakePending, TakeWrite, Push, WriteEnds, vars

(* Whoever takes a response from a channel or from the handler holds one.  *)
LEMMA HandInvStep ==
  ASSUME Inv, [Next]_vars
  PROVE  HandInv'
<1>. USE DEF Inv
<1>1. CASE PeerBreaks \/ PeerStalls \/ Forward \/ TickAlive \/ UNCHANGED vars
  BY <1>1 DEF HandInv, PeerBreaks, PeerStalls, Forward, TickAlive, sendVars, outVars, vars
<1>2. CASE ReadFails
  BY <1>2 DEF HandInv, TypeOK, ReadFails, Loops, sendVars, outVars
<1>3. ASSUME NEW g \in Loops, CloseSwap(g) \/ CloseSelect(g) \/ CloseDie(g)
      PROVE  HandInv'
  BY <1>3 DEF HandInv, TypeOK, CloseSwap, CloseSelect, CloseDie, Loops, sendVars, outVars
<1>4. CASE TakePending \/ TakeWrite
  BY <1>4, HeadTailProperties DEF HandInv, TypeOK, TakePending, TakeWrite, sendVars
<1>5. CASE WriterTurns \/ Push \/ WriteEnds \/ WriterCloses
  BY <1>5 DEF HandInv, TypeOK, WriterTurns, TakeDie, TickIdle, Push, WriteEnds, WriterCloses,
     CloseUnbind, Disconnect, CloseWrite, WriterGoes, Loops, sendVars
<1>6. ASSUME NEW r \in Runners, CheckState(r) \/ CheckRoom(r) \/ Put(r)
      PROVE  HandInv'
  BY <1>6 DEF HandInv, TypeOK, CheckState, CheckRoom, Put, SendStep
<1>7. ASSUME NEW r \in Runners, NEW m \in Msgs, FindAgent(r, m)
      PROVE  HandInv'
  BY <1>7 DEF HandInv, TypeOK, FindAgent, outVars
<1>. QED
  BY <1>1, <1>2, <1>3, <1>4, <1>5, <1>6, <1>7, Steps

-------------------------------------------------------------------------------
(* The order of the responses.                                             *)

(* Taking the head of a sequence and putting it at the end of another.     *)
LEMMA TakeOne ==
  ASSUME NEW S, NEW s \in Seq(S), NEW t \in Seq(S), t # <<>>
  PROVE  (s \o <<Head(t)>>) \o Tail(t) = s \o t
<1>1. Head(t) \in S /\ Tail(t) \in Seq(S) /\ <<Head(t)>> \in Seq(S)
  BY HeadTailProperties
<1>2. t = <<Head(t)>> \o Tail(t)
  OBVIOUS
<1>. QED
  BY <1>1, <1>2, ConcatAssociative

LEMMA AddOne ==
  ASSUME NEW S, NEW s \in Seq(S), NEW t \in Seq(S), NEW x \in S
  PROVE  s \o Append(t, x) = (s \o t) \o <<x>>
<1>1. Append(t, x) = t \o <<x>> /\ <<x>> \in Seq(S)
  BY AppendIsConcat
<1>. QED
  BY <1>1, ConcatAssociative

LEMMA OrderStep ==
  ASSUME Inv, [Next]_vars
  PROVE  OrderKept'
<1>. USE DEF Inv
<1>1. ASSUME UNCHANGED <<chPending, chWrite, inHand, accepted, written>>,
             pc'["writer"] = pc["writer"] \/ pc["writer"] \notin {"push", "write"},
             pc'["writer"] \in {"push", "write"} => pc["writer"] \in {"push", "write"}
      PROVE  OrderKept'
  BY <1>1 DEF OrderKept, Moving
<1>2. CASE PeerBreaks \/ PeerStalls \/ Forward \/ TickAlive \/ UNCHANGED vars
  BY <1>2, <1>1 DEF PeerBreaks, PeerStalls, Forward, TickAlive, outVars, vars
<1>3. CASE ReadFails
  BY <1>3, <1>1 DEF TypeOK, ReadFails, Loops, outVars
<1>4. ASSUME NEW g \in Loops, CloseSwap(g) \/ CloseSelect(g) \/ CloseDie(g)
      PROVE  OrderKept'
  BY <1>4, <1>1 DEF TypeOK, CloseSwap, CloseSelect, CloseDie, Loops, outVars
<1>5. CASE WriterTurns
  BY <1>5, <1>1 DEF TypeOK, WriterTurns, TakeDie, TickIdle, Selecting, WriterGoes, Loops, outVars
<1>6. CASE WriterCloses
  BY <1>6, <1>1 DEF TypeOK, WriterCloses, CloseUnbind, Disconnect, CloseWrite, WriterGoes, Loops,
     outVars
<1>7. ASSUME NEW r \in Runners, CheckState(r) \/ CheckRoom(r) \/ \E m \in Msgs : FindAgent(r, m)
      PROVE  OrderKept'
  BY <1>7, <1>1, RunnerFrame DEF CheckState, CheckRoom, FindAgent, outVars
<1>8. CASE TakePending
  <2>1. /\ accepted = ((((written \o <<>>) \o chWrite) \o <<>>) \o chPending)
        /\ OrderKept' <=> accepted = ((((written \o <<>>) \o chWrite) \o <<Head(chPending)>>)
                                        \o Tail(chPending))
    BY <1>8 DEF OrderKept, Moving, TypeOK, TakePending, Selecting, WriterGoes, Loops
  <2>2. ((written \o <<>>) \o chWrite) \in Seq(Msgs) /\ chPending \in Seq(Msgs) /\ chPending # <<>>
    BY <1>8 DEF TypeOK, TakePending
  <2>3. (((written \o <<>>) \o chWrite) \o <<Head(chPending)>>) \o Tail(chPending)
          = ((written \o <<>>) \o chWrite) \o chPending
    BY <2>2, TakeOne
  <2>4. ((written \o <<>>) \o chWrite) \o <<>> = (written \o <<>>) \o chWrite
    BY <2>2, ConcatEmptySeq
  <2>. QED
    BY <2>1, <2>3, <2>4
<1>9. CASE Push
  <2>1. /\ accepted = ((((written \o <<>>) \o chWrite) \o <<inHand>>) \o chPending)
        /\ OrderKept' <=> accepted = ((((written \o <<>>) \o Append(chWrite, inHand)) \o <<>>)
                                        \o chPending)
    BY <1>9 DEF OrderKept, Moving, TypeOK, Push, WriterGoes, Loops
  <2>2. written \o <<>> \in Seq(Msgs) /\ chWrite \in Seq(Msgs) /\ inHand \in Msgs
    BY <1>9 DEF TypeOK, HandInv, Push
  <2>3. (written \o <<>>) \o Append(chWrite, inHand) \in Seq(Msgs)
    BY <2>2
  <2>. QED
    BY <2>1, <2>2, <2>3, AddOne, ConcatEmptySeq
<1>10. CASE TakeWrite
  <2>1. /\ accepted = ((((written \o <<>>) \o chWrite) \o <<>>) \o chPending)
        /\ OrderKept' <=> accepted = ((((written \o <<Head(chWrite)>>) \o Tail(chWrite)) \o <<>>)
                                        \o chPending)
    BY <1>10 DEF OrderKept, Moving, TypeOK, TakeWrite, Selecting, WriterGoes, Loops
  <2>2. written \in Seq(Msgs) /\ chWrite \in Seq(Msgs) /\ chWrite # <<>>
    BY <1>10 DEF TypeOK, TakeWrite
  <2>3. (written \o <<Head(chWrite)>>) \o Tail(chWrite) = written \o chWrite
    BY <2>2, TakeOne
  <2>4. written \o <<>> = written
    BY <2>2, ConcatEmptySeq
  <2>. QED
    BY <2>1, <2>3, <2>4
<1>11. CASE WriteEnds
  <2>1. /\ accepted = ((((written \o <<inHand>>) \o chWrite) \o <<>>) \o chPending)
        /\ OrderKept' <=> accepted = ((((Append(written, inHand) \o <<>>) \o chWrite) \o <<>>)
                                        \o chPending)
    BY <1>11 DEF OrderKept, Moving, TypeOK, WriteEnds, WriterGoes, Loops
  <2>2. written \in Seq(Msgs) /\ inHand \in Msgs
    BY <1>11 DEF TypeOK, HandInv, WriteEnds
  <2>3. Append(written, inHand) \o <<>> = written \o <<inHand>>
    BY <2>2, AppendIsConcat, ConcatEmptySeq
  <2>. QED
    BY <2>1, <2>3
<1>12. ASSUME NEW r \in Runners, Put(r)
       PROVE  OrderKept'
  <2>1. sendMsg[r] \in Msgs /\ Moving("write") \in Seq(Msgs) /\ Moving("push") \in Seq(Msgs)
    BY <1>12 DEF Moving, HandInv, Put, SendStep
  <2>2. PICK W \in Seq(Msgs) : W = ((written \o Moving("write")) \o chWrite) \o Moving("push")
    <3>1. written \o Moving("write") \in Seq(Msgs)
      BY <2>1 DEF TypeOK
    <3>2. (written \o Moving("write")) \o chWrite \in Seq(Msgs)
      BY <3>1 DEF TypeOK
    <3>3. ((written \o Moving("write")) \o chWrite) \o Moving("push") \in Seq(Msgs)
      BY <2>1, <3>2
    <3>. QED
      BY <3>3
  <2>3. accepted = W \o chPending /\ chPending \in Seq(Msgs) /\ accepted \in Seq(Msgs)
    BY <2>2 DEF OrderKept, TypeOK
  <2>4. accepted' = accepted \o <<sendMsg[r]>> /\ chPending' = Append(chPending, sendMsg[r])
    BY <1>12, <2>1, <2>3, AppendIsConcat DEF Put
  <2>5. W \o Append(chPending, sendMsg[r]) = (W \o chPending) \o <<sendMsg[r]>>
    BY <2>1, <2>3, AddOne
  <2>6. UNCHANGED <<written, inHand, chWrite, pc>>
    BY <1>12, RunnerFrame
  <2>. QED
    BY <2>2, <2>3, <2>4, <2>5, <2>6 DEF OrderKept, Moving
<1>. QED
  BY <1>2, <1>3, <1>4, <1>5, <1>6, <1>7, <1>8, <1>9, <1>10, <1>11, <1>12, Steps

-------------------------------------------------------------------------------
(* The runners that wait.                                                  *)

Waiting == {r \in Runners : sendPc[r] = "room"}

LEMMA WaitingStep ==
  ASSUME Inv, [Next]_vars
  PROVE  FewWaiting'
<1>. USE DEF Inv
<1>1. /\ FewWaiting <=> (Len(chPending) + Cardinality(Waiting) < Backlog + Cardinality(Runners))
      /\ IsFiniteSet(Waiting) /\ Waiting \subseteq Runners
      /\ Len(chPending) \in Nat /\ Cardinality(Waiting) \in Nat /\ Cardinality(Runners) \in Nat
      /\ Backlog \in Nat
  <2>1. IsFiniteSet(Runners) /\ Backlog \in Nat
    BY ConstantsOK DEF ConstantsOK
  <2>2. Waiting \subseteq Runners
    BY DEF Waiting
  <2>3. IsFiniteSet(Waiting) /\ Cardinality(Waiting) \in Nat /\ Cardinality(Runners) \in Nat
    BY <2>1, <2>2, FS_Subset, FS_CardinalityType
  <2>. QED
    BY <2>1, <2>2, <2>3 DEF FewWaiting, Waiting, TypeOK
<1>2. FewWaiting' <=> (Len(chPending') + Cardinality(Waiting') < Backlog + Cardinality(Runners))
  BY DEF FewWaiting, Waiting
<1>3. ASSUME Waiting' = Waiting, chPending' = chPending
      PROVE  FewWaiting'
  BY <1>1, <1>2, <1>3
<1>4. CASE TakePending
  <2>1. Waiting' = Waiting
    BY <1>4 DEF TakePending, Waiting, sendVars
  <2>2. chPending' = Tail(chPending) /\ chPending # <<>> /\ chPending \in Seq(Msgs)
    BY <1>4 DEF TakePending, TypeOK
  <2>3. Len(chPending') = Len(chPending) - 1
    BY <2>2, HeadTailProperties
  <2>4. FewWaiting
    OBVIOUS
  <2>. QED
    BY <2>1, <2>3, <2>4, <1>1, <1>2
<1>5. ASSUME NEW r \in Runners, CheckRoom(r), Len(chPending) < Backlog
      PROVE  FewWaiting'
  <2>1. Waiting' = Waiting \cup {r} /\ r \notin Waiting /\ chPending' = chPending
    BY <1>1, <1>5 DEF CheckRoom, SendStep, Waiting, TypeOK
  <2>2. Cardinality(Waiting') = Cardinality(Waiting) + 1 /\ Waiting' \subseteq Runners
    BY <2>1, <1>1, FS_AddElement
  <2>3. Cardinality(Waiting') <= Cardinality(Runners)
    BY <2>2, FS_Subset, ConstantsOK DEF ConstantsOK
  <2>. QED
    BY <2>1, <2>2, <2>3, <1>5, <1>1, <1>2
<1>6. ASSUME NEW r \in Runners, CheckRoom(r), ~(Len(chPending) < Backlog)
      PROVE  FewWaiting'
  <2>1. Waiting' = Waiting /\ chPending' = chPending
    BY <1>6, <1>1 DEF CheckRoom, SendStep, Waiting, TypeOK
  <2>. QED
    BY <2>1, <1>3
<1>7. ASSUME NEW r \in Runners, Put(r)
      PROVE  FewWaiting'
  <2>1. Waiting' = Waiting \ {r} /\ r \in Waiting
    BY <1>7 DEF Put, SendStep, Waiting, TypeOK
  <2>2. Len(chPending') = Len(chPending) + 1
    BY <1>7, AppendProperties DEF Put, SendStep, TypeOK, HandInv
  <2>3. Cardinality(Waiting') = Cardinality(Waiting) - 1
    BY <2>1, <1>1, FS_RemoveElement
  <2>4. FewWaiting
    OBVIOUS
  <2>. QED
    BY <2>2, <2>3, <2>4, <1>1, <1>2
<1>8. ASSUME NEW r \in Runners, CheckState(r) \/ \E m \in Msgs : FindAgent(r, m)
      PROVE  FewWaiting'
  BY <1>8, <1>3 DEF CheckState, FindAgent, SendStep, Waiting, TypeOK, outVars
<1>9. CASE WriterTurns \/ TakeWrite \/ Push \/ WriteEnds \/ WriterCloses
  <2>1. chPending' = chPending
    BY <1>9 DEF WriterTurns, TakeDie, TickIdle, TakeWrite, Push, WriteEnds, WriterCloses, CloseUnbind,
       Disconnect, CloseWrite, outVars
  <2>. QED
    BY <2>1, <1>3, <1>9, WriterFrame DEF Waiting, sendVars
<1>10. CASE \/ PeerBreaks \/ PeerStalls \/ Forward \/ ReadFails \/ TickAlive \/ UNCHANGED vars
            \/ \E g \in Loops : CloseSwap(g) \/ CloseSelect(g) \/ CloseDie(g)
  BY <1>10, <1>3 DEF Waiting, PeerBreaks, PeerStalls, Forward, ReadFails, TickAlive, CloseSwap,
     CloseSelect, CloseDie, sendVars, outVars, vars
<1>. QED
  BY <1>4, <1>5, <1>6, <1>7, <1>8, <1>9, <1>10, Steps

-------------------------------------------------------------------------------
(* The invariant holds in every reachable state.                           *)
THEOREM Invariance == Spec => []Inv
<1>1. Init => Inv
  <2>. SUFFICES ASSUME Init
                PROVE  Inv
    OBVIOUS
  <2>1. TypeOK
    <3>1. <<>> \in Seq(Msgs) /\ Len(<<>>) = 0 /\ 0 <= Backlog /\ 1 \in 0..IdleTicks
      BY ConstantsOK, EmptySeq DEF ConstantsOK, IdleTicks
    <3>2. /\ pc \in [Loops -> {"loop", "push", "write", "unbind", "disconnect", "closeWrite",
                              "close", "select", "closing", "done"}]
          /\ sendPc \in [Runners -> {"idle", "found", "live", "room"}]
          /\ sendMsg \in [Runners -> Msgs \cup {NoMsg}]
      BY DEF Init
    <3>. QED
      BY <3>1, <3>2 DEF Init, TypeOK
  <2>4. CloseInv /\ WriterInv /\ HandInv /\ NoPanic
    BY DEF Init, CloseInv, WriterInv, HandInv, NoPanic, Gone, Ending, Loops
  <2>2. OrderKept
    BY ConcatEmptySeq DEF Init, OrderKept, Moving, Loops
  <2>3. FewWaiting
    <3>1. {r \in Runners : sendPc[r] = "room"} = {}
      BY DEF Init
    <3>2. Cardinality({r \in Runners : sendPc[r] = "room"}) = 0 /\ Cardinality(Runners) \in Nat
      BY <3>1, ConstantsOK, FS_EmptySet, FS_CardinalityType DEF ConstantsOK
    <3>3. chPending = <<>> /\ Len(<<>>) = 0 /\ Backlog \in Nat \ {0}
      BY ConstantsOK, EmptySeq DEF Init, ConstantsOK
    <3>4. Len(chPending) + 0 < Backlog + Cardinality(Runners)
      BY <3>2, <3>3
    <3>. QED
      BY <3>2, <3>4 DEF FewWaiting
  <2>. QED
    BY <2>1, <2>2, <2>3, <2>4 DEF Inv
<1>2. Inv /\ [Next]_vars => Inv'
  BY TypeStep, CloseInvStep, WriterInvStep, HandInvStep, NoPanicStep, OrderStep, WaitingStep
     DEF Inv
<1>. QED
  BY <1>1, <1>2, PTL DEF Spec

(* agent.go:26-38: chPending and chWrite never hold more than the backlog. *)
THEOREM TypeCorrect == Spec => []TypeOK
<1>1. Inv => TypeOK
  BY DEF Inv
<1>. QED
  BY <1>1, Invariance, PTL

(* agent.go:99-111, 200: neither chDie nor chWrite is closed twice.        *)
THEOREM ClosedOnce == Spec => []NoPanic
<1>1. Inv => NoPanic
  BY DEF Inv
<1>. QED
  BY <1>1, Invariance, PTL

(* agent.go:147-170, 253-287: responses are not lost or reordered inside   *)
(* the agent.                                                              *)
THEOREM OrderIsKept == Spec => []OrderKept
<1>1. Inv => OrderKept
  BY DEF Inv
<1>. QED
  BY <1>1, Invariance, PTL

(* agent.go:118-145, 173-201: both goroutines gone, nothing is left.       *)
THEOREM NothingIsLeft == Spec => []NothingLeft
<1>1. Inv => NothingLeft
  BY DEF Inv, TypeOK, CloseInv, WriterInv, NothingLeft, Loops, Gone, Ending
<1>. QED
  BY <1>1, Invariance, PTL

(* agent.go:264-287: runners overshoot the limit only by each other.       *)
THEOREM FewAreWaiting == Spec => []FewWaiting
<1>1. Inv => FewWaiting
  BY DEF Inv
<1>. QED
  BY <1>1, Invariance, PTL
-------------------------------------------------------------------------------
(* The session table: Agents.tla.                                          *)

(* Who may appear in uidMap and in a session: only somebody who bound.     *)
BindersInv ==
  /\ \A s \in Sids, u \in Uids : uid[s] = u => s \in binders[u]
  /\ \A u \in Uids : uidMap[u] # NoSid => uidMap[u] \in binders[u]

(* The inductive form of LookupMatches: it also speaks of closed sessions, *)
(* whose last player id says which entry Unbind removed.                   *)
EntryMatches ==
  \A u \in Uids : uidMap[u] \in sidAgentMap => uid[uidMap[u]] = u \/ Moved(uidMap[u])

TableInv == TableTypeOK /\ BindersInv /\ EntryMatches /\ NoDanglingUid /\ SoleSessionReachable

(* A session that has moved stays so.                                      *)
LEMMA MovedStays ==
  ASSUME NEW s, Moved(s), TableTypeOK, [TableNext]_tableVars
  PROVE  Moved(s)'
<1>1. PICK u \in Uids, v \in Uids : u # v /\ s \in binders[u] /\ s \in binders[v]
  BY DEF Moved
<1>2. \A w \in Uids : binders[w] \subseteq binders'[w]
  BY DEF TableTypeOK, TableNext, BindSID, BindUID, Claim, Unbind, tableVars
<1>. QED
  BY <1>1, <1>2 DEF Moved

(* The invariant holds in every reachable state.                           *)
THEOREM TableInvariance == TableSpec => []TableInv
<1>1. TableInit => TableInv
  BY Sentinels
     DEF TableInit, TableInv, TableTypeOK, BindersInv, EntryMatches, NoDanglingUid, SoleSessionReachable
<1>2. ASSUME TableInv, [TableNext]_tableVars
      PROVE  TableInv'
  <2>. USE Sentinels DEF TableInv
  <2>1. ASSUME NEW s \in Sids, BindSID(s)
        PROVE  TableInv'
    <3>1. TableTypeOK' /\ BindersInv'
      BY <1>2, <2>1 DEF BindSID, TableTypeOK, BindersInv
    <3>2. \A u \in Uids : s \notin binders[u]
      BY <1>2, <2>1 DEF BindSID, TableTypeOK
    <3>3. \A t : Moved(t) => Moved(t)'
      BY <1>2, MovedStays
    <3>4. EntryMatches' /\ NoDanglingUid'
      BY <1>2, <2>1, <3>2, <3>3 DEF BindSID, TableTypeOK, BindersInv, EntryMatches, NoDanglingUid
    <3>5. SoleSessionReachable'
      BY <1>2, <2>1, <3>2 DEF BindSID, TableTypeOK, BindersInv, SoleSessionReachable, GetAgentWithUID
    <3>. QED
      BY <3>1, <3>4, <3>5
  <2>2. ASSUME NEW s \in Sids \cup {NoSid}, NEW u \in Uids \cup {NoUid}, BindUID(s, u)
        PROVE  TableInv'
    <3>1. /\ s \in Sids /\ u \in Uids /\ s \in drawn /\ s \in sidAgentMap /\ uid[s] # u
          /\ uid' = [uid EXCEPT ![s] = u]
          /\ uidMap' = [uidMap EXCEPT ![u] = s]
          /\ binders' = [binders EXCEPT ![u] = @ \cup {s}]
          /\ UNCHANGED <<sidAgentMap, drawn>>
      BY <1>2, <2>2 DEF BindUID, TableTypeOK, Claim
    <3>2. TableTypeOK'
      BY <1>2, <3>1 DEF TableTypeOK
    <3>3. BindersInv'
      BY <1>2, <3>1 DEF TableTypeOK, BindersInv
    <3>4. \A t : Moved(t) => Moved(t)'
      BY <1>2, MovedStays
    <3>5. \A v \in Uids : v # u /\ uidMap[v] = s => Moved(s)'
      <4>. SUFFICES ASSUME NEW v \in Uids, v # u, uidMap[v] = s
                    PROVE  Moved(s)'
        OBVIOUS
      <4>1. s \in binders'[v] /\ s \in binders'[u]
        BY <1>2, <3>1 DEF TableTypeOK, BindersInv
      <4>. QED
        BY <3>1, <4>1 DEF Moved
    <3>6. EntryMatches'
      BY <1>2, <3>1, <3>4, <3>5 DEF TableTypeOK, EntryMatches
    <3>7. NoDanglingUid'
      BY <1>2, <3>1, <3>4 DEF TableTypeOK, NoDanglingUid
    <3>8. SoleSessionReachable'
      BY <1>2, <3>1 DEF TableTypeOK, BindersInv, SoleSessionReachable, GetAgentWithUID
    <3>. QED
      BY <3>2, <3>3, <3>6, <3>7, <3>8
  <2>3. ASSUME NEW s \in Sids, Unbind(s)
        PROVE  TableInv'
    <3>1. TableTypeOK' /\ BindersInv'
      BY <1>2, <2>3 DEF Unbind, TableTypeOK, BindersInv
    <3>2. \A t : Moved(t) => Moved(t)'
      BY <1>2, MovedStays
    <3>3. EntryMatches'
      BY <1>2, <2>3, <3>2 DEF Unbind, TableTypeOK, EntryMatches
    <3>4. NoDanglingUid'
      BY <1>2, <2>3, <3>2 DEF Unbind, TableTypeOK, EntryMatches, NoDanglingUid
    <3>5. SoleSessionReachable'
      BY <1>2, <2>3 DEF Unbind, TableTypeOK, BindersInv, SoleSessionReachable, GetAgentWithUID
    <3>. QED
      BY <3>1, <3>3, <3>4, <3>5
  <2>4. CASE UNCHANGED tableVars
    BY <1>2, <2>4
       DEF tableVars, TableTypeOK, BindersInv, EntryMatches, NoDanglingUid, SoleSessionReachable,
           GetAgentWithUID, Moved
  <2>. QED
    BY <1>2, <2>1, <2>2, <2>3, <2>4 DEF TableNext
<1>. QED
  BY <1>1, <1>2, PTL DEF TableSpec

(* agentManager.go:16-42: the two maps keep their types.                   *)
THEOREM TableTypeCorrect == TableSpec => []TableTypeOK
<1>1. TableInv => TableTypeOK
  BY DEF TableInv
<1>. QED
  BY <1>1, TableInvariance, PTL

(* agentManager.go:44-113: a lookup by player finds that player's session, *)
(* and closing a session cleans up after it.                               *)
THEOREM TableIsConsistent == TableSpec => []TableConsistent
<1>1. TableInv => LookupMatches
  BY Sentinels DEF TableInv, TableTypeOK, EntryMatches, LookupMatches, GetAgentWithUID
<1>2. TableInv => TableConsistent
  BY <1>1 DEF TableInv, TableConsistent
<1>. QED
  BY <1>2, TableInvariance, PTL

(* agentManager.go:44-113: sessions of other players cannot hide a player. *)
THEOREM SoleSessionIsReachable == TableSpec => []SoleSessionReachable
<1>1. TableInv => SoleSessionReachable
  BY DEF TableInv
<1>. QED
  BY <1>1, TableInvariance, PTL
===============================================================================
