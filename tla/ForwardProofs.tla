----------------------------- MODULE ForwardProofs -----------------------------
(* Theorems about Forward.tla, for any processes, nodes, clients, message  *)
(* types and routes, and any number of requests and crashes.               *)
EXTENDS Forward, TLAPS, FiniteSetTheorems, SequenceTheorems

Mine(s) == {r \in sent : r.sid = s}

(* The requests of a client are numbered.                                  *)
SentInv ==
  /\ IsFiniteSet(sent)
  /\ \A r \in sent : r.mid <= Cardinality(Mine(r.sid))
  /\ \A r, q \in sent : r.sid = q.sid /\ r.mid = q.mid => r = q

(* A process knows what its nodes listen to.                               *)
RegistryInv == \A p \in Processes : Listened(p, typeOf) \subseteq registry[p]

(* A node whose profile never changes its type.                            *)
Steady(n) == \A t, u \in TypesOf[n] : t = u

(* What is addressed to such a node has a handler there.                   *)
RoleInv ==
  /\ \A n \in Nodes : Steady(n) /\ view[n] # Absent => view[n] = typeOf[n]
  /\ \A s \in Sessions : picked[s] # Absent /\ Steady(picked[s].to) =>
       Route[picked[s].req.kind] = typeOf[picked[s].to]
  /\ \A m \in net : m.subject[2] = m.target
  /\ \A m \in net : IsRequest(m) /\ Steady(m.target) => Route[m.msg[2]] = typeOf[m.target]

(* Whatever is on its way belongs to a request of the client it names, and *)
(* so does what a client was sent, if its gate keeps its type.             *)
OwnInv ==
  /\ \A s \in Sessions : picked[s] # Absent => picked[s].req \in Mine(s)
  /\ \A m \in net : RequestOf(m) \in sent
  /\ \A s \in Sessions : Steady(GateOf[s]) => \A i \in DOMAIN inbox[s] :
       \E r \in sent : r.sid = s /\ r.mid = inbox[s][i].mid /\ Resp(r.kind) = inbox[s][i].msg

(* A request is in one place: with the reader, on its way, or answered.    *)
OnceInv ==
  /\ \A m, l \in net : m.sid = l.sid /\ m.mid = l.mid => m = l
  /\ \A m \in net : picked[m.sid] # Absent => picked[m.sid].req.mid # m.mid
  /\ \A m \in net : \A i \in DOMAIN inbox[m.sid] : inbox[m.sid][i].mid # m.mid
  /\ \A s \in Sessions : picked[s] # Absent =>
       \A i \in DOMAIN inbox[s] : inbox[s][i].mid # picked[s].req.mid
  /\ \A s \in Sessions : \A i, j \in DOMAIN inbox[s] : inbox[s][i].mid = inbox[s][j].mid => i = j

(* Every number a client's messages carry has been given out.              *)
NumberInv ==
  \A s \in Sessions : \A i \in DOMAIN inbox[s] : \E r \in Mine(s) : r.mid = inbox[s][i].mid

Inv ==
  /\ TypeOK /\ SentInv /\ RegistryInv /\ RoleInv
  /\ OwnInv /\ NumberInv /\ OnceInv /\ NoStrayRequest

-------------------------------------------------------------------------------
(* The steps.                                                              *)
LEMMA Steps ==
  ASSUME [Next]_vars
  PROVE  \/ \E s \in Sessions : Connect(s) \/ HangUp(s)
         \/ \E s \in Sessions, k \in Kinds : AskUnread(s, k) \/ AskNoNode(s, k) \/ AskPick(s, k)
         \/ \E s, claim \in Sessions : SendBytes(s, claim)
         \/ \E m \in net : Lose(m)
         \/ \E m \in net, n \in Nodes : ReadFails(n, m) \/ Handle(n, m) \/ Deliver(n, m) \/ NoAgent(n, m)
         \/ \E p \in Processes : Crash(p) \/ Restart(p)
         \/ \E n \in Nodes : Appear(n) \/ Vanish(n)
         \/ UNCHANGED vars
  BY DEF Next, ClientStep, Receive

(* The number of a new request is the next of its client.                  *)
LEMMA NextIsNew ==
  ASSUME TypeOK, SentInv, NEW s \in Sessions, NEW k \in Kinds, NextRequest(s, k).mid <= MaxMid
  PROVE  /\ NextRequest(s, k) \in Requests /\ NextRequest(s, k) \notin sent
         /\ NextRequest(s, k).sid = s /\ NextRequest(s, k).kind = k
         /\ NextRequest(s, k).mid = Cardinality(Mine(s)) + 1 /\ Cardinality(Mine(s)) \in Nat
         /\ \A r \in Mine(s) : r.mid < NextRequest(s, k).mid
<1>1. IsFiniteSet(Mine(s)) /\ Cardinality(Mine(s)) \in Nat
  <2>1. Mine(s) \subseteq sent
    BY DEF Mine
  <2>. QED
    BY <2>1, FS_Subset, FS_CardinalityType DEF SentInv
<1>2. /\ NextRequest(s, k).sid = s /\ NextRequest(s, k).kind = k
      /\ NextRequest(s, k).mid = Cardinality(Mine(s)) + 1
  BY <1>1 DEF NextRequest, Mine
<1>3. Cardinality(Mine(s)) + 1 \in 1..MaxMid
  BY <1>1, <1>2, ForwardConstants DEF ForwardConstants
<1>4. NextRequest(s, k) \in Requests
  BY <1>2, <1>3 DEF NextRequest, Requests, Mine
<1>5. ASSUME NEW r \in Mine(s)
      PROVE  r.mid \in Nat /\ r.mid <= Cardinality(Mine(s))
  <2>1. r \in sent /\ r.sid = s
    BY DEF Mine
  <2>2. r.mid \in 1..MaxMid
    BY <2>1 DEF TypeOK, Requests
  <2>3. r.mid <= Cardinality(Mine(s))
    BY <2>1 DEF SentInv
  <2>. QED
    BY <2>2, <2>3
<1>6. \A r \in Mine(s) : r.mid < NextRequest(s, k).mid
  BY <1>1, <1>2, <1>5
<1>7. NextRequest(s, k) \notin sent
  <2>1. SUFFICES ASSUME NextRequest(s, k) \in sent
                 PROVE  FALSE
    OBVIOUS
  <2>2. NextRequest(s, k) \in Mine(s)
    BY <2>1, <1>2 DEF Mine
  <2>. QED
    BY <2>2, <1>1, <1>2, <1>6
<1>. QED
  BY <1>1, <1>2, <1>4, <1>6, <1>7

(* Only a client makes requests.                                           *)
LEMMA SentFrame ==
  ASSUME [Next]_vars
  PROVE  sent' = sent \/ \E s \in Sessions, k \in Kinds : Asks(s, k)
<1>1. ASSUME NEW s \in Sessions, Connect(s) \/ HangUp(s) \/ \E claim \in Sessions : SendBytes(s, claim)
      PROVE  sent' = sent
  BY <1>1 DEF Connect, HangUp, SendBytes
<1>2. ASSUME NEW s \in Sessions, NEW k \in Kinds, AskUnread(s, k) \/ AskNoNode(s, k) \/ AskPick(s, k)
      PROVE  Asks(s, k)
  BY <1>2 DEF AskUnread, AskNoNode, AskPick
<1>3. ASSUME NEW m \in net, NEW n \in Nodes,
             ReadFails(n, m) \/ Handle(n, m) \/ Deliver(n, m) \/ NoAgent(n, m)
      PROVE  sent' = sent
  BY <1>3 DEF ReadFails, Handle, Deliver, NoAgent, Arrives
<1>4. ASSUME NEW m \in net, Lose(m)
      PROVE  sent' = sent
  BY <1>4 DEF Lose
<1>5. ASSUME NEW p \in Processes, Crash(p) \/ Restart(p)
      PROVE  sent' = sent
  BY <1>5 DEF Crash, Restart
<1>6. ASSUME NEW n \in Nodes, Appear(n) \/ Vanish(n)
      PROVE  sent' = sent
  BY <1>6 DEF Appear, Vanish
<1>7. CASE UNCHANGED vars
  BY <1>7 DEF vars
<1>. QED
  BY <1>1, <1>2, <1>3, <1>4, <1>5, <1>6, <1>7, Steps

LEMMA SentStep ==
  ASSUME Inv, [Next]_vars
  PROVE  SentInv'
<1>. USE DEF Inv
<1>1. ASSUME NEW s \in Sessions, NEW k \in Kinds, Asks(s, k)
      PROVE  SentInv'
  <2>1. PICK new \in Requests : new = NextRequest(s, k)
    BY <1>1, NextIsNew DEF Asks
  <2>2. /\ sent' = sent \cup {new} /\ new \notin sent /\ new.sid = s
        /\ new.mid = Cardinality(Mine(s)) + 1 /\ Cardinality(Mine(s)) \in Nat
        /\ \A r \in Mine(s) : r.mid < new.mid
    BY <1>1, <2>1, NextIsNew DEF Asks
  <2>3. IsFiniteSet(sent') /\ IsFiniteSet(Mine(s)) /\ Mine(s) \subseteq sent
    <3>1. Mine(s) \subseteq sent
      BY DEF Mine
    <3>. QED
      BY <3>1, <2>2, FS_AddElement, FS_Subset DEF SentInv
  <2>4. Mine(s)' = Mine(s) \cup {new}
    BY <2>2 DEF Mine
  <2>5. Cardinality(Mine(s))' = Cardinality(Mine(s)) + 1
    <3>1. new \notin Mine(s)
      BY <2>2, <2>3
    <3>2. Cardinality(Mine(s) \cup {new}) = Cardinality(Mine(s)) + 1
      BY <2>3, <3>1, FS_AddElement
    <3>. QED
      BY <2>4, <3>2
  <2>6. \A r \in sent' : r.mid <= Cardinality(Mine(r.sid))'
    <3>1. ASSUME NEW r \in sent, r.sid = s
          PROVE  r.mid <= Cardinality(Mine(r.sid))'
      <4>1. r \in Mine(s) /\ r.mid \in Nat
        BY <3>1 DEF Mine, TypeOK, Requests
      <4>. QED
        BY <2>2, <2>5, <3>1, <4>1
    <3>2. ASSUME NEW r \in sent, r.sid # s
          PROVE  r.mid <= Cardinality(Mine(r.sid))'
      <4>1. Mine(r.sid)' = Mine(r.sid)
        BY <2>2, <3>2 DEF Mine
      <4>. QED
        BY <4>1 DEF SentInv
    <3>3. new.mid <= Cardinality(Mine(new.sid))'
      BY <2>2, <2>5
    <3>. QED
      BY <2>2, <3>1, <3>2, <3>3
  <2>7. \A r, q \in sent' : r.sid = q.sid /\ r.mid = q.mid => r = q
    <3>1. \A r \in sent : r.sid = s => r.mid < new.mid /\ r.mid # new.mid
      BY <2>2 DEF Mine, TypeOK, Requests
    <3>. QED
      BY <2>2, <3>1 DEF SentInv
  <2>. QED
    BY <2>3, <2>6, <2>7 DEF SentInv
<1>2. ASSUME sent' = sent
      PROVE  SentInv'
  BY <1>2 DEF SentInv, Mine
<1>. QED
  BY <1>1, <1>2, SentFrame

-------------------------------------------------------------------------------
(* The type invariant.                                                     *)

(* The parts of an envelope, and those that are made of it.                *)
LEMMA Parts ==
  ASSUME TypeOK, NEW m \in net
  PROVE  /\ RequestOf(m) \in Requests /\ m.sid \in Sessions /\ m.mid \in 1..MaxMid
         /\ m.msg[2] \in Kinds /\ m.msg \in {Req(m.msg[2]), Resp(m.msg[2])}
         /\ (IsRequest(m) <=> m.msg = Req(m.msg[2])) /\ (~IsRequest(m) <=> m.msg = Resp(m.msg[2]))
         /\ Resp(m.msg[2]) \in Messages /\ m.source \in Nodes /\ m.target \in Nodes
         /\ m \in Envelopes
<1>1. m \in Envelopes
  BY DEF TypeOK
<1>2. m.msg \in Messages /\ m.sid \in Sessions /\ m.mid \in 1..MaxMid /\ m.source \in Nodes
      /\ m.target \in Nodes
  BY <1>1 DEF Envelopes
<1>3. PICK k \in Kinds : m.msg = Req(k) \/ m.msg = Resp(k)
  BY <1>2 DEF Messages
<1>4. m.msg[2] = k
  BY <1>3 DEF Req, Resp
<1>5. Resp(k) \in Messages
  BY DEF Messages
<1>6. RequestOf(m) \in Requests
  BY <1>2, <1>4 DEF RequestOf, Requests
<1>7. (IsRequest(m) <=> m.msg = Req(k)) /\ (~IsRequest(m) <=> m.msg = Resp(k))
  BY <1>3 DEF IsRequest, Req, Resp
<1>. QED
  BY <1>1, <1>2, <1>3, <1>4, <1>5, <1>6, <1>7

(* A delivered message is the last in the inbox of its client.             *)
LEMMA Delivered ==
  ASSUME TypeOK, NEW m \in net, NEW n \in Nodes, Deliver(n, m)
  PROVE  /\ inbox' \in [Sessions -> Seq([mid : 1..MaxMid, msg : Messages])]
         /\ \A s \in Sessions : \A i \in DOMAIN inbox'[s] :
              \/ i \in DOMAIN inbox[s] /\ inbox'[s][i] = inbox[s][i]
              \/ /\ s = m.sid /\ i = Len(inbox[s]) + 1 /\ i \notin DOMAIN inbox[s]
                 /\ inbox'[s][i] = [mid |-> m.mid, msg |-> m.msg]
<1>1. PICK Item : Item = [mid : 1..MaxMid, msg : Messages]
  OBVIOUS
<1>2. PICK item \in Item : item = [mid |-> m.mid, msg |-> m.msg]
  BY <1>1, Parts DEF Envelopes
<1>3. m.sid \in Sessions /\ inbox \in [Sessions -> Seq(Item)]
  BY <1>1, Parts DEF TypeOK
<1>4. inbox' = [inbox EXCEPT ![m.sid] = Append(inbox[m.sid], item)]
  BY <1>2 DEF Deliver
<1>5. inbox[m.sid] \in Seq(Item)
  BY <1>3
<1>6. /\ Append(inbox[m.sid], item) \in Seq(Item)
      /\ DOMAIN Append(inbox[m.sid], item) = 1..(Len(inbox[m.sid]) + 1)
      /\ DOMAIN inbox[m.sid] = 1..Len(inbox[m.sid]) /\ Len(inbox[m.sid]) \in Nat
      /\ \A i \in 1..Len(inbox[m.sid]) : Append(inbox[m.sid], item)[i] = inbox[m.sid][i]
      /\ Append(inbox[m.sid], item)[Len(inbox[m.sid]) + 1] = item
  <2>1. \A q \in Seq(Item), e \in Item :
          /\ Append(q, e) \in Seq(Item) /\ Len(Append(q, e)) = Len(q) + 1
          /\ \A i \in 1..Len(q) : Append(q, e)[i] = q[i]
          /\ Append(q, e)[Len(q) + 1] = e
    BY AppendProperties
  <2>2. \A q \in Seq(Item) : DOMAIN q = 1..Len(q) /\ Len(q) \in Nat
    OBVIOUS
  <2>. QED
    BY <1>5, <2>1, <2>2
<1>7. inbox' \in [Sessions -> Seq(Item)]
  BY <1>3, <1>4, <1>6
<1>8. ASSUME NEW s \in Sessions, NEW i \in DOMAIN inbox'[s]
      PROVE  \/ i \in DOMAIN inbox[s] /\ inbox'[s][i] = inbox[s][i]
             \/ /\ s = m.sid /\ i = Len(inbox[s]) + 1 /\ i \notin DOMAIN inbox[s]
                /\ inbox'[s][i] = item
  <2>1. CASE s # m.sid
    BY <1>3, <1>4, <1>8, <2>1
  <2>2. CASE s = m.sid
    <3>1. inbox'[s] = Append(inbox[s], item)
      BY <1>3, <1>4, <2>2
    <3>2. i \in 1..(Len(inbox[s]) + 1)
      BY <1>6, <1>8, <2>2, <3>1
    <3>. QED
      BY <1>6, <2>2, <3>1, <3>2
  <2>. QED
    BY <2>1, <2>2
<1>. QED
  BY <1>1, <1>2, <1>7, <1>8

LEMMA TypeStep ==
  ASSUME Inv, [Next]_vars
  PROVE  TypeOK'
<1>. USE DEF Inv
<1>1. TypeOK
  OBVIOUS
<1>2. ASSUME NEW s \in Sessions, Connect(s) \/ HangUp(s)
      PROVE  TypeOK'
  BY <1>1, <1>2 DEF TypeOK, Connect, HangUp, nodeVars, history
<1>3. ASSUME NEW s \in Sessions, NEW k \in Kinds, Asks(s, k),
             conn' \in [Sessions -> {"new", "open", "closed"}],
             picked' \in [Sessions -> [req : Requests, to : Nodes] \cup {Absent}],
             dropped' \in SUBSET Requests
      PROVE  TypeOK'
  <2>1. sent' \subseteq Requests
    <3>1. NextRequest(s, k) \in Requests
      BY <1>3, NextIsNew DEF Asks
    <3>. QED
      BY <1>1, <1>3, <3>1 DEF Asks, TypeOK
  <2>. QED
    BY <1>1, <1>3, <2>1 DEF TypeOK, Asks, nodeVars
<1>4. ASSUME NEW s \in Sessions, NEW k \in Kinds, AskUnread(s, k)
      PROVE  TypeOK'
  BY <1>1, <1>3, <1>4 DEF TypeOK, AskUnread
<1>5. ASSUME NEW s \in Sessions, NEW k \in Kinds, AskNoNode(s, k)
      PROVE  TypeOK'
  <2>1. NextRequest(s, k) \in Requests
    BY <1>5, NextIsNew DEF AskNoNode, Asks
  <2>. QED
    BY <1>1, <1>3, <1>5, <2>1 DEF TypeOK, AskNoNode
<1>6. ASSUME NEW s \in Sessions, NEW k \in Kinds, AskPick(s, k)
      PROVE  TypeOK'
  <2>1. NextRequest(s, k) \in Requests
    BY <1>6, NextIsNew DEF AskPick, Asks
  <2>2. PICK n \in Nodes : picked' = [picked EXCEPT ![s] = [req |-> NextRequest(s, k), to |-> n]]
    BY <1>6 DEF AskPick, Members
  <2>3. picked' \in [Sessions -> [req : Requests, to : Nodes] \cup {Absent}]
    BY <1>1, <2>1, <2>2 DEF TypeOK
  <2>. QED
    BY <1>1, <1>3, <1>6, <2>3 DEF TypeOK, AskPick
<1>7. ASSUME NEW s \in Sessions, NEW claim \in Sessions, SendBytes(s, claim)
      PROVE  TypeOK'
  <2>1. picked[s].req \in Requests /\ picked[s].to \in Nodes
    BY <1>1, <1>7 DEF TypeOK, SendBytes
  <2>2. /\ picked[s].req.kind \in Kinds /\ picked[s].req.mid \in 1..MaxMid
        /\ Req(picked[s].req.kind) \in Messages /\ GateOf[s] \in Nodes
    BY <2>1, ForwardConstants DEF Requests, Messages, ForwardConstants
  <2>3. view[picked[s].to] # Absent => Stamp(s, claim) \in Envelopes
    BY <1>1, <2>1, <2>2 DEF TypeOK, Stamp, Subject, Envelopes
  <2>4. net' \subseteq Envelopes /\ dropped' \in SUBSET Requests
    BY <1>1, <1>7, <2>1, <2>3 DEF TypeOK, SendBytes
  <2>. QED
    BY <1>1, <1>7, <2>4 DEF TypeOK, SendBytes, nodeVars
<1>8. ASSUME NEW m \in net, Lose(m)
      PROVE  TypeOK'
  <2>1. RequestOf(m) \in Requests
    BY <1>1, Parts
  <2>. QED
    BY <1>1, <1>8, <2>1 DEF TypeOK, Lose, nodeVars
<1>9. ASSUME NEW m \in net, NEW n \in Nodes, Arrives(n, m),
             registry' \in [Processes -> SUBSET Messages], net' \subseteq Envelopes,
             inbox' \in [Sessions -> Seq([mid : 1..MaxMid, msg : Messages])],
             dropped' \in SUBSET Requests, unread' \in SUBSET Requests,
             stray' \subseteq stray \cup {m}
      PROVE  TypeOK'
  <2>1. stray' \subseteq Envelopes
    BY <1>1, <1>9, Parts DEF TypeOK
  <2>. QED
    BY <1>1, <1>9, <2>1 DEF TypeOK, Arrives, nodeVars
<1>10. ASSUME NEW m \in net, NEW n \in Nodes, ReadFails(n, m)
       PROVE  TypeOK'
  <2>1. RequestOf(m) \in Requests
    BY <1>1, Parts
  <2>2. UNCHANGED <<registry, inbox, dropped>> /\ net' = net \ {m} /\ Arrives(n, m)
        /\ stray' \subseteq stray \cup {m} /\ unread' \subseteq unread \cup {RequestOf(m)}
    BY <1>10 DEF ReadFails
  <2>. QED
    BY <1>1, <1>9, <2>1, <2>2 DEF TypeOK
<1>11. ASSUME NEW m \in net, NEW n \in Nodes, Handle(n, m)
       PROVE  TypeOK'
  <2>1. view[m.source] # Absent => Answer(m) \in Envelopes
    BY <1>1, Parts DEF TypeOK, Answer, Subject, Envelopes
  <2>2. net' \subseteq Envelopes /\ dropped' \in SUBSET Requests
    BY <1>1, <1>11, <2>1, Parts DEF TypeOK, Handle
  <2>3. registry' \in [Processes -> SUBSET Messages]
    BY <1>1, <1>11, Parts DEF TypeOK, Handle, OnMarshal
  <2>4. UNCHANGED <<inbox, unread, stray>> /\ Arrives(n, m)
    BY <1>11 DEF Handle
  <2>. QED
    BY <1>1, <1>9, <2>2, <2>3, <2>4 DEF TypeOK
<1>12. ASSUME NEW m \in net, NEW n \in Nodes, Deliver(n, m)
       PROVE  TypeOK'
  <2>1. inbox' \in [Sessions -> Seq([mid : 1..MaxMid, msg : Messages])]
    BY <1>1, <1>12, Delivered
  <2>2. UNCHANGED <<registry, dropped, unread>> /\ net' = net \ {m} /\ Arrives(n, m)
        /\ stray' \subseteq stray \cup {m}
    BY <1>12 DEF Deliver
  <2>. QED
    BY <1>1, <1>9, <2>1, <2>2 DEF TypeOK
<1>13. ASSUME NEW m \in net, NEW n \in Nodes, NoAgent(n, m)
       PROVE  TypeOK'
  <2>1. UNCHANGED <<registry, inbox, dropped, unread>> /\ net' = net \ {m} /\ Arrives(n, m)
        /\ stray' \subseteq stray \cup {m}
    BY <1>13 DEF NoAgent
  <2>. QED
    BY <1>1, <1>9, <2>1 DEF TypeOK
<1>14. ASSUME NEW p \in Processes, Crash(p)
       PROVE  TypeOK'
  <2>1. crashes' \in 0..MaxCrashes
    BY <1>1, <1>14, ForwardConstants DEF ForwardConstants, TypeOK, Crash
  <2>2. /\ conn' \in [Sessions -> {"new", "open", "closed"}]
        /\ picked' \in [Sessions -> [req : Requests, to : Nodes] \cup {Absent}]
    BY <1>1, <1>14 DEF TypeOK, Crash
  <2>. QED
    BY <1>1, <1>14, <2>1, <2>2 DEF TypeOK, Crash, history
<1>15. ASSUME NEW p \in Processes, Restart(p)
       PROVE  TypeOK'
  <2>1. \A f : Listened(p, f) \subseteq Messages
    BY DEF Listened, Messages
  <2>2. registry' \in [Processes -> SUBSET Messages] /\ typeOf' \in Profiles
    BY <1>1, <1>15, <2>1 DEF TypeOK, Restart
  <2>. QED
    BY <1>1, <1>15, <2>2 DEF TypeOK, Restart, history
<1>16. ASSUME NEW n \in Nodes, Appear(n) \/ Vanish(n)
       PROVE  TypeOK'
  BY <1>1, <1>16 DEF TypeOK, Profiles, Appear, Vanish, nodeVars, history
<1>17. CASE UNCHANGED vars
  BY <1>1, <1>17 DEF TypeOK, vars, nodeVars, history
<1>. QED
  BY <1>2, <1>4, <1>5, <1>6, <1>7, <1>8, <1>10, <1>11, <1>12, <1>13, <1>14, <1>15, <1>16, <1>17, Steps

-------------------------------------------------------------------------------
(* What processes know, and what nodes handle.                             *)

LEMMA RegistryStep ==
  ASSUME Inv, [Next]_vars
  PROVE  RegistryInv'
<1>. USE DEF Inv
<1>1. ASSUME typeOf' = typeOf, \A p \in Processes : registry[p] \subseteq registry'[p]
      PROVE  RegistryInv'
  BY <1>1 DEF RegistryInv, Listened
<1>2. ASSUME NEW m \in net, NEW n \in Nodes, Handle(n, m)
      PROVE  RegistryInv'
  BY <1>1, <1>2 DEF TypeOK, Handle, OnMarshal, Arrives, nodeVars
<1>3. ASSUME NEW p \in Processes, Restart(p)
      PROVE  RegistryInv'
  <2>1. ASSUME NEW q \in Processes \ {p}
        PROVE  Listened(q, typeOf') = Listened(q, typeOf)
    BY <1>3 DEF Restart, Listened
  <2>2. /\ registry'[p] = Listened(p, typeOf')
        /\ \A q \in Processes \ {p} : registry'[q] = registry[q]
    BY <1>3 DEF Restart, TypeOK
  <2>3. ASSUME NEW q \in Processes
        PROVE  Listened(q, typeOf') \subseteq registry'[q]
    BY <2>1, <2>2 DEF RegistryInv
  <2>. QED
    BY <2>3 DEF RegistryInv, Listened
<1>4. ASSUME UNCHANGED <<typeOf, registry>>
      PROVE  RegistryInv'
  BY <1>1, <1>4
<1>5. ASSUME NEW s \in Sessions, NEW k \in Kinds, AskUnread(s, k) \/ AskNoNode(s, k) \/ AskPick(s, k)
      PROVE  UNCHANGED <<typeOf, registry>>
  BY <1>5 DEF AskUnread, AskNoNode, AskPick, Asks, nodeVars
<1>6. ASSUME NEW m \in net, NEW n \in Nodes, ReadFails(n, m) \/ Deliver(n, m) \/ NoAgent(n, m)
      PROVE  UNCHANGED <<typeOf, registry>>
  BY <1>6 DEF ReadFails, Deliver, NoAgent, Arrives, nodeVars
<1>. QED
  BY <1>2, <1>3, <1>4, <1>5, <1>6, Steps
     DEF Connect, HangUp, SendBytes, Lose, Crash, Appear, Vanish, nodeVars, vars

LEMMA RoleStep ==
  ASSUME Inv, [Next]_vars
  PROVE  RoleInv'
<1>. USE DEF Inv
<1>1. RoleInv
  OBVIOUS
<1>2. ASSUME UNCHANGED <<typeOf, view>>, net' \subseteq net,
             \A s \in Sessions : picked'[s] = picked[s] \/ picked'[s] = Absent
      PROVE  RoleInv'
  BY <1>1, <1>2 DEF RoleInv
<1>3. ASSUME NEW s \in Sessions, Connect(s) \/ HangUp(s)
      PROVE  RoleInv'
  BY <1>2, <1>3 DEF Connect, HangUp, nodeVars
<1>4. ASSUME NEW s \in Sessions, NEW k \in Kinds, AskUnread(s, k) \/ AskNoNode(s, k)
      PROVE  RoleInv'
  BY <1>2, <1>4 DEF AskUnread, AskNoNode, Asks, nodeVars
<1>5. ASSUME NEW s \in Sessions, NEW k \in Kinds, AskPick(s, k)
      PROVE  RoleInv'
  <2>1. PICK n \in Nodes : /\ picked' = [picked EXCEPT ![s] = [req |-> NextRequest(s, k), to |-> n]]
                           /\ view[n] = Route[k]
    BY <1>5 DEF AskPick, Members
  <2>2. UNCHANGED <<typeOf, view, net>>
    BY <1>5 DEF AskPick, Asks, nodeVars
  <2>3. Steady(n) => Route[k] = typeOf[n]
    BY <1>1, <2>1, ForwardConstants DEF RoleInv, ForwardConstants
  <2>4. NextRequest(s, k).kind = k
    BY DEF NextRequest
  <2>. QED
    BY <1>1, <2>1, <2>2, <2>3, <2>4 DEF RoleInv, TypeOK
<1>6. ASSUME NEW s \in Sessions, NEW claim \in Sessions, SendBytes(s, claim)
      PROVE  RoleInv'
  <2>1. UNCHANGED <<typeOf, view>> /\ picked' = [picked EXCEPT ![s] = Absent]
    BY <1>6 DEF SendBytes, nodeVars
  <2>2. /\ Stamp(s, claim).subject[2] = picked[s].to /\ Stamp(s, claim).target = picked[s].to
        /\ Stamp(s, claim).msg[2] = picked[s].req.kind
    BY DEF Stamp, Subject, Req
  <2>3. Steady(picked[s].to) => Route[picked[s].req.kind] = typeOf[picked[s].to]
    BY <1>1, <1>6 DEF RoleInv, SendBytes
  <2>4. net' \subseteq net \cup {Stamp(s, claim)}
    BY <1>6 DEF SendBytes
  <2>. QED
    BY <1>1, <2>1, <2>2, <2>3, <2>4 DEF RoleInv, TypeOK
<1>7. ASSUME NEW m \in net, NEW n \in Nodes, ReadFails(n, m) \/ Deliver(n, m) \/ NoAgent(n, m)
      PROVE  RoleInv'
  BY <1>2, <1>7 DEF ReadFails, Deliver, NoAgent, Arrives, nodeVars
<1>8. ASSUME NEW m \in net, NEW n \in Nodes, Handle(n, m)
      PROVE  RoleInv'
  <2>1. UNCHANGED <<typeOf, view, picked>> /\ net' \subseteq net \cup {Answer(m)}
    BY <1>8 DEF Handle, Arrives, nodeVars
  <2>2. Answer(m).subject[2] = Answer(m).target /\ ~IsRequest(Answer(m))
    BY DEF Answer, Subject, IsRequest, Resp
  <2>. QED
    BY <1>1, <2>1, <2>2 DEF RoleInv
<1>9. ASSUME NEW m \in net, Lose(m)
      PROVE  RoleInv'
  BY <1>2, <1>9 DEF Lose, nodeVars
<1>10. ASSUME NEW p \in Processes, Crash(p)
       PROVE  RoleInv'
  BY <1>2, <1>10 DEF Crash
<1>11. ASSUME NEW p \in Processes, Restart(p)
       PROVE  RoleInv'
  <2>1. UNCHANGED <<view, picked, net>> /\ typeOf \in Profiles /\ typeOf' \in Profiles
    BY <1>11 DEF Restart, TypeOK
  <2>2. \A n \in Nodes : Steady(n) => typeOf'[n] = typeOf[n]
    BY <2>1 DEF Steady, Profiles
  <2>3. \A m \in net : m.target \in Nodes
    BY Parts
  <2>4. \A s \in Sessions : picked[s] # Absent => picked[s].to \in Nodes
    BY DEF TypeOK
  <2>. QED
    BY <1>1, <2>1, <2>2, <2>3, <2>4 DEF RoleInv
<1>12. ASSUME NEW n \in Nodes, Appear(n) \/ Vanish(n)
       PROVE  RoleInv'
  <2>1. /\ UNCHANGED <<typeOf, picked, net>> /\ view'[n] \in {Absent, typeOf[n]}
        /\ \A l \in Nodes \ {n} : view'[l] = view[l]
    BY <1>12 DEF Appear, Vanish, TypeOK, nodeVars
  <2>. QED
    BY <1>1, <2>1 DEF RoleInv
<1>13. CASE UNCHANGED vars
  BY <1>2, <1>13 DEF vars, nodeVars
<1>. QED
  BY <1>3, <1>4, <1>5, <1>6, <1>7, <1>8, <1>9, <1>10, <1>11, <1>12, <1>13, Steps

(* A node can read and handle the requests that are routed to its type.    *)
LEMMA StrayStep ==
  ASSUME Inv, [Next]_vars
  PROVE  NoStrayRequest'
<1>. USE DEF Inv
<1>1. ASSUME stray' = stray
      PROVE  NoStrayRequest'
  BY <1>1 DEF NoStrayRequest
<1>2. ASSUME NEW m \in net, NEW n \in Nodes, Arrives(n, m), IsRequest(m),
             ~Knows(n, m.msg) \/ ~HasHandler(n, m)
      PROVE  m.subject[1] # Route[m.msg[2]]
  <2>1. m.subject[1] = typeOf[n] /\ m.msg[2] \in Kinds /\ m.msg = Req(m.msg[2])
    BY <1>2, Parts DEF Arrives
  <2>2. ASSUME Route[m.msg[2]] = typeOf[n]
        PROVE  Knows(n, m.msg) /\ HasHandler(n, m)
    <3>1. Home[n] \in Processes
      BY ForwardConstants DEF ForwardConstants
    <3>2. m.msg \in Listened(Home[n], typeOf)
      BY <2>1, <2>2 DEF Listened
    <3>. QED
      BY <1>2, <2>2, <3>1, <3>2 DEF RegistryInv, Knows, HasHandler, Handles
  <2>. QED
    BY <1>2, <2>1, <2>2
<1>3. ASSUME NEW m \in net, NEW n \in Nodes, ReadFails(n, m) \/ Deliver(n, m) \/ NoAgent(n, m)
      PROVE  NoStrayRequest'
  <2>1. stray' \subseteq stray \cup {m} /\ (m \in stray' \/ stray' \subseteq stray)
    BY <1>3 DEF ReadFails, Deliver, NoAgent
  <2>2. stray' \subseteq stray \/ m.subject[1] # Route[m.msg[2]]
    BY <1>2, <1>3 DEF ReadFails, Deliver, NoAgent
  <2>. QED
    BY <2>1, <2>2 DEF NoStrayRequest
<1>4. ASSUME NEW s \in Sessions, NEW k \in Kinds, AskUnread(s, k) \/ AskNoNode(s, k) \/ AskPick(s, k)
      PROVE  stray' = stray
  BY <1>4 DEF AskUnread, AskNoNode, AskPick, Asks
<1>. QED
  BY <1>1, <1>3, <1>4, Steps
     DEF Connect, HangUp, SendBytes, Handle, Lose, Crash, Restart, Appear, Vanish, history, vars

-------------------------------------------------------------------------------
(* Where a request is.                                                     *)

(* Only the default handler puts something into an inbox.                  *)
LEMMA InboxFrame ==
  ASSUME [Next]_vars
  PROVE  inbox' = inbox \/ \E m \in net, n \in Nodes : Deliver(n, m)
<1>1. ASSUME NEW s \in Sessions, NEW k \in Kinds, AskUnread(s, k) \/ AskNoNode(s, k) \/ AskPick(s, k)
      PROVE  inbox' = inbox
  BY <1>1 DEF AskUnread, AskNoNode, AskPick, Asks
<1>2. ASSUME NEW m \in net, NEW n \in Nodes, ReadFails(n, m) \/ Handle(n, m) \/ NoAgent(n, m)
      PROVE  inbox' = inbox
  BY <1>2 DEF ReadFails, Handle, NoAgent
<1>. QED
  BY <1>1, <1>2, Steps
     DEF Connect, HangUp, SendBytes, Lose, Crash, Restart, Appear, Vanish, vars

LEMMA SentGrows ==
  ASSUME [Next]_vars
  PROVE  sent \subseteq sent' /\ \A s \in Sessions : Mine(s) \subseteq Mine(s)'
<1>1. sent \subseteq sent'
  BY SentFrame DEF Asks
<1>. QED
  BY <1>1 DEF Mine

LEMMA NumberStep ==
  ASSUME Inv, [Next]_vars
  PROVE  NumberInv'
<1>. USE DEF Inv
<1>1. \A s \in Sessions : Mine(s) \subseteq Mine(s)'
  BY SentGrows
<1>2. CASE inbox' = inbox
  BY <1>1, <1>2 DEF NumberInv
<1>3. ASSUME NEW m \in net, NEW n \in Nodes, Deliver(n, m)
      PROVE  NumberInv'
  <2>1. RequestOf(m) \in Mine(m.sid) /\ RequestOf(m).mid = m.mid
    BY DEF OwnInv, RequestOf, Mine
  <2>2. ASSUME NEW s \in Sessions, NEW i \in DOMAIN inbox'[s]
        PROVE  \E r \in Mine(s) : r.mid = inbox'[s][i].mid
    <3>1. CASE i \in DOMAIN inbox[s] /\ inbox'[s][i] = inbox[s][i]
      BY <2>2, <3>1 DEF NumberInv
    <3>2. CASE s = m.sid /\ inbox'[s][i] = [mid |-> m.mid, msg |-> m.msg]
      BY <2>1, <3>2
    <3>. QED
      BY <1>3, <2>2, <3>1, <3>2, Delivered
  <2>3. ASSUME NEW s \in Sessions, NEW i \in DOMAIN inbox'[s]
        PROVE  \E r \in Mine(s)' : r.mid = inbox'[s][i].mid
    BY <1>1, <2>2, <2>3
  <2>. QED
    BY <2>3 DEF NumberInv
<1>. QED
  BY <1>2, <1>3, InboxFrame

LEMMA OwnStep ==
  ASSUME Inv, [Next]_vars
  PROVE  OwnInv'
<1>. USE DEF Inv
<1>1. OwnInv /\ sent \subseteq sent' /\ \A s \in Sessions : Mine(s) \subseteq Mine(s)'
  BY SentGrows
<1>2. ASSUME \A s \in Sessions : picked'[s] # Absent => picked'[s] = picked[s] \/ picked'[s].req \in Mine(s)',
             \A l \in net' : l \in net \/ RequestOf(l) \in sent,
             inbox' = inbox
      PROVE  OwnInv'
  <2>1. \A s \in Sessions : picked'[s] # Absent => picked'[s].req \in Mine(s)'
    BY <1>1, <1>2 DEF OwnInv
  <2>2. \A l \in net' : RequestOf(l) \in sent'
    BY <1>1, <1>2 DEF OwnInv
  <2>3. \A s \in Sessions : Steady(GateOf[s]) => \A i \in DOMAIN inbox'[s] :
          \E r \in sent' : r.sid = s /\ r.mid = inbox'[s][i].mid /\ Resp(r.kind) = inbox'[s][i].msg
    BY <1>1, <1>2 DEF OwnInv
  <2>. QED
    BY <2>1, <2>2, <2>3 DEF OwnInv, Mine, RequestOf
<1>3. ASSUME net' \subseteq net, inbox' = inbox,
             \A s \in Sessions : picked'[s] = picked[s] \/ picked'[s] = Absent
      PROVE  OwnInv'
  BY <1>2, <1>3
<1>4. ASSUME NEW s \in Sessions, Connect(s) \/ HangUp(s)
      PROVE  OwnInv'
  BY <1>3, <1>4 DEF Connect, HangUp
<1>5. ASSUME NEW s \in Sessions, NEW k \in Kinds, AskUnread(s, k) \/ AskNoNode(s, k)
      PROVE  OwnInv'
  BY <1>3, <1>5 DEF AskUnread, AskNoNode, Asks
<1>6. ASSUME NEW s \in Sessions, NEW k \in Kinds, AskPick(s, k)
      PROVE  OwnInv'
  <2>1. PICK new : new = NextRequest(s, k)
    OBVIOUS
  <2>2. new.sid = s /\ sent' = sent \cup {new} /\ UNCHANGED <<net, inbox>>
    BY <1>6, <2>1 DEF AskPick, Asks, NextRequest
  <2>3. PICK n \in Nodes : picked' = [picked EXCEPT ![s] = [req |-> new, to |-> n]]
    BY <1>6, <2>1 DEF AskPick, Members
  <2>4. new \in Mine(s)'
    BY <2>2 DEF Mine
  <2>. QED
    BY <1>2, <2>2, <2>3, <2>4 DEF TypeOK
<1>7. ASSUME NEW s \in Sessions, NEW claim \in Sessions, SendBytes(s, claim)
      PROVE  OwnInv'
  <2>1. picked[s].req \in sent /\ picked[s].req \in Requests /\ picked[s].req.sid = s
    BY <1>1, <1>7 DEF OwnInv, SendBytes, Mine, TypeOK
  <2>2. RequestOf(Stamp(s, claim)) = picked[s].req
    BY <2>1 DEF RequestOf, Stamp, Req, Requests
  <2>3. net' \subseteq net \cup {Stamp(s, claim)} /\ inbox' = inbox
        /\ picked' = [picked EXCEPT ![s] = Absent]
    BY <1>7 DEF SendBytes
  <2>. QED
    BY <1>2, <2>1, <2>2, <2>3 DEF TypeOK
<1>8. ASSUME NEW m \in net, NEW n \in Nodes, ReadFails(n, m) \/ NoAgent(n, m)
      PROVE  OwnInv'
  BY <1>3, <1>8 DEF ReadFails, NoAgent, Arrives
<1>9. ASSUME NEW m \in net, NEW n \in Nodes, Handle(n, m)
      PROVE  OwnInv'
  <2>1. UNCHANGED <<picked, inbox>> /\ net' \subseteq net \cup {Answer(m)}
    BY <1>9 DEF Handle, Arrives
  <2>2. RequestOf(Answer(m)) = RequestOf(m)
    BY DEF RequestOf, Answer, Resp
  <2>. QED
    BY <1>1, <1>2, <2>1, <2>2 DEF OwnInv
<1>10. ASSUME NEW m \in net, NEW n \in Nodes, Deliver(n, m)
       PROVE  OwnInv'
  <2>1. UNCHANGED <<picked, sent>> /\ net' \subseteq net
    BY <1>10 DEF Deliver, Arrives
  <2>2. RequestOf(m) \in sent /\ RequestOf(m).sid = m.sid /\ RequestOf(m).mid = m.mid
        /\ RequestOf(m).kind = m.msg[2]
    BY <1>1 DEF OwnInv, RequestOf
  <2>3. Steady(GateOf[m.sid]) => m.msg = Resp(m.msg[2])
    <3>1. /\ n = GateOf[m.sid] /\ n = m.target
      BY <1>10 DEF Deliver, HasAgent, Arrives, RoleInv
    <3>2. IsRequest(m) /\ Steady(n) => HasHandler(n, m)
      BY <3>1 DEF RoleInv, HasHandler, Handles
    <3>3. ~HasHandler(n, m)
      BY <1>10 DEF Deliver
    <3>4. ~IsRequest(m) => m.msg = Resp(m.msg[2])
      BY Parts
    <3>. QED
      BY <3>1, <3>2, <3>3, <3>4
  <2>4. ASSUME NEW s \in Sessions, Steady(GateOf[s]), NEW i \in DOMAIN inbox'[s]
        PROVE  \E r \in sent : r.sid = s /\ r.mid = inbox'[s][i].mid /\ Resp(r.kind) = inbox'[s][i].msg
    <3>1. CASE i \in DOMAIN inbox[s] /\ inbox'[s][i] = inbox[s][i]
      BY <1>1, <2>4, <3>1 DEF OwnInv
    <3>2. CASE s = m.sid /\ inbox'[s][i] = [mid |-> m.mid, msg |-> m.msg]
      BY <2>2, <2>3, <2>4, <3>2
    <3>. QED
      BY <1>10, <2>4, <3>1, <3>2, Delivered
  <2>5. \A s \in Sessions : picked'[s] # Absent => picked'[s].req \in Mine(s)'
    BY <1>1, <2>1 DEF OwnInv
  <2>6. \A l \in net' : RequestOf(l) \in sent'
    BY <1>1, <2>1 DEF OwnInv
  <2>. QED
    BY <2>1, <2>4, <2>5, <2>6 DEF OwnInv, Mine, RequestOf
<1>11. ASSUME NEW m \in net, Lose(m)
       PROVE  OwnInv'
  BY <1>3, <1>11 DEF Lose
<1>12. ASSUME NEW p \in Processes, Crash(p) \/ Restart(p)
       PROVE  OwnInv'
  BY <1>3, <1>12 DEF Crash, Restart
<1>13. ASSUME NEW n \in Nodes, Appear(n) \/ Vanish(n)
       PROVE  OwnInv'
  BY <1>3, <1>13 DEF Appear, Vanish
<1>14. CASE UNCHANGED vars
  BY <1>3, <1>14 DEF vars
<1>. QED
  BY <1>4, <1>5, <1>6, <1>7, <1>8, <1>9, <1>10, <1>11, <1>12, <1>13, <1>14, Steps

LEMMA OnceStep ==
  ASSUME Inv, [Next]_vars
  PROVE  OnceInv'
<1>. USE DEF Inv
<1>1. OnceInv
  OBVIOUS
<1>2. ASSUME net' \subseteq net, inbox' = inbox,
             \A s \in Sessions : picked'[s] = picked[s] \/ picked'[s] = Absent
      PROVE  OnceInv'
  <2>1. \A m \in net : m.sid \in Sessions
    BY Parts
  <2>. QED
    BY <1>1, <1>2, <2>1 DEF OnceInv
<1>3. ASSUME NEW s \in Sessions, Connect(s) \/ HangUp(s)
      PROVE  OnceInv'
  BY <1>2, <1>3 DEF Connect, HangUp
<1>4. ASSUME NEW s \in Sessions, NEW k \in Kinds, AskUnread(s, k) \/ AskNoNode(s, k)
      PROVE  OnceInv'
  BY <1>2, <1>4 DEF AskUnread, AskNoNode, Asks
<1>5. ASSUME NEW s \in Sessions, NEW k \in Kinds, AskPick(s, k)
      PROVE  OnceInv'
  <2>1. PICK new : new = NextRequest(s, k)
    OBVIOUS
  <2>2. UNCHANGED <<net, inbox>> /\ \A r \in Mine(s) : r.mid # new.mid
    <3>1. \A r \in Mine(s) : r.mid \in 1..MaxMid /\ r.mid < new.mid
      BY <1>5, <2>1, NextIsNew DEF AskPick, Asks, Mine, TypeOK, Requests
    <3>. QED
      BY <1>5, <3>1 DEF AskPick, Asks
  <2>3. PICK n \in Nodes : picked' = [picked EXCEPT ![s] = [req |-> new, to |-> n]]
    BY <1>5, <2>1 DEF AskPick, Members
  <2>4. ASSUME NEW m \in net, m.sid = s
        PROVE  m.mid # new.mid
    <3>1. RequestOf(m) \in Mine(s) /\ RequestOf(m).mid = m.mid
      BY <2>4 DEF OwnInv, RequestOf, Mine
    <3>. QED
      BY <2>2, <3>1
  <2>5. \A i \in DOMAIN inbox[s] : inbox[s][i].mid # new.mid
    BY <2>2 DEF NumberInv
  <2>6. \A q \in Sessions : picked'[q] = (IF q = s THEN [req |-> new, to |-> n] ELSE picked[q])
    BY <2>3 DEF TypeOK
  <2>7. \A m \in net : m.sid \in Sessions
    BY Parts
  <2>. QED
    BY <1>1, <2>2, <2>4, <2>5, <2>6, <2>7 DEF OnceInv
<1>6. ASSUME NEW s \in Sessions, NEW claim \in Sessions, SendBytes(s, claim)
      PROVE  OnceInv'
  <2>1. PICK m : m = Stamp(s, claim)
    OBVIOUS
  <2>2. m.sid = s /\ m.mid = picked[s].req.mid /\ picked[s] # Absent
        /\ net' \subseteq net \cup {m} /\ inbox' = inbox
        /\ \A q \in Sessions : picked'[q] = IF q = s THEN Absent ELSE picked[q]
    BY <1>6, <2>1 DEF SendBytes, Stamp, TypeOK
  <2>3. \A l \in net : l.sid \in Sessions /\ (l.sid = s => l.mid # m.mid)
    BY <1>1, <2>2, Parts DEF OnceInv
  <2>4. \A i \in DOMAIN inbox[s] : inbox[s][i].mid # m.mid
    BY <1>1, <2>2 DEF OnceInv
  <2>5. \A l, k \in net' : l.sid = k.sid /\ l.mid = k.mid => l = k
    BY <1>1, <2>2, <2>3 DEF OnceInv
  <2>6. \A l \in net' : picked'[l.sid] # Absent => picked'[l.sid].req.mid # l.mid
    <3>1. \A l \in net' : l \in net \/ l = m
      BY <2>2
    <3>2. \A l \in net' : l.sid \in Sessions
      BY <2>2, <2>3, <3>1
    <3>. QED
      BY <1>1, <2>2, <3>1, <3>2 DEF OnceInv
  <2>7. \A l \in net' : \A i \in DOMAIN inbox[l.sid] : inbox[l.sid][i].mid # l.mid
    BY <1>1, <2>2, <2>4 DEF OnceInv
  <2>8. \A q \in Sessions : picked'[q] # Absent =>
          \A i \in DOMAIN inbox[q] : inbox[q][i].mid # picked'[q].req.mid
    BY <1>1, <2>2 DEF OnceInv
  <2>9. inbox' = inbox /\ \A q \in Sessions : \A i, j \in DOMAIN inbox[q] :
          inbox[q][i].mid = inbox[q][j].mid => i = j
    BY <1>1, <2>2 DEF OnceInv
  <2>. QED
    BY <2>5, <2>6, <2>7, <2>8, <2>9 DEF OnceInv
<1>7. ASSUME NEW m \in net, NEW n \in Nodes, ReadFails(n, m) \/ NoAgent(n, m)
      PROVE  OnceInv'
  BY <1>2, <1>7 DEF ReadFails, NoAgent, Arrives
<1>8. ASSUME NEW m \in net, NEW n \in Nodes, Handle(n, m)
      PROVE  OnceInv'
  <2>1. PICK a : a = Answer(m)
    OBVIOUS
  <2>2. UNCHANGED <<picked, inbox>> /\ net' \subseteq (net \ {m}) \cup {a}
        /\ a.sid = m.sid /\ a.mid = m.mid
    BY <1>8, <2>1 DEF Handle, Arrives, Answer
  <2>3. \A l \in net \ {m} : l.sid = m.sid => l.mid # m.mid
    BY <1>1 DEF OnceInv
  <2>. QED
    BY <1>1, <2>2, <2>3 DEF OnceInv
<1>9. ASSUME NEW m \in net, NEW n \in Nodes, Deliver(n, m)
      PROVE  OnceInv'
  <2>1. picked' = picked /\ net' = net \ {m}
    BY <1>9 DEF Deliver, Arrives
  <2>2. m.sid \in Sessions /\ \A l \in net : l.sid \in Sessions
    BY Parts
  <2>3. ASSUME NEW s \in Sessions, NEW i \in DOMAIN inbox'[s]
        PROVE  \/ i \in DOMAIN inbox[s] /\ inbox'[s][i].mid = inbox[s][i].mid
               \/ /\ s = m.sid /\ i = Len(inbox[s]) + 1 /\ i \notin DOMAIN inbox[s]
                  /\ inbox'[s][i].mid = m.mid
    <3>1. CASE i \in DOMAIN inbox[s] /\ inbox'[s][i] = inbox[s][i]
      BY <3>1
    <3>2. CASE /\ s = m.sid /\ i = Len(inbox[s]) + 1 /\ i \notin DOMAIN inbox[s]
               /\ inbox'[s][i] = [mid |-> m.mid, msg |-> m.msg]
      BY <3>2
    <3>. QED
      BY <1>9, <2>3, <3>1, <3>2, Delivered
  <2>4. \A i \in DOMAIN inbox[m.sid] : inbox[m.sid][i].mid # m.mid
    BY <1>1 DEF OnceInv
  <2>5. ASSUME NEW l \in net', NEW i \in DOMAIN inbox'[l.sid]
        PROVE  inbox'[l.sid][i].mid # l.mid
    <3>1. l \in net /\ l # m /\ l.sid \in Sessions
      BY <2>1, <2>2
    <3>2. l.sid = m.sid => l.mid # m.mid
      BY <1>1, <3>1 DEF OnceInv
    <3>3. \A j \in DOMAIN inbox[l.sid] : inbox[l.sid][j].mid # l.mid
      BY <1>1, <3>1 DEF OnceInv
    <3>. QED
      BY <2>3, <2>5, <3>1, <3>2, <3>3
  <2>6. ASSUME NEW s \in Sessions, picked[s] # Absent, NEW i \in DOMAIN inbox'[s]
        PROVE  inbox'[s][i].mid # picked[s].req.mid
    <3>1. s = m.sid => picked[s].req.mid # m.mid
      BY <1>1, <2>6 DEF OnceInv
    <3>2. \A j \in DOMAIN inbox[s] : inbox[s][j].mid # picked[s].req.mid
      BY <1>1, <2>6 DEF OnceInv
    <3>. QED
      BY <2>3, <2>6, <3>1, <3>2
  <2>7. ASSUME NEW s \in Sessions, NEW i \in DOMAIN inbox'[s], NEW j \in DOMAIN inbox'[s],
               inbox'[s][i].mid = inbox'[s][j].mid
        PROVE  i = j
    <3>1. \A x, y \in DOMAIN inbox[s] : inbox[s][x].mid = inbox[s][y].mid => x = y
      BY <1>1 DEF OnceInv
    <3>. QED
      BY <2>3, <2>4, <2>7, <3>1
  <2>. QED
    BY <1>1, <2>1, <2>5, <2>6, <2>7 DEF OnceInv
<1>10. ASSUME NEW m \in net, Lose(m)
       PROVE  OnceInv'
  BY <1>2, <1>10 DEF Lose
<1>11. ASSUME NEW p \in Processes, Crash(p) \/ Restart(p)
       PROVE  OnceInv'
  BY <1>2, <1>11 DEF Crash, Restart
<1>12. ASSUME NEW n \in Nodes, Appear(n) \/ Vanish(n)
       PROVE  OnceInv'
  BY <1>2, <1>12 DEF Appear, Vanish
<1>13. CASE UNCHANGED vars
  BY <1>2, <1>13 DEF vars
<1>. QED
  BY <1>3, <1>4, <1>5, <1>6, <1>7, <1>8, <1>9, <1>10, <1>11, <1>12, <1>13, Steps

-------------------------------------------------------------------------------
(* Theorems.                                                               *)

LEMMA InitInv ==
  ASSUME Init
  PROVE  Inv
<1>1. TypeOK
  <2>1. registry \in [Processes -> SUBSET Messages]
    BY DEF Init, Listened, Messages
  <2>2. <<>> \in Seq([mid : 1..MaxMid, msg : Messages])
    OBVIOUS
  <2>. QED
    BY <2>1, <2>2, ForwardConstants DEF Init, TypeOK, ForwardConstants
<1>2. SentInv
  BY FS_EmptySet DEF Init, SentInv
<1>3. RegistryInv
  BY DEF Init, RegistryInv
<1>4. RoleInv
  BY DEF Init, RoleInv
<1>5. OwnInv /\ NumberInv /\ OnceInv
  <2>1. \A s \in Sessions : DOMAIN inbox[s] = {}
    BY DEF Init
  <2>. QED
    BY <2>1 DEF Init, OwnInv, NumberInv, OnceInv
<1>6. NoStrayRequest
  BY DEF Init, NoStrayRequest
<1>. QED
  BY <1>1, <1>2, <1>3, <1>4, <1>5, <1>6 DEF Inv

(* Every reachable state satisfies the inductive invariant.                *)
THEOREM Invariance == Spec => []Inv
<1>1. Inv /\ [Next]_vars => Inv'
  <2>. SUFFICES ASSUME Inv, [Next]_vars
                PROVE  Inv'
    OBVIOUS
  <2>. QED
    BY TypeStep, SentStep, RegistryStep, RoleStep, OwnStep, NumberStep, OnceStep, StrayStep DEF Inv
<1>. QED
  BY InitInv, <1>1, PTL DEF Spec

(* Type correctness of the gates, nodes and messages on their way.         *)
THEOREM TypeCorrect == Spec => []TypeOK
<1>1. Inv => TypeOK
  BY DEF Inv
<1>. QED
  BY <1>1, Invariance, PTL

(* cluster.go:143-154, hash.go:84: whatever the views and whoever          *)
(* restarts, a request reaches a node without a handler for it only if the *)
(* member changed its role between Random and GetType.                     *)
THEOREM NoRequestStrays == Spec => []NoStrayRequest
<1>1. Inv => NoStrayRequest
  BY DEF Inv
<1>. QED
  BY <1>1, Invariance, PTL

(* The gates keep the type of their profile.                               *)
GatesStay == \A s \in Sessions : Steady(GateOf[s])

(* agent.go:210-243, facade/cluster.go:59-80: a client is sent answers to  *)
(* requests of its own, each at most once, if no gate restarts as a node   *)
(* of another type: a gate that is still known under its former type may   *)
(* pick itself for a request of its client, and its default handler hands  *)
(* out what it has no handler for.                                         *)
THEOREM AnswersAreTheClients ==
  ASSUME GatesStay
  PROVE  Spec => []RightClient
<1>1. Inv => RightClient
  <2>. SUFFICES ASSUME Inv, NEW s \in Sessions, NEW i \in DOMAIN inbox[s]
                PROVE  /\ \E r \in sent : /\ r.sid = s /\ r.mid = inbox[s][i].mid
                                          /\ Resp(r.kind) = inbox[s][i].msg
                       /\ \A j \in DOMAIN inbox[s] : inbox[s][j] = inbox[s][i] => j = i
    BY DEF RightClient
  <2>1. \E r \in sent : r.sid = s /\ r.mid = inbox[s][i].mid /\ Resp(r.kind) = inbox[s][i].msg
    BY GatesStay DEF Inv, OwnInv, GatesStay
  <2>2. \A j \in DOMAIN inbox[s] : inbox[s][j] = inbox[s][i] => j = i
    BY DEF Inv, OnceInv
  <2>. QED
    BY <2>1, <2>2
<1>. QED
  BY <1>1, Invariance, PTL

-------------------------------------------------------------------------------
(* The exchange of requests and answers.                                   *)

LEMMA FateCases ==
  ASSUME NEW r
  PROVE  /\ r \notin sent => Fate(r) = "new"
         /\ r \in sent /\ (With(r) \/ OnItsWay(r)) => Fate(r) = "open"
         /\ r \in sent /\ ~With(r) /\ ~OnItsWay(r) /\ AnswerOnItsWay(r) => Fate(r) = "handled"
         /\ r \in sent /\ ~With(r) /\ ~OnItsWay(r) /\ ~AnswerOnItsWay(r) /\ Answered(r) =>
              Fate(r) = "answered"
         /\ r \in sent /\ ~With(r) /\ ~OnItsWay(r) /\ ~AnswerOnItsWay(r) /\ ~Answered(r) =>
              Fate(r) = "lost"
  BY DEF Fate

LEMMA FateCasesNext ==
  ASSUME NEW r
  PROVE  /\ r \in sent' /\ (With(r)' \/ OnItsWay(r)') => Fate(r)' = "open"
         /\ r \in sent' /\ ~With(r)' /\ ~OnItsWay(r)' /\ AnswerOnItsWay(r)' => Fate(r)' = "handled"
         /\ r \in sent' /\ ~With(r)' /\ ~OnItsWay(r)' /\ ~AnswerOnItsWay(r)' /\ Answered(r)' =>
              Fate(r)' = "answered"
         /\ r \in sent' /\ ~With(r)' /\ ~OnItsWay(r)' /\ ~AnswerOnItsWay(r)' /\ ~Answered(r)' =>
              Fate(r)' = "lost"
  BY DEF Fate

(* A request whose places do not change keeps its fate.                    *)
LEMMA FateStays ==
  ASSUME NEW r, (r \in sent') <=> (r \in sent), With(r)' <=> With(r), OnItsWay(r)' <=> OnItsWay(r),
         AnswerOnItsWay(r)' <=> AnswerOnItsWay(r), Answered(r)' <=> Answered(r)
  PROVE  Fate(r)' = Fate(r)
  BY DEF Fate

(* Steps of the table.                                                     *)
LEMMA TableStays ==
  ASSUME \A r \in Requests : Fate(r)' = Fate(r), inbox' = inbox
  PROVE  UNCHANGED Whole!exVars
  BY DEF Whole!exVars

LEMMA TableMoves ==
  ASSUME NEW q \in Requests, \A r \in Requests \ {q} : Fate(r)' = Fate(r)
  PROVE  [r \in Requests |-> Fate(r)]' = [[r \in Requests |-> Fate(r)] EXCEPT ![q] = Fate(q)']
  OBVIOUS

LEMMA TableFails ==
  ASSUME NEW gone \in SUBSET Requests, inbox' = inbox,
         \A r \in gone : Fate(r) \in {"open", "handled"} /\ Fate(r)' = "lost",
         \A r \in Requests \ gone : Fate(r)' = Fate(r)
  PROVE  Whole!ExNext
<1>1. Whole!Calls = Requests
  BY DEF Whole!Calls, Requests
<1>2. Whole!Fail(gone)
  BY <1>1 DEF Whole!Fail
<1>. QED
  BY <1>1, <1>2 DEF Whole!ExNext

(* A request on its way, or its answer, is nowhere else.                   *)
LEMMA Alone ==
  ASSUME Inv, NEW m \in net
  PROVE  /\ RequestOf(m) \in sent /\ RequestOf(m) \in Requests
         /\ ~With(RequestOf(m)) /\ ~Answered(RequestOf(m))
         /\ \A l \in net : RequestOf(l) = RequestOf(m) => l = m
         /\ Fate(RequestOf(m)) = IF IsRequest(m) THEN "open" ELSE "handled"
<1>. USE DEF Inv
<1>1. PICK r : r = RequestOf(m)
  OBVIOUS
<1>2. r \in sent /\ r \in Requests /\ r.sid = m.sid /\ r.mid = m.mid
  BY <1>1, Parts DEF OwnInv, RequestOf
<1>3. ~With(r) /\ ~Answered(r)
  BY <1>2 DEF OnceInv, With, Answered
<1>4. ASSUME NEW l \in net, RequestOf(l) = r
      PROVE  l = m
  <2>1. l.sid = m.sid /\ l.mid = m.mid
    BY <1>1, <1>4 DEF RequestOf
  <2>. QED
    BY <2>1 DEF OnceInv
<1>5. OnItsWay(r) <=> IsRequest(m)
  BY <1>1, <1>4 DEF OnItsWay
<1>6. AnswerOnItsWay(r) <=> ~IsRequest(m)
  BY <1>1, <1>4 DEF AnswerOnItsWay
<1>7. Fate(r) = IF IsRequest(m) THEN "open" ELSE "handled"
  BY <1>2, <1>3, <1>5, <1>6, FateCases
<1>. QED
  BY <1>1, <1>2, <1>3, <1>4, <1>7

(* A message disappears.                                                   *)
LEMMA MessageGone ==
  ASSUME Inv, NEW m \in net, net' = net \ {m}, UNCHANGED <<sent, picked, inbox>>
  PROVE  Whole!ExNext
<1>1. PICK q : q = RequestOf(m)
  OBVIOUS
<1>2. /\ q \in sent /\ q \in Requests /\ ~With(q) /\ ~Answered(q)
      /\ \A l \in net : RequestOf(l) = q => l = m
      /\ Fate(q) \in {"open", "handled"}
  BY <1>1, Alone
<1>3. Fate(q)' = "lost"
  <2>1. ~With(q)' /\ ~Answered(q)' /\ q \in sent'
    BY <1>2 DEF With, Answered
  <2>2. ~OnItsWay(q)' /\ ~AnswerOnItsWay(q)'
    BY <1>2 DEF OnItsWay, AnswerOnItsWay, RequestOf, IsRequest
  <2>. QED
    BY <2>1, <2>2, FateCasesNext
<1>4. ASSUME NEW r \in Requests \ {q}
      PROVE  Fate(r)' = Fate(r)
  <2>1. (r \in sent' <=> r \in sent) /\ (With(r)' <=> With(r)) /\ (Answered(r)' <=> Answered(r))
    BY DEF With, Answered
  <2>2. (OnItsWay(r)' <=> OnItsWay(r)) /\ (AnswerOnItsWay(r)' <=> AnswerOnItsWay(r))
    BY <1>1 DEF OnItsWay, AnswerOnItsWay, RequestOf, IsRequest
  <2>. QED
    BY <2>1, <2>2, FateStays
<1>. QED
  BY <1>2, <1>3, <1>4, TableFails

(* A request is picked up by the reader, or refused.                       *)
LEMMA Asked ==
  ASSUME Inv, NEW s \in Sessions, NEW k \in Kinds, Asks(s, k),
         \/ picked' = picked
         \/ \E n \in Nodes : picked' = [picked EXCEPT ![s] = [req |-> NextRequest(s, k), to |-> n]]
  PROVE  Whole!ExNext
<1>1. PICK q : q = NextRequest(s, k)
  OBVIOUS
<1>2. /\ q \in Requests /\ q \notin sent /\ q.sid = s /\ \A r \in Mine(s) : r.mid < q.mid
      /\ sent' = sent \cup {q} /\ UNCHANGED <<net, inbox>> /\ picked[s] = Absent
  BY <1>1, NextIsNew DEF Asks, Inv
<1>3. \A r \in sent : r.sid = s => r.mid # q.mid
  <2>1. \A r \in sent : r \in Requests /\ r.mid \in Nat
    BY DEF Inv, TypeOK, Requests
  <2>. QED
    BY <1>2, <2>1 DEF Mine, Requests
<1>4. Whole!Calls = Requests
  BY DEF Whole!Calls, Requests
<1>5. \A r \in Requests : r.sid = q.sid /\ r.mid = q.mid => Fate(r) = "new"
  BY <1>2, <1>3, FateCases
<1>6. ~OnItsWay(q) /\ ~AnswerOnItsWay(q) /\ ~Answered(q)
  <2>1. \A m \in net : RequestOf(m) # q
    BY <1>2 DEF Inv, OwnInv
  <2>2. \A i \in DOMAIN inbox[s] : inbox[s][i].mid # q.mid
    BY <1>3 DEF Inv, NumberInv, Mine
  <2>. QED
    BY <1>2, <2>1, <2>2 DEF OnItsWay, AnswerOnItsWay, Answered
<1>7. ASSUME NEW r \in Requests
      PROVE  (OnItsWay(r)' <=> OnItsWay(r)) /\ (AnswerOnItsWay(r)' <=> AnswerOnItsWay(r))
             /\ (Answered(r)' <=> Answered(r))
  BY <1>2 DEF OnItsWay, AnswerOnItsWay, Answered, RequestOf, IsRequest
<1>8. ASSUME NEW r \in Requests \ {q}
      PROVE  Fate(r)' = Fate(r)
  <2>1. With(r)' <=> With(r)
    <3>1. CASE picked' = picked
      BY <3>1 DEF With
    <3>2. ASSUME NEW n \in Nodes, picked' = [picked EXCEPT ![s] = [req |-> q, to |-> n]]
          PROVE  With(r)' <=> With(r)
      <4>1. r.sid \in Sessions
        BY DEF Requests
      <4>2. picked \in [Sessions -> [req : Requests, to : Nodes] \cup {Absent}]
        BY DEF Inv, TypeOK
      <4>. QED
        BY <1>2, <3>2, <4>1, <4>2 DEF With
    <3>. QED
      BY <1>1, <3>1, <3>2
  <2>. QED
    BY <1>2, <1>7, <2>1, FateStays
<1>9. Fate(q)' \in {"open", "lost"}
  <2>1. q \in sent' /\ ~OnItsWay(q)' /\ ~AnswerOnItsWay(q)' /\ ~Answered(q)'
    BY <1>2, <1>6, <1>7
  <2>. QED
    BY <2>1, FateCasesNext
<1>10. Whole!Ask(q)
  <2>1. [r \in Requests |-> Fate(r)]' = [[r \in Requests |-> Fate(r)] EXCEPT ![q] = Fate(q)']
    BY <1>2, <1>8, TableMoves
  <2>. QED
    BY <1>2, <1>4, <1>5, <1>9, <2>1 DEF Whole!Ask
<1>. QED
  BY <1>2, <1>4, <1>10 DEF Whole!ExNext

(* A picked request is sent, or fails.                                     *)
LEMMA Forwarded ==
  ASSUME Inv, NEW s \in Sessions, NEW claim \in Sessions, SendBytes(s, claim)
  PROVE  [Whole!ExNext]_(Whole!exVars)
<1>1. PICK q : q = picked[s].req
  OBVIOUS
<1>2. /\ q \in sent /\ q \in Requests /\ q.sid = s /\ picked[s] # Absent
      /\ UNCHANGED <<sent, inbox>>
      /\ \A t \in Sessions : picked'[t] = IF t = s THEN Absent ELSE picked[t]
  BY <1>1 DEF SendBytes, Inv, OwnInv, Mine, TypeOK
<1>3. With(q) /\ Fate(q) = "open"
  <2>1. With(q)
    BY <1>1, <1>2 DEF With
  <2>. QED
    BY <1>2, <2>1, FateCases
<1>4. ~OnItsWay(q) /\ ~AnswerOnItsWay(q) /\ ~Answered(q)
  <2>1. \A m \in net : RequestOf(m) # q
    BY <1>3, Alone
  <2>2. ~Answered(q)
    BY <1>1, <1>2 DEF Inv, OnceInv, Answered
  <2>. QED
    BY <2>1, <2>2 DEF OnItsWay, AnswerOnItsWay
<1>5. ~With(q)' /\ q \in sent' /\ (Answered(q)' <=> Answered(q))
  BY <1>2 DEF With, Answered
<1>6. ASSUME NEW r \in Requests \ {q}
      PROVE  /\ r \in sent' <=> r \in sent
             /\ With(r)' <=> With(r)
             /\ Answered(r)' <=> Answered(r)
  <2>1. r.sid \in Sessions
    BY DEF Requests
  <2>. QED
    BY <1>1, <1>2, <2>1 DEF With, Answered
<1>7. CASE net' = net \cup {Stamp(s, claim)}
  <2>1. PICK m : m = Stamp(s, claim)
    OBVIOUS
  <2>2. RequestOf(m) = q /\ IsRequest(m)
    BY <1>1, <1>2, <2>1 DEF RequestOf, Stamp, Req, Requests, IsRequest
  <2>3. Fate(q)' = "open"
    <3>1. OnItsWay(q)'
      BY <1>7, <2>1, <2>2 DEF OnItsWay, RequestOf, IsRequest
    <3>. QED
      BY <1>5, <3>1, FateCasesNext
  <2>4. ASSUME NEW r \in Requests \ {q}
        PROVE  Fate(r)' = Fate(r)
    <3>1. (OnItsWay(r)' <=> OnItsWay(r)) /\ (AnswerOnItsWay(r)' <=> AnswerOnItsWay(r))
      BY <1>7, <2>1, <2>2 DEF OnItsWay, AnswerOnItsWay, RequestOf, IsRequest
    <3>. QED
      BY <1>6, <3>1, FateStays
  <2>. QED
    BY <1>2, <1>3, <2>3, <2>4, TableStays
<1>8. CASE net' = net
  <2>1. Fate(q)' = "lost"
    <3>1. ~OnItsWay(q)' /\ ~AnswerOnItsWay(q)'
      BY <1>4, <1>8 DEF OnItsWay, AnswerOnItsWay, RequestOf, IsRequest
    <3>. QED
      BY <1>4, <1>5, <3>1, FateCasesNext
  <2>2. ASSUME NEW r \in Requests \ {q}
        PROVE  Fate(r)' = Fate(r)
    <3>1. (OnItsWay(r)' <=> OnItsWay(r)) /\ (AnswerOnItsWay(r)' <=> AnswerOnItsWay(r))
      BY <1>8 DEF OnItsWay, AnswerOnItsWay, RequestOf, IsRequest
    <3>. QED
      BY <1>6, <3>1, FateStays
  <2>3. {q} \in SUBSET Requests
    BY <1>2
  <2>. QED
    BY <1>2, <1>3, <2>1, <2>2, <2>3, TableFails
<1>. QED
  BY <1>7, <1>8 DEF SendBytes

(* A handler answers: the request is gone, and its answer takes its place, *)
(* unless it is not sent.                                                  *)
LEMMA Handled ==
  ASSUME Inv, NEW n \in Nodes, NEW m \in net, Handle(n, m)
  PROVE  Whole!ExNext
<1>1. UNCHANGED <<sent, picked, inbox>> /\ IsRequest(m)
  BY DEF Handle, Arrives, HasHandler
<1>2. CASE net' = net \ {m}
  BY <1>1, <1>2, MessageGone
<1>3. CASE net' = (net \ {m}) \cup {Answer(m)}
  <2>1. PICK q, a : q = RequestOf(m) /\ a = Answer(m)
    OBVIOUS
  <2>2. RequestOf(a) = q /\ ~IsRequest(a)
    BY <2>1 DEF RequestOf, Answer, IsRequest, Resp
  <2>3. /\ q \in sent /\ q \in Requests /\ ~With(q) /\ ~Answered(q) /\ Fate(q) = "open"
        /\ \A l \in net : RequestOf(l) = q => l = m
    BY <1>1, <2>1, Alone
  <2>4. \A l \in net' : l = a \/ (l \in net /\ l # m)
    BY <1>3, <2>1
  <2>5. Fate(q)' = "handled"
    <3>1. ~With(q)' /\ ~Answered(q)' /\ q \in sent'
      BY <1>1, <2>3 DEF With, Answered
    <3>2. ~OnItsWay(q)'
      BY <2>2, <2>3, <2>4 DEF OnItsWay, RequestOf, IsRequest
    <3>3. AnswerOnItsWay(q)'
      BY <1>3, <2>1, <2>2 DEF AnswerOnItsWay, RequestOf, IsRequest
    <3>. QED
      BY <3>1, <3>2, <3>3, FateCasesNext
  <2>6. ASSUME NEW r \in Requests \ {q}
        PROVE  Fate(r)' = Fate(r)
    <3>1. (r \in sent' <=> r \in sent) /\ (With(r)' <=> With(r)) /\ (Answered(r)' <=> Answered(r))
      BY <1>1 DEF With, Answered
    <3>2. \A l : RequestOf(l) = r => (l \in net' <=> l \in net)
      BY <1>3, <2>1, <2>2
    <3>3. (OnItsWay(r)' <=> OnItsWay(r)) /\ (AnswerOnItsWay(r)' <=> AnswerOnItsWay(r))
      BY <3>2 DEF OnItsWay, AnswerOnItsWay, RequestOf, IsRequest
    <3>. QED
      BY <3>1, <3>3, FateStays
  <2>7. Whole!Calls = Requests
    BY DEF Whole!Calls, Requests
  <2>8. [r \in Requests |-> Fate(r)]' = [[r \in Requests |-> Fate(r)] EXCEPT ![q] = Fate(q)']
    BY <2>3, <2>6, TableMoves
  <2>9. Whole!Handle(q)
    BY <1>1, <2>3, <2>5, <2>8 DEF Whole!Handle
  <2>. QED
    BY <2>3, <2>7, <2>9 DEF Whole!ExNext
<1>. QED
  BY <1>2, <1>3 DEF Handle

(* What the default handler of a gate hands out is an answer.              *)
LEMMA OnlyAnswers ==
  ASSUME Inv, GatesStay, NEW n \in Nodes, NEW m \in net, Deliver(n, m)
  PROVE  ~IsRequest(m) /\ m.msg = Resp(m.msg[2])
<1>. USE DEF Inv
<1>1. n = GateOf[m.sid] /\ n = m.target /\ m.sid \in Sessions
  BY Parts DEF Deliver, HasAgent, Arrives, RoleInv
<1>2. Steady(n)
  BY <1>1 DEF GatesStay
<1>3. IsRequest(m) => HasHandler(n, m)
  BY <1>1, <1>2 DEF RoleInv, HasHandler, Handles
<1>4. ~HasHandler(n, m)
  BY DEF Deliver
<1>5. ~IsRequest(m) => m.msg = Resp(m.msg[2])
  BY Parts
<1>. QED
  BY <1>3, <1>4, <1>5

(* An answer reaches the client of its request.                            *)
LEMMA Received ==
  ASSUME Inv, GatesStay, NEW n \in Nodes, NEW m \in net, Deliver(n, m)
  PROVE  Whole!ExNext
<1>1. UNCHANGED <<sent, picked>> /\ net' = net \ {m} /\ ~IsRequest(m) /\ m.msg = Resp(m.msg[2])
  BY OnlyAnswers DEF Deliver, Arrives
<1>2. PICK q : q = RequestOf(m)
  OBVIOUS
<1>3. /\ q \in sent /\ q \in Requests /\ ~With(q) /\ Fate(q) = "handled"
      /\ \A l \in net : RequestOf(l) = q => l = m
      /\ q.sid = m.sid /\ q.mid = m.mid /\ q.kind = m.msg[2]
  BY <1>1, <1>2, Alone DEF RequestOf
<1>4. m.sid \in Sessions /\ inbox \in [Sessions -> Seq([mid : 1..MaxMid, msg : Messages])]
  BY Parts DEF Inv, TypeOK
<1>5. inbox' = [inbox EXCEPT ![q.sid] = Append(@, Whole!Reply(q))]
  <2>1. Whole!Reply(q) = [mid |-> m.mid, msg |-> m.msg]
    BY <1>1, <1>3 DEF Whole!Reply, Resp
  <2>. QED
    BY <1>3, <2>1 DEF Deliver
<1>6. \A s \in Sessions : \A i \in DOMAIN inbox[s] :
        i \in DOMAIN inbox'[s] /\ inbox'[s][i] = inbox[s][i]
  <2>1. PICK item \in [mid : 1..MaxMid, msg : Messages] : item = [mid |-> m.mid, msg |-> m.msg]
    BY Parts DEF Inv, Envelopes
  <2>2. inbox' = [inbox EXCEPT ![m.sid] = Append(inbox[m.sid], item)]
    BY <2>1 DEF Deliver
  <2>3. ASSUME NEW s \in Sessions, NEW i \in DOMAIN inbox[s]
        PROVE  i \in DOMAIN inbox'[s] /\ inbox'[s][i] = inbox[s][i]
    <3>1. CASE s # m.sid
      BY <1>4, <2>2, <3>1
    <3>2. CASE s = m.sid
      <4>1. inbox'[s] = Append(inbox[s], item) /\ inbox[s] \in Seq([mid : 1..MaxMid, msg : Messages])
        BY <1>4, <2>2, <3>2
      <4>. QED
        BY <4>1
    <3>. QED
      BY <3>1, <3>2
  <2>. QED
    BY <2>3
<1>7. Len(inbox[m.sid]) + 1 \in DOMAIN inbox'[m.sid]
      /\ inbox'[m.sid][Len(inbox[m.sid]) + 1].mid = m.mid
  <2>1. PICK item \in [mid : 1..MaxMid, msg : Messages] : item = [mid |-> m.mid, msg |-> m.msg]
    BY Parts DEF Inv, Envelopes
  <2>2. inbox'[m.sid] = Append(inbox[m.sid], item)
        /\ inbox[m.sid] \in Seq([mid : 1..MaxMid, msg : Messages])
    BY <1>4, <2>1 DEF Deliver
  <2>. QED
    BY <2>1, <2>2
<1>8. Fate(q)' = "answered"
  <2>1. Answered(q)'
    BY <1>3, <1>7 DEF Answered
  <2>2. ~With(q)' /\ q \in sent'
    BY <1>1, <1>3 DEF With
  <2>3. ~OnItsWay(q)' /\ ~AnswerOnItsWay(q)'
    BY <1>1, <1>3 DEF OnItsWay, AnswerOnItsWay, RequestOf, IsRequest
  <2>. QED
    BY <2>1, <2>2, <2>3, FateCasesNext
<1>9. ASSUME NEW r \in Requests \ {q}
      PROVE  Fate(r)' = Fate(r)
  <2>1. (r \in sent' <=> r \in sent) /\ (With(r)' <=> With(r))
    BY <1>1 DEF With
  <2>2. (OnItsWay(r)' <=> OnItsWay(r)) /\ (AnswerOnItsWay(r)' <=> AnswerOnItsWay(r))
    BY <1>1, <1>2 DEF OnItsWay, AnswerOnItsWay, RequestOf, IsRequest
  <2>3. CASE r \notin sent
    BY <2>1, <2>3 DEF Fate
  <2>4. CASE r \in sent
    <3>1. r.sid = m.sid => r.mid # m.mid
      BY <1>3, <2>4 DEF Inv, SentInv
    <3>2. r.sid \in Sessions
      BY DEF Requests
    <3>3. \A i \in DOMAIN inbox'[r.sid] : inbox'[r.sid][i].mid = r.mid => i \in DOMAIN inbox[r.sid]
      <4>1. ASSUME NEW i \in DOMAIN inbox'[r.sid], inbox'[r.sid][i].mid = r.mid
            PROVE  i \in DOMAIN inbox[r.sid]
        <5>1. CASE i \in DOMAIN inbox[r.sid]
          BY <5>1
        <5>2. CASE r.sid = m.sid /\ inbox'[r.sid][i] = [mid |-> m.mid, msg |-> m.msg]
          BY <3>1, <4>1, <5>2
        <5>. QED
          BY <3>2, <4>1, <5>1, <5>2, Delivered DEF Inv
      <4>. QED
        BY <4>1
    <3>4. Answered(r)' <=> Answered(r)
      BY <1>6, <3>2, <3>3 DEF Answered
    <3>. QED
      BY <2>1, <2>2, <3>4, FateStays
  <2>. QED
    BY <2>3, <2>4
<1>10. Whole!Calls = Requests
  BY DEF Whole!Calls, Requests
<1>11. Whole!Answer(q)
  <2>1. [r \in Requests |-> Fate(r)]' = [[r \in Requests |-> Fate(r)] EXCEPT ![q] = Fate(q)']
    BY <1>3, <1>9, TableMoves
  <2>. QED
    BY <1>3, <1>5, <1>8, <2>1 DEF Whole!Answer
<1>. QED
  BY <1>3, <1>10, <1>11 DEF Whole!ExNext

(* The readers of a process that ends lose what they were about to send.   *)
LEMMA Ended ==
  ASSUME Inv, NEW p \in Processes, Crash(p)
  PROVE  Whole!ExNext
<1>1. /\ UNCHANGED <<sent, net, inbox>>
      /\ \A s \in Sessions : picked'[s] = IF Home[GateOf[s]] = p THEN Absent ELSE picked[s]
  BY DEF Crash
<1>2. PICK gone : gone = {r \in Requests : With(r) /\ Home[GateOf[r.sid]] = p}
  OBVIOUS
<1>3. \A r \in Requests : r.sid \in Sessions
  BY DEF Requests
<1>4. ASSUME NEW r \in Requests
      PROVE  /\ r \in sent' <=> r \in sent
             /\ OnItsWay(r)' <=> OnItsWay(r)
             /\ AnswerOnItsWay(r)' <=> AnswerOnItsWay(r)
             /\ Answered(r)' <=> Answered(r)
  BY <1>1 DEF OnItsWay, AnswerOnItsWay, Answered, RequestOf, IsRequest
<1>5. ASSUME NEW r \in gone
      PROVE  Fate(r) = "open" /\ Fate(r)' = "lost"
  <2>1. r \in Requests /\ With(r) /\ Home[GateOf[r.sid]] = p /\ r.sid \in Sessions
    BY <1>2, <1>3
  <2>2. r \in sent
    BY <2>1 DEF Inv, OwnInv, With, Mine
  <2>3. ~OnItsWay(r) /\ ~AnswerOnItsWay(r)
    <3>1. \A m \in net : RequestOf(m) # r
      BY <2>1, Alone
    <3>. QED
      BY <3>1 DEF OnItsWay, AnswerOnItsWay
  <2>4. ~Answered(r)
    BY <2>1 DEF Inv, OnceInv, Answered, With
  <2>5. ~With(r)'
    BY <1>1, <2>1 DEF With
  <2>6. Fate(r) = "open"
    BY <2>1, <2>2, FateCases
  <2>7. r \in sent' /\ ~OnItsWay(r)' /\ ~AnswerOnItsWay(r)' /\ ~Answered(r)'
    BY <1>4, <2>1, <2>2, <2>3, <2>4
  <2>8. Fate(r)' = "lost"
    BY <2>5, <2>7, FateCasesNext
  <2>. QED
    BY <2>6, <2>8
<1>6. ASSUME NEW r \in Requests \ gone
      PROVE  Fate(r)' = Fate(r)
  <2>1. With(r)' <=> With(r)
    BY <1>1, <1>2, <1>3 DEF With
  <2>. QED
    BY <1>4, <2>1, FateStays
<1>7. gone \in SUBSET Requests
  BY <1>2
<1>. QED
  BY <1>1, <1>5, <1>6, <1>7, TableFails

LEMMA ExchangeStep ==
  ASSUME Inv, GatesStay, [Next]_vars
  PROVE  [Whole!ExNext]_(Whole!exVars)
<1>1. ASSUME NEW s \in Sessions, NEW k \in Kinds, AskUnread(s, k) \/ AskNoNode(s, k) \/ AskPick(s, k)
      PROVE  Whole!ExNext
  BY <1>1, Asked DEF AskUnread, AskNoNode, AskPick, Members
<1>2. ASSUME NEW s \in Sessions, NEW claim \in Sessions, SendBytes(s, claim)
      PROVE  [Whole!ExNext]_(Whole!exVars)
  BY <1>2, Forwarded
<1>3. ASSUME NEW m \in net, NEW n \in Nodes, ReadFails(n, m) \/ NoAgent(n, m)
      PROVE  Whole!ExNext
  BY <1>3, MessageGone DEF ReadFails, NoAgent, Arrives
<1>4. ASSUME NEW m \in net, Lose(m)
      PROVE  Whole!ExNext
  BY <1>4, MessageGone DEF Lose
<1>5. ASSUME NEW m \in net, NEW n \in Nodes, Handle(n, m) \/ Deliver(n, m)
      PROVE  Whole!ExNext
  BY <1>5, Handled, Received
<1>6. ASSUME NEW p \in Processes, Crash(p)
      PROVE  Whole!ExNext
  BY <1>6, Ended
<1>7. ASSUME UNCHANGED <<sent, picked, net, inbox>>
      PROVE  UNCHANGED Whole!exVars
  <2>1. \A r \in Requests : Fate(r)' = Fate(r)
    BY <1>7 DEF Fate, With, OnItsWay, AnswerOnItsWay, Answered, RequestOf, IsRequest
  <2>. QED
    BY <1>7, <2>1, TableStays
<1>8. ASSUME \/ \E s \in Sessions : Connect(s) \/ HangUp(s)
             \/ \E p \in Processes : Restart(p)
             \/ \E n \in Nodes : Appear(n) \/ Vanish(n)
             \/ UNCHANGED vars
      PROVE  UNCHANGED <<sent, picked, net, inbox>>
  BY <1>8 DEF Connect, HangUp, Restart, Appear, Vanish, vars
<1>. QED
  BY <1>1, <1>2, <1>3, <1>4, <1>5, <1>6, <1>7, <1>8, Steps

(* agent.go:210-243, cluster.go:119-158, facade/cluster.go:59-80: the gates, *)
(* nodes and views together implement the exchange: no request is handled  *)
(* twice, and every answer a client gets comes from a handler that had its *)
(* request, if no gate restarts as a node of another type.                 *)
THEOREM Refinement ==
  ASSUME GatesStay
  PROVE  Spec => ImplementsExchange
<1>1. Init => Whole!ExInit
  <2>1. SUFFICES ASSUME Init
                 PROVE  Whole!ExInit
    OBVIOUS
  <2>2. \A r : Fate(r) = "new"
    BY <2>1 DEF Init, Fate
  <2>3. Whole!Calls = Requests
    BY DEF Whole!Calls, Requests
  <2>. QED
    BY <2>1, <2>2, <2>3 DEF Init, Whole!ExInit
<1>2. Inv /\ [Next]_vars => [Whole!ExNext]_(Whole!exVars)
  BY GatesStay, ExchangeStep
<1>. QED
  BY <1>1, <1>2, Invariance, PTL DEF Spec, ImplementsExchange, Whole!ExSpec
===============================================================================
