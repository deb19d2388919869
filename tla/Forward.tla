------------------------------- MODULE Forward -------------------------------
(***************************************************************************)
(* The way of a client's request through the system: the gate reads it     *)
(* (Agent.readChan), looks up the node type of its route and one member of *)
(* that type (Agent.processPacket), NATS carries it to that node, the      *)
(* handler there answers (Sender.Resp), and the default handler of the     *)
(* gate puts the answer to the session it belongs to (Agents.Init).        *)
(*                                                                         *)
(* A message type is known to a process once it is registered there:       *)
(* ListenMsg registers what the node handles, OnMarshal what it sends.     *)
(* The table is a global of the process, so nodes that run in one process, *)
(* as in cmd/all-in-one, share it.  A type that is not known cannot be     *)
(* read: the gate then closes the connection of the client, and the        *)
(* receive loop of a node drops the message.                               *)
(*                                                                         *)
(* Abstractions: the views of the nodes are one map, which may be behind   *)
(* what runs, or ahead of it, in any way (module Discovery has the views   *)
(* one by one); what an agent does to get an answer out is one step        *)
(* (module Agent); the receive loop and the worker are one step, as an     *)
(* accepted message that is lost with its process is lost in the network   *)
(* as well; handlers answer once, as those of the repository do.           *)
(***************************************************************************)
EXTENDS Integers, Sequences, FiniteSets

CONSTANTS
  Processes,    \* operating system processes
  Nodes,        \* node ids
  Home,         \* Home[n]: the process node n runs in
  TypesOf,      \* TypesOf[n]: the types the profiles give node n, over its restarts
  Types,
  Kinds,        \* request types of clients; each has one answer type
  Route,        \* Route[k]: the node type given to RouteMessage for k
  Sessions,     \* connections of clients; a sid is never used again
  GateOf,       \* GateOf[s]: the node that accepted connection s
  MaxMid,       \* bound: requests of one client
  MaxCrashes,   \* bound: processes that end
  Absent

ASSUME ForwardConstants ==
  /\ Home \in [Nodes -> Processes]
  /\ TypesOf \in [Nodes -> SUBSET Types \ {{}}]
  /\ Route \in [Kinds -> Types]
  /\ GateOf \in [Sessions -> Nodes]
  /\ {MaxMid, MaxCrashes} \subseteq Nat
  /\ Absent \notin Types

VARIABLES
  up,           \* processes that run
  crashes,
  typeOf,       \* the type of each node in its present life
  registry,     \* id2type of each process
  view,         \* memberMap: the type under which a node is known, or Absent
  conn,         \* the connection of each session
  sent,         \* history: the requests clients have sent
  picked,       \* the request each reader is about to forward and the member it picked
  net,          \* messages on their way in NATS
  inbox,        \* what each client has been sent
  dropped,      \* history: requests lost in NATS, or with an error the code logs
  unread,       \* history: answers dropped because the gate did not know their type
  stray         \* history: requests that reached a node without a handler for them

nodeVars == <<up, crashes, typeOf>>
history  == <<dropped, unread, stray>>
vars == <<nodeVars, registry, view, conn, sent, picked, net, inbox, history>>

Req(k)  == <<"request", k>>
Resp(k) == <<"answer", k>>
Messages == {Req(k) : k \in Kinds} \cup {Resp(k) : k \in Kinds}

Running(n) == Home[n] \in up
Knows(n, msg) == msg \in registry[Home[n]]

(* getRemoteSubject and GetType: a node is addressed by type and id.       *)
Subject(n) == <<view[n], n>>

(* route2nodeTyp and ListByType. *)
Members(k) == {n \in Nodes : view[n] = Route[k]}

(* reqHandlers of node n: the service of a type listens to its own requests. *)
Handles(n, k) == Route[k] = typeOf[n]

-------------------------------------------------------------------------------
(* The types a process knows from the start: those its nodes listen to.    *)
Listened(p, types) ==
  {Req(k) : k \in {j \in Kinds : \E n \in Nodes : Home[n] = p /\ Route[j] = types[n]}}

Profiles == {f \in [Nodes -> Types] : \A n \in Nodes : f[n] \in TypesOf[n]}

Init ==
  /\ up = Processes /\ crashes = 0
  /\ typeOf \in Profiles
  /\ registry = [p \in Processes |-> Listened(p, typeOf)]
  /\ view = [n \in Nodes |-> Absent]
  /\ conn = [s \in Sessions |-> "new"]
  /\ sent = {} /\ net = {}
  /\ picked = [s \in Sessions |-> Absent]
  /\ inbox = [s \in Sessions |-> <<>>]
  /\ dropped = {} /\ unread = {} /\ stray = {}

(* NewAgent, BindSID and Start for a new connection. *)
Connect(s) ==
  /\ conn[s] = "new" /\ Running(GateOf[s])
  /\ conn' = [conn EXCEPT ![s] = "open"]
  /\ UNCHANGED <<nodeVars, registry, view, sent, picked, net, inbox, history>>

-------------------------------------------------------------------------------
(* A client sends its next request; the reader of its gate takes it.       *)

NextRequest(s, k) ==
  [sid |-> s, mid |-> 1 + Cardinality({r \in sent : r.sid = s}), kind |-> k]

Asks(s, k) ==
  /\ conn[s] = "open" /\ picked[s] = Absent
  /\ NextRequest(s, k).mid <= MaxMid
  /\ sent' = sent \cup {NextRequest(s, k)}
  /\ UNCHANGED <<nodeVars, registry, view, net, inbox, unread, stray>>

(* ReadMessage fails, readChan returns and the agent is closed.            *)
AskUnread(s, k) ==
  /\ Asks(s, k)
  /\ ~Knows(GateOf[s], Req(k))
  /\ conn' = [conn EXCEPT ![s] = "closed"]
  /\ UNCHANGED <<picked, dropped>>

\* Faulty variant: the result of Random is used although there is no member.
AskNoNode_Ignored(s, k) ==
  /\ Asks(s, k)
  /\ Knows(GateOf[s], Req(k))
  /\ Members(k) = {}
  /\ picked' = [picked EXCEPT ![s] = [req |-> NextRequest(s, k), to |-> Absent]]
  /\ UNCHANGED <<conn, dropped>>

AskNoNode(s, k) ==
  /\ Asks(s, k)
  /\ Knows(GateOf[s], Req(k))
  /\ Members(k) = {}
  /\ dropped' = dropped \cup {NextRequest(s, k)}
  /\ UNCHANGED <<conn, picked>>

(* Random picks a member of the type. *)
AskPick(s, k) ==
  /\ Asks(s, k)
  /\ Knows(GateOf[s], Req(k))
  /\ \E n \in Members(k) : picked' = [picked EXCEPT ![s] = [req |-> NextRequest(s, k), to |-> n]]
  /\ UNCHANGED <<conn, dropped>>

\* Faulty variant: the sid the client wrote into its message is kept.
Stamp_KeepSid(s, claim) ==
  [subject |-> Subject(picked[s].to), msg |-> Req(picked[s].req.kind), sid |-> claim,
   mid |-> picked[s].req.mid, source |-> GateOf[s], target |-> picked[s].to]

(* The common part as processPacket fills it in; the client may have       *)
(* claimed another sid.                                                    *)
Stamp(s, claim) ==
  [subject |-> Subject(picked[s].to), msg |-> Req(picked[s].req.kind), sid |-> s,
   mid |-> picked[s].req.mid, source |-> GateOf[s], target |-> picked[s].to]

\* Faulty variant: the reader does not forget what it has forwarded.
SendBytes_Again(s, claim) ==
  /\ picked[s] # Absent
  /\ view[picked[s].to] # Absent
  /\ net' = net \cup {Stamp(s, claim)}
  /\ UNCHANGED <<nodeVars, registry, view, conn, sent, picked, inbox, history>>

(* SendBytes looks the member up again, by its id: it may have gone since, *)
(* or have come back as a node of another type.  It also returns an error  *)
(* when the gate is not running (yet, or any more) or NATS does not take   *)
(* the message.                                                            *)
SendBytes(s, claim) ==
  /\ picked[s] # Absent
  /\ picked' = [picked EXCEPT ![s] = Absent]
  /\ \/ /\ view[picked[s].to] # Absent
        /\ net' = net \cup {Stamp(s, claim)}
        /\ UNCHANGED dropped
     \/ /\ dropped' = dropped \cup {picked[s].req}
        /\ UNCHANGED net
  /\ UNCHANGED <<nodeVars, registry, view, conn, sent, inbox, unread, stray>>

-------------------------------------------------------------------------------
(* A node receives a message: ReadMessage, then the handler of its type.   *)

RequestOf(m) == [sid |-> m.sid, mid |-> m.mid, kind |-> m.msg[2]]
IsRequest(m) == m.msg[1] = "request"
HasHandler(n, m) == IsRequest(m) /\ Handles(n, m.msg[2])
HasAgent(n, m) == GateOf[m.sid] = n /\ conn[m.sid] = "open"

\* Faulty variant: a node subscribes to its id, whatever its type.
Arrives_ById(n, m) ==
  /\ m \in net
  /\ Running(n) /\ m.subject[2] = n
  /\ UNCHANGED <<nodeVars, view, sent, picked, conn>>

Arrives(n, m) ==
  /\ m \in net
  /\ Running(n) /\ m.subject = <<typeOf[n], n>>
  /\ UNCHANGED <<nodeVars, view, sent, picked, conn>>

ReadFails(n, m) ==
  /\ Arrives(n, m)
  /\ ~Knows(n, m.msg)
  /\ net' = net \ {m}
  /\ \/ /\ IsRequest(m)
        /\ stray' = stray \cup {m}
        /\ UNCHANGED unread
     \/ /\ ~IsRequest(m)
        /\ unread' = unread \cup {RequestOf(m)}
        /\ UNCHANGED stray
  /\ UNCHANGED <<registry, inbox, dropped>>

\* Faulty variant: source and target are not swapped.
Answer_NotSwapped(m) ==
  [subject |-> Subject(m.target), msg |-> Resp(m.msg[2]), sid |-> m.sid, mid |-> m.mid,
   source |-> m.source, target |-> m.target]

(* The message Sender.Resp sends. *)
Answer(m) ==
  [subject |-> Subject(m.source), msg |-> Resp(m.msg[2]), sid |-> m.sid, mid |-> m.mid,
   source |-> m.target, target |-> m.source]

(* OnMarshal registers the type of a message that is packed.               *)
OnMarshal(n, msg) == [registry EXCEPT ![Home[n]] = @ \cup {msg}]

(* The handler answers.  The answer is packed and registered first; it is  *)
(* not sent when the gate is not in the view, the node is not running, or  *)
(* packing or publishing fails.                                            *)
Handle(n, m) ==
  /\ Arrives(n, m)
  /\ Knows(n, m.msg) /\ HasHandler(n, m)
  /\ registry' = OnMarshal(n, Resp(m.msg[2]))
  /\ \/ /\ view[m.source] # Absent
        /\ net' = (net \ {m}) \cup {Answer(m)}
        /\ UNCHANGED dropped
     \/ /\ net' = net \ {m}
        /\ dropped' = dropped \cup {RequestOf(m)}
  /\ UNCHANGED <<inbox, unread, stray>>

(* The default handler of a gate: the agent of the sid is in its table.    *)
Deliver(n, m) ==
  /\ Arrives(n, m)
  /\ Knows(n, m.msg) /\ ~HasHandler(n, m) /\ HasAgent(n, m)
  /\ net' = net \ {m}
  /\ inbox' = [inbox EXCEPT ![m.sid] = Append(@, [mid |-> m.mid, msg |-> m.msg])]
  /\ stray' = stray \cup (IF IsRequest(m) THEN {m} ELSE {})
  /\ UNCHANGED <<registry, dropped, unread>>

(* The default handler finds no agent, or the node is not a gate.          *)
NoAgent(n, m) ==
  /\ Arrives(n, m)
  /\ Knows(n, m.msg) /\ ~HasHandler(n, m) /\ ~HasAgent(n, m)
  /\ net' = net \ {m}
  /\ stray' = stray \cup (IF IsRequest(m) THEN {m} ELSE {})
  /\ UNCHANGED <<registry, inbox, dropped, unread>>

-------------------------------------------------------------------------------
(* Outside: NATS loses messages, connections break, processes end and      *)
(* start again, views change.                                              *)

Lose(m) ==
  /\ m \in net
  /\ net' = net \ {m}
  /\ dropped' = dropped \cup {RequestOf(m)}
  /\ UNCHANGED <<nodeVars, registry, view, conn, sent, picked, inbox, unread, stray>>

HangUp(s) ==
  /\ conn[s] = "open"
  /\ conn' = [conn EXCEPT ![s] = "closed"]
  /\ UNCHANGED <<nodeVars, registry, view, sent, picked, net, inbox, history>>

Crash(p) ==
  /\ p \in up /\ crashes < MaxCrashes
  /\ up' = up \ {p} /\ crashes' = crashes + 1
  /\ conn' = [s \in Sessions |->
               IF Home[GateOf[s]] = p /\ conn[s] = "open" THEN "closed" ELSE conn[s]]
  /\ picked' = [s \in Sessions |-> IF Home[GateOf[s]] = p THEN Absent ELSE picked[s]]
  /\ UNCHANGED <<typeOf, registry, view, sent, net, inbox, history>>

(* A process starts, perhaps with another profile: nothing but what its    *)
(* nodes listen to is registered.                                          *)
Restart(p) ==
  /\ p \notin up
  /\ up' = up \cup {p}
  /\ typeOf' \in {f \in Profiles : \A n \in Nodes : Home[n] # p => f[n] = typeOf[n]}
  /\ registry' = [registry EXCEPT ![p] = Listened(p, typeOf')]
  /\ UNCHANGED <<crashes, view, conn, sent, picked, net, inbox, history>>

(* AddMember: LoadOrStore keeps the type of a member that is known.        *)
Appear(n) ==
  /\ Running(n) /\ view[n] = Absent
  /\ view' = [view EXCEPT ![n] = typeOf[n]]
  /\ UNCHANGED <<nodeVars, registry, conn, sent, picked, net, inbox, history>>

(* RemoveMember: a lease has expired, of this life of the node or the last. *)
Vanish(n) ==
  /\ view[n] # Absent
  /\ view' = [view EXCEPT ![n] = Absent]
  /\ UNCHANGED <<nodeVars, registry, conn, sent, picked, net, inbox, history>>

ClientStep(s) ==
  \/ \E k \in Kinds : AskUnread(s, k) \/ AskNoNode(s, k) \/ AskPick(s, k)
  \/ \E claim \in Sessions : SendBytes(s, claim)

Receive(n, m) == ReadFails(n, m) \/ Handle(n, m) \/ Deliver(n, m) \/ NoAgent(n, m)

Next ==
  \/ \E s \in Sessions : Connect(s) \/ ClientStep(s) \/ HangUp(s)
  \/ \E m \in net : Lose(m) \/ \E n \in Nodes : Receive(n, m)
  \/ \E p \in Processes : Crash(p) \/ Restart(p)
  \/ \E n \in Nodes : Appear(n) \/ Vanish(n)

(* A message has a subscriber only if its node runs under that type.       *)
NoSubscriber(m) == ~\E n \in Nodes : Running(n) /\ m.subject = <<typeOf[n], n>>

(* The reader finishes a forwarding it has begun; NATS carries a message   *)
(* to its subscriber, or drops it if there is none.                        *)
Fairness ==
  /\ \A s \in Sessions : WF_vars(\E claim \in Sessions : SendBytes(s, claim))
  /\ \A r \in [sid : Sessions, mid : 1..MaxMid, kind : Kinds] :
       WF_vars(\E m \in net : RequestOf(m) = r /\
                 ((NoSubscriber(m) /\ Lose(m)) \/ \E n \in Nodes : Receive(n, m)))

Spec == Init /\ [][Next]_vars /\ Fairness

-------------------------------------------------------------------------------
(* Properties.                                                             *)

Requests == [sid : Sessions, mid : 1..MaxMid, kind : Kinds]
Envelopes == [subject : Types \X Nodes, msg : Messages, sid : Sessions, mid : 1..MaxMid,
              source : Nodes, target : Nodes]

TypeOK ==
  /\ up \subseteq Processes /\ crashes \in 0..MaxCrashes
  /\ typeOf \in Profiles
  /\ registry \in [Processes -> SUBSET Messages]
  /\ view \in [Nodes -> Types \cup {Absent}]
  /\ conn \in [Sessions -> {"new", "open", "closed"}]
  /\ sent \subseteq Requests
  /\ picked \in [Sessions -> [req : Requests, to : Nodes] \cup {Absent}]
  /\ net \subseteq Envelopes
  /\ inbox \in [Sessions -> Seq([mid : 1..MaxMid, msg : Messages])]
  /\ {dropped, unread} \subseteq SUBSET Requests
  /\ stray \subseteq Envelopes

(* agent.go:210-243, facade/cluster.go:59-80, agentManager.go:128-137: what *)
(* a client is sent are answers to requests of its own, each at most once, *)
(* whatever sid it put into its messages and whoever answered.             *)
RightClient ==
  \A s \in Sessions : \A i \in DOMAIN inbox[s] :
    /\ \E r \in sent : /\ r.sid = s /\ r.mid = inbox[s][i].mid
                       /\ Resp(r.kind) = inbox[s][i].msg
    /\ \A j \in DOMAIN inbox[s] : inbox[s][j] = inbox[s][i] => j = i

(* cluster.go:143-154, nats_subject.go: views may be old and nodes restart *)
(* in another role, and still a request reaches a node without a handler   *)
(* for it only if the member changed its role between Random and GetType.  *)
NoStrayRequest ==
  \A m \in stray : m.subject[1] # Route[m.msg[2]]

Answered(r) == \E i \in DOMAIN inbox[r.sid] : inbox[r.sid][i].mid = r.mid

(* What has become of each request, as the messages and the inboxes say.   *)
With(r) == picked[r.sid] # Absent /\ picked[r.sid].req = r
OnItsWay(r) == \E m \in net : RequestOf(m) = r /\ IsRequest(m)
AnswerOnItsWay(r) == \E m \in net : RequestOf(m) = r /\ ~IsRequest(m)

Fate(r) ==
  IF r \notin sent THEN "new"
  ELSE IF With(r) \/ OnItsWay(r) THEN "open"
  ELSE IF AnswerOnItsWay(r) THEN "handled"
  ELSE IF Answered(r) THEN "answered"
  ELSE "lost"

Whole == INSTANCE Exchange WITH
           Clients <- Sessions, Numbers <- 1..MaxMid,
           table <- [r \in Requests |-> Fate(r)], received <- inbox

(* agent.go:210-243, cluster.go:119-158, facade/cluster.go:59-80: no        *)
(* request is handled twice, whoever loses, restarts or answers, and every *)
(* answer a client gets comes from a handler that had its request.         *)
ImplementsExchange == Whole!ExSpec

(* A request is answered, unless its client has gone, the message was lost *)
(* or refused with an error on the way, the member changed its role, or    *)
(* the gate could not read the answer, because nothing in its process has  *)
(* registered the type of it (hash.go:84).                                 *)
RequestEnds ==
  \A r \in Requests :
    (r \in sent) ~> \/ Answered(r) \/ conn[r.sid] = "closed"
                    \/ r \in dropped \cup unread \cup {RequestOf(m) : m \in stray}
===============================================================================
