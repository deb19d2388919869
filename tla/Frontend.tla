------------------------------- MODULE Frontend -------------------------------
(***************************************************************************)
(* A gate node from the registration of its components to their stop:      *)
(* framework/application.go with the components it registers, the          *)
(* connectors that accept its clients (pkg/connector), the parser that     *)
(* starts them (pkg/xagent/net_parser.go) and the cluster's connection and *)
(* subscription (pkg/cluster/nats_*.go).                                   *)
(*                                                                         *)
(* Startup runs the life-cycle methods in order; Parser.OnAfterInit and    *)
(* Cluster.Init leave goroutines behind that Startup does not wait for, so *)
(* that stopping a connector or the cluster can overtake its start.        *)
(* Application.tla has the requests that a node handles meanwhile, and     *)
(* Agent.tla what becomes of a client once it has its agent.               *)
(*                                                                         *)
(* Outside the code: NATS, which comes and goes; the clients; the          *)
(* operating system, whose queue of connections a listener resets when it  *)
(* is closed.                                                              *)
(***************************************************************************)
EXTENDS Integers, Sequences, FiniteSets, SequencesExt

CONSTANTS
  Connectors,  \* what AddConnector was given, in order
  NameOf,      \* the name of each; those of one type share it
  TCP,         \* the TCPConnectors among them; the others are WSConnectors
  Batches,     \* the arguments of the program's own calls of Register
  Removable,   \* names that the program may Remove
  Panicky,     \* names of components whose OnBeforeStop or OnStop panics
  Conns, Via,  \* the connections of clients, numbered as they dial, and the
               \* connector each dials
  ChanSize,    \* chanSize, the capacity of connChan
  Nil          \* a component that is nil or has no name

Nodes == <<"worker", "cluster", "discovery", "net_parser", "agents">>

All == ToSet(Connectors)

ASSUME ConstantsOK ==
  /\ Connectors \in Seq(All) /\ TCP \subseteq All
  /\ Conns \subseteq Nat /\ \A k \in Conns : Via[k] \in All
  /\ ChanSize \in Nat /\ ChanSize > 1  \* WithChanSize takes nothing less
  /\ ~Contains(Nodes, Nil) /\ \A x \in All : NameOf[x] \notin ToSet(Nodes) \cup {Nil}
  /\ \A b \in Batches : b \in Seq(ToSet(b)) /\ \A x \in All : ~Contains(b, NameOf[x])

VARIABLES
  components,  \* a.components, by name
  unregistered,\* the batches that are not registered yet
  phase,       \* where Startup is
  at,          \* the component whose method it calls next
  calls,       \* history: the methods it has called, with their component
  natsUp,      \* NATS can be reached
  connected,   \* natsConn.running
  recvPc,      \* where Cluster.receive is
  chClosed,    \* natsSub.ch is closed
  startPc,     \* where the goroutine of each connector's Start is
  running,     \* p.running of each connector
  listener,    \* p.listener of each connector
  overtaken,   \* history: connectors whose Stop found no listener
  connPc,      \* where each connection is
  connChan,    \* p.connChan
  served,      \* history: the connections given an agent, in that order
  crash        \* what has ended the process

nodeVars == <<components, unregistered, phase, at, calls>>
natsVars == <<natsUp, connected, recvPc, chClosed>>
listVars == <<startPc, running, listener, overtaken>>
connVars == <<connPc, connChan, served>>
vars == <<nodeVars, natsVars, listVars, connVars, crash>>

NewNatsConn    == connected = FALSE
NewNatsSubject == recvPc = "none" /\ chClosed = FALSE
NewConnector   ==
  /\ running = [x \in All |-> TRUE] /\ listener = [x \in All |-> "none"]
  /\ connChan = [x \in All |-> <<>>]

Init ==
  /\ components = Nodes /\ unregistered = Batches
  /\ phase = "new" /\ at = 1 /\ calls = <<>>
  /\ natsUp \in BOOLEAN /\ NewNatsConn /\ NewNatsSubject
  /\ NewConnector /\ startPc = [x \in All |-> "none"] /\ overtaken = {}
  /\ connPc = [k \in Conns |-> "none"] /\ served = [x \in All |-> <<>>]
  /\ crash = "none"

-------------------------------------------------------------------------------
(* Registration.  Register stops at the first component that has no name   *)
(* or a name that is taken, and drops the rest.                            *)

\* Faulty variant: a name that is taken is not looked for.
Registered_Twice(cs, batch) == cs \o SelectSeq(batch, LAMBDA c : c # Nil)

Find(cs, name) == name # Nil /\ Contains(cs, name)

IsNew(cs, batch, i) ==
  /\ batch[i] # Nil /\ ~Find(cs, batch[i])
  /\ \A j \in 1..(i - 1) : batch[j] # batch[i]

Accepted(cs, batch) == {i \in 1..Len(batch) : \A j \in 1..i : IsNew(cs, batch, j)}

Registered(cs, batch) == cs \o SubSeq(batch, 1, Cardinality(Accepted(cs, batch)))

Register(batch) ==
  /\ phase = "new" /\ batch \in unregistered
  /\ components' = Registered(components, batch)
  /\ unregistered' = unregistered \ {batch}
  /\ UNCHANGED <<phase, at, calls, natsVars, listVars, connVars, crash>>

(* Nothing in the repository calls Remove; it is for setting a node up.    *)
RemoveByName(name) ==
  /\ phase = "new"
  /\ \E i \in 1..Len(components) : components[i] = name /\ components' = RemoveAt(components, i)
  /\ UNCHANGED <<unregistered, phase, at, calls, natsVars, listVars, connVars, crash>>

(* Startup registers the connectors, one by one.  A second one of a type   *)
(* is refused, but stays among those that the parser starts.               *)
Startup ==
  /\ phase = "new" /\ phase' = "Register" /\ at' = 1
  /\ UNCHANGED <<components, unregistered, calls, natsVars, listVars, connVars, crash>>

RegisterConnector ==
  /\ phase = "Register" /\ at \in 1..Len(Connectors)
  /\ components' = Registered(components, <<NameOf[Connectors[at]]>>)
  /\ at' = at + 1
  /\ UNCHANGED <<unregistered, phase, calls, natsVars, listVars, connVars, crash>>

(* The connector that is the component of this name: the first that has it.*)
ConnectorOf(name) ==
  {Connectors[i] : i \in {j \in 1..Len(Connectors) :
     /\ NameOf[Connectors[j]] = name
     /\ \A l \in 1..(j - 1) : NameOf[Connectors[l]] # name}}

-------------------------------------------------------------------------------
(* Startup's loops over the components.                                    *)

(* One call of a life-cycle method; the loop goes on, upwards when the     *)
(* node starts and downwards when it stops.                                *)
Call(method) ==
  /\ phase = method /\ at \in 1..Len(components)
  /\ calls' = Append(calls, <<method, components[at]>>)
  /\ at' = IF method \in {"Init", "OnAfterInit"} THEN at + 1 ELSE at - 1
  /\ UNCHANGED <<components, unregistered, phase>>

\* Faulty variant: the last loop stops before the first component.
LoopEnds_Short ==
  /\ \/ phase = "Register" /\ at > Len(Connectors) /\ phase' = "Init" /\ at' = 1
     \/ phase = "Init" /\ at > Len(components) /\ phase' = "OnAfterInit" /\ at' = 1
     \/ phase = "OnAfterInit" /\ at > Len(components) /\ phase' = "up" /\ at' = 0
     \/ phase = "OnBeforeStop" /\ at = 0 /\ phase' = "OnStop" /\ at' = Len(components)
     \/ phase = "OnStop" /\ at = 1 /\ phase' = "ended" /\ at' = 0
  /\ UNCHANGED <<components, unregistered, calls, natsVars, listVars, connVars, crash>>

LoopEnds ==
  /\ \/ phase = "Register" /\ at > Len(Connectors) /\ phase' = "Init" /\ at' = 1
     \/ phase = "Init" /\ at > Len(components) /\ phase' = "OnAfterInit" /\ at' = 1
     \/ phase = "OnAfterInit" /\ at > Len(components) /\ phase' = "up" /\ at' = 0
     \/ phase = "OnBeforeStop" /\ at = 0 /\ phase' = "OnStop" /\ at' = Len(components)
     \/ phase = "OnStop" /\ at = 0 /\ phase' = "ended" /\ at' = 0
  /\ UNCHANGED <<components, unregistered, calls, natsVars, listVars, connVars, crash>>

(* Connect tries every three seconds until NATS can be reached.            *)
InitCluster ==
  /\ Call("Init")
  /\ components[at] = "cluster" /\ natsUp
  /\ connected' = TRUE /\ recvPc' = "subscribing"
  /\ UNCHANGED <<natsUp, chClosed, listVars, connVars, crash>>

\* Faulty variant: Parser.Init starts the connectors.
InitOther_Starts ==
  /\ Call("Init")
  /\ components[at] # "cluster"
  /\ startPc' = IF components[at] = "net_parser" THEN [x \in All |-> "spawned"] ELSE startPc
  /\ UNCHANGED <<natsVars, running, listener, overtaken, connVars, crash>>

(* Parser.Init looks for the agents and panics without them.               *)
NoAgents == components[at] = "net_parser" /\ ~Find(components, "agents")

(* The discovery connects to etcd, registers and watches, and ends the     *)
(* process where that fails (log.Fatal).                                   *)
EtcdFails == components[at] = "discovery" /\ crash' = "etcd"

(* None of these calls is inside a Try.                                    *)
InitOther ==
  /\ Call("Init")
  /\ components[at] # "cluster"
  /\ \/ NoAgents /\ crash' = "noAgents"
     \/ EtcdFails
     \/ ~NoAgents /\ UNCHANGED crash
  /\ UNCHANGED <<natsVars, listVars, connVars>>

OnAfterInit ==
  /\ Call("OnAfterInit")
  /\ startPc' = IF components[at] = "net_parser" THEN [x \in All |-> "spawned"] ELSE startPc
  /\ UNCHANGED <<natsVars, running, listener, overtaken, connVars, crash>>

(* Shutdown or a signal ends Startup's select.                             *)
Stop ==
  /\ phase = "up" /\ phase' = "OnBeforeStop" /\ at' = Len(components)
  /\ UNCHANGED <<components, unregistered, calls, natsVars, listVars, connVars, crash>>

\* Faulty variant: the panic is not recovered.
Try_Raise(panics) == crash' = IF panics THEN "panic" ELSE crash

(* util.Try: whether the function panics or not, the loop goes on.         *)
Try(panics) == panics \in BOOLEAN /\ UNCHANGED crash

OnBeforeStop ==
  /\ Call("OnBeforeStop")
  /\ Try(components[at] \in Panicky)
  /\ UNCHANGED <<natsVars, listVars, connVars>>

StopOther ==
  /\ Call("OnStop")
  /\ components[at] # "cluster" /\ ConnectorOf(components[at]) = {}
  /\ Try(components[at] \in Panicky)
  /\ UNCHANGED <<natsVars, listVars, connVars>>

(* Cluster.Stop unsubscribes and closes the channel (the receive loop ends *)
(* with it), and then closes the connection.  If receive has not           *)
(* subscribed yet, there is nothing to unsubscribe.                        *)
StopSubject ==
  /\ phase = "OnStop" /\ at \in 1..Len(components) /\ components[at] = "cluster"
  /\ ~chClosed /\ chClosed' = TRUE
  /\ recvPc' = IF recvPc = "receiving" THEN "ended" ELSE recvPc
  /\ UNCHANGED <<nodeVars, natsUp, connected, listVars, connVars, crash>>

CloseNats ==
  /\ Call("OnStop")
  /\ components[at] = "cluster" /\ chClosed
  /\ connected' = FALSE
  /\ UNCHANGED <<natsUp, recvPc, chClosed, listVars, connVars, crash>>

(* Connector.Stop.  Before Start has made the listener this panics; the    *)
(* clients that have not been accepted are disconnected.                   *)
StopConnector(x) ==
  /\ Call("OnStop")
  /\ x \in ConnectorOf(components[at])
  /\ running' = [running EXCEPT ![x] = FALSE]
  /\ IF listener[x] = "open"
     THEN /\ listener' = [listener EXCEPT ![x] = "closed"]
          /\ connPc' = [k \in Conns |-> IF Via[k] = x /\ connPc[k] = "dialled"
                                        THEN "reset" ELSE connPc[k]]
          /\ UNCHANGED overtaken
     ELSE overtaken' = overtaken \cup {x} /\ UNCHANGED <<listener, connPc>>
  /\ Try(listener[x] # "open")
  /\ UNCHANGED <<natsVars, startPc, connChan, served>>

-------------------------------------------------------------------------------
(* Cluster.receive, and NATS.                                              *)

(* ChanSubscribe fails on a closed connection.  On an open one it          *)
(* succeeds, even if the channel has been closed meanwhile.                *)
Subscribe ==
  /\ recvPc = "subscribing"
  /\ recvPc' = IF ~connected THEN "ended" ELSE IF chClosed THEN "doomed" ELSE "receiving"
  /\ UNCHANGED <<nodeVars, natsUp, connected, chClosed, listVars, connVars, crash>>

(* A message for this node is sent to the closed channel.                  *)
DeliverToClosed ==
  /\ recvPc = "doomed" /\ connected
  /\ crash' = "closedChannel"
  /\ UNCHANGED <<nodeVars, natsVars, listVars, connVars>>

(* Only Connect looks whether NATS can be reached.                         *)
NatsChanges ==
  /\ ~connected /\ recvPc = "none"
  /\ natsUp' = ~natsUp
  /\ UNCHANGED <<nodeVars, connected, recvPc, chClosed, listVars, connVars, crash>>

-------------------------------------------------------------------------------
(* The goroutine of a connector's Start, and the one that calls            *)
(* onConnectFunc.                                                          *)

Listen(x) ==
  /\ startPc[x] = "spawned"
  /\ startPc' = [startPc EXCEPT ![x] = "serving"]
  /\ listener' = [listener EXCEPT ![x] = "open"]
  /\ UNCHANGED <<nodeVars, natsVars, running, overtaken, connVars, crash>>

(* The port is taken: log.Fatalf ends the process.                         *)
ListenFails(x) ==
  /\ startPc[x] = "spawned"
  /\ crash' = "listen"
  /\ UNCHANGED <<nodeVars, natsVars, listVars, connVars>>

Before(k) == {j \in Conns : j < k /\ Via[j] = Via[k]}

Dial(k) ==
  /\ connPc[k] = "none" /\ listener[Via[k]] = "open"
  /\ \A j \in Before(k) : connPc[j] # "none"
  /\ connPc' = [connPc EXCEPT ![k] = "dialled"]
  /\ UNCHANGED <<nodeVars, natsVars, listVars, connChan, served, crash>>

(* The connections that a connector has accepted and not handed to InChan: *)
(* http.Serve handles many at once, the loop of a TCPConnector one.        *)
InHand(x) == {k \in Conns : Via[k] = x /\ connPc[k] = "accepted"}

Accept(k) ==
  /\ LET x == Via[k] IN
       /\ startPc[x] = "serving" /\ listener[x] = "open"
       /\ x \in TCP => running[x] /\ InHand(x) = {}
  /\ connPc[k] = "dialled" /\ \A j \in Before(k) : connPc[j] # "dialled"
  /\ connPc' = [connPc EXCEPT ![k] = "accepted"]
  /\ UNCHANGED <<nodeVars, natsVars, listVars, connChan, served, crash>>

(* ServeHTTP: the request is not one for a WebSocket.                      *)
UpgradeFails(k) ==
  /\ connPc[k] = "accepted" /\ Via[k] \notin TCP
  /\ connPc' = [connPc EXCEPT ![k] = "reset"]
  /\ UNCHANGED <<nodeVars, natsVars, listVars, connChan, served, crash>>

\* Faulty variant: a connection for which there is no room is dropped.
InChan_Drop(k) ==
  /\ connPc[k] = "accepted"
  /\ connPc' = [connPc EXCEPT ![k] = "queued"]
  /\ connChan' = [connChan EXCEPT ![Via[k]] = IF Len(@) < ChanSize THEN Append(@, k) ELSE @]
  /\ UNCHANGED <<nodeVars, natsVars, listVars, served, crash>>

InChan(k) ==
  /\ connPc[k] = "accepted" /\ Len(connChan[Via[k]]) < ChanSize
  /\ connPc' = [connPc EXCEPT ![k] = "queued"]
  /\ connChan' = [connChan EXCEPT ![Via[k]] = Append(@, k)]
  /\ UNCHANGED <<nodeVars, natsVars, listVars, served, crash>>

(* defaultOnConnectFunc makes an agent, binds it and starts it.            *)
OnConnect(x) ==
  /\ connChan[x] # <<>>
  /\ connChan' = [connChan EXCEPT ![x] = Tail(@)]
  /\ connPc' = [connPc EXCEPT ![Head(connChan[x])] = "served"]
  /\ served' = [served EXCEPT ![x] = Append(@, Head(connChan[x]))]
  /\ UNCHANGED <<nodeVars, natsVars, listVars, crash>>

(* Accept fails on the closed listener; the TCP loop then looks at         *)
(* Running, which may have ended it before its first Accept.               *)
StartReturns(x) ==
  /\ startPc[x] = "serving" /\ (x \in TCP => InHand(x) = {})
  /\ listener[x] = "closed" \/ (x \in TCP /\ ~running[x])
  /\ startPc' = [startPc EXCEPT ![x] = "ended"]
  /\ UNCHANGED <<nodeVars, natsVars, running, listener, overtaken, connVars, crash>>

-------------------------------------------------------------------------------
StartupStep ==
  \/ (\E batch \in Batches : Register(batch)) \/ (\E name \in Removable : RemoveByName(name))
  \/ Startup \/ RegisterConnector \/ LoopEnds \/ InitCluster \/ InitOther \/ OnAfterInit
  \/ Stop \/ OnBeforeStop \/ StopOther \/ StopSubject \/ CloseNats
  \/ \E x \in All : StopConnector(x)

NatsStep == Subscribe \/ DeliverToClosed \/ NatsChanges

ConnectorStep(x) == Listen(x) \/ ListenFails(x) \/ OnConnect(x) \/ StartReturns(x)

ConnStep(k) == Dial(k) \/ Accept(k) \/ UpgradeFails(k) \/ InChan(k)

Next ==
  /\ crash = "none"
  /\ \/ StartupStep \/ NatsStep
     \/ \E x \in All : ConnectorStep(x)
     \/ \E k \in Conns : ConnStep(k)

(* The goroutines of a process that runs.  When Startup has returned, main *)
(* returns as well, and may end them wherever they are; where it waits for *)
(* other nodes (cmd/all-in-one) they may go on.                            *)
Alive == crash = "none" /\ phase # "ended"

(* Goroutines keep running as long as their process does; Connect succeeds *)
(* if NATS can be reached again and again.  Nobody has to start or stop the*)
(* node, or to connect to it.                                              *)
Fairness ==
  /\ SF_vars(Alive /\ InitCluster)
  /\ WF_vars(Alive /\
       (RegisterConnector \/ LoopEnds \/ InitOther \/ OnAfterInit \/ OnBeforeStop \/ StopOther \/ StopSubject
        \/ CloseNats \/ \E x \in All : StopConnector(x)))
  /\ \A x \in All :
       /\ WF_vars(Alive /\ (Listen(x) \/ ListenFails(x)))
       /\ WF_vars(Alive /\ OnConnect(x))
       /\ WF_vars(Alive /\
            (StartReturns(x) \/ \E k \in Conns : x \in TCP /\ Via[k] = x /\ (Accept(k) \/ InChan(k))))
  /\ \A k \in Conns : WF_vars(Alive /\ Via[k] \notin TCP /\
                                (Accept(k) \/ UpgradeFails(k) \/ InChan(k)))

Spec == Init /\ [][Next]_vars /\ Fairness

-------------------------------------------------------------------------------
(* Properties.                                                             *)

(* Types; every component has a name, and one of its own; a listener is    *)
(* made by Start and closed by Stop.                                       *)
TypeOK ==
  /\ Nil \notin ToSet(components) /\ IsInjective(components) /\ unregistered \subseteq Batches
  /\ phase \in {"new", "Register", "Init", "OnAfterInit", "up", "OnBeforeStop", "OnStop", "ended"}
  /\ at \in 0..(1 + IF phase = "Register" THEN Len(Connectors) ELSE Len(components))
  /\ natsUp \in BOOLEAN /\ connected \in BOOLEAN /\ chClosed \in BOOLEAN
  /\ recvPc \in {"none", "subscribing", "receiving", "doomed", "ended"}
  /\ startPc \in [All -> {"none", "spawned", "serving", "ended"}]
  /\ running \in [All -> BOOLEAN] /\ listener \in [All -> {"none", "open", "closed"}]
  /\ \A x \in All : listener[x] = "none" <=> startPc[x] \in {"none", "spawned"}
  /\ overtaken \subseteq All
  /\ connPc \in [Conns -> {"none", "dialled", "accepted", "queued", "served", "reset"}]
  /\ connChan \in [All -> Seq(Conns)] /\ \A x \in All : Len(connChan[x]) <= ChanSize
  /\ served \in [All -> Seq(Conns)]
  /\ crash \in {"none", "noAgents", "etcd", "listen", "closedChannel"}

(* net_parser.go:48-86, connector.go:35-48: a client gets an agent only    *)
(* after every component's Init, never two, and none is lost between       *)
(* Accept and the agent; those of a TCPConnector get them in the order in  *)
(* which they were accepted, also while the node stops.                    *)
ServedInOrder ==
  /\ (\E x \in All : served[x] # <<>>) =>
       \A c \in ToSet(components) : Contains(calls, <<"Init", c>>)
  /\ \A x \in All :
       /\ IsInjective(served[x] \o connChan[x])
       /\ ToSet(connChan[x]) = {k \in Conns : Via[k] = x /\ connPc[k] = "queued"}
       /\ ToSet(served[x]) = {k \in Conns : Via[k] = x /\ connPc[k] = "served"}
  /\ \A x \in TCP : \A i \in 1..Len(served[x]) : \A j \in Before(served[x][i]) :
       connPc[j] = "served"

(* The calls of a full life: two passes over the components, two back.     *)
FullLife ==
  LET n == Len(components) IN
  /\ Len(calls) = 4 * n
  /\ \A i \in 1..n :
       /\ calls[i] = <<"Init", components[i]>>
       /\ calls[n + i] = <<"OnAfterInit", components[i]>>
       /\ calls[3 * n + 1 - i] = <<"OnBeforeStop", components[i]>>
       /\ calls[4 * n + 1 - i] = <<"OnStop", components[i]>>

(* application.go:184-245: Startup ends only after every component has got *)
(* each call once, and those of stopping in reverse order, whichever of    *)
(* them panic; then NATS is closed and no connector that is a component    *)
(* listens, except one whose Stop was earlier than its Start.              *)
StopIsTotal ==
  phase = "ended" =>
    /\ FullLife
    /\ ~connected /\ recvPc # "receiving"
    /\ \A c \in ToSet(components) : \A x \in ConnectorOf(c) :
         listener[x] = "closed" \/ x \in overtaken

(* nats_conn.go:30-48, tcp_connector.go:51-73, application.go:228-245: a   *)
(* node that has been started comes up, if NATS can be reached again and   *)
(* again and nothing ends its process; an accepted client gets its agent,  *)
(* even if the node is told to stop at that moment, unless Startup returns *)
(* before; and a node that is told to stop does, whichever components      *)
(* panic: only a port that is taken, or a message for the closed channel,  *)
(* may end its process before.                                             *)
NodeServes ==
  /\ []<>natsUp => (phase = "Init" ~> phase \notin {"Init", "OnAfterInit"} \/ crash # "none")
  /\ \A k \in Conns : connPc[k] = "accepted" ~>
       connPc[k] \in {"served", "reset"} \/ ~Alive
  /\ phase = "OnBeforeStop" ~> phase = "ended" \/ crash \in {"listen", "closedChannel"}
===============================================================================
