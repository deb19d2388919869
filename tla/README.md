# Verification of xgame

xgame (`src/`) is a small framework for distributed game servers in Go. Gates
hold the TCP and WebSocket connections of clients and forward their messages;
the other nodes handle them. Nodes find each other through etcd and talk through
NATS. This directory holds TLA+ models of the framework, the TLC configurations
that check them, and TLAPS proofs about each of the models. Paths below are relative to `src/framework/` unless they say otherwise.

- `tlc -config MCWorker.cfg MCWorker` checks a run; `PROJECT.json` lists them all.
- `tlapm WorkerProofs.tla` checks the proofs of a module.

## 1. The system and what is hard about it

| part | state | operations | goroutines |
|---|---|---|---|
| worker (`pkg/worker`) | channel `fs`, flag `closed`, counter `len`, wait group | `Post`, `AfterPost`, `Start`, `Stop`, `Len` | one per call of `Start`, replaced after a panic |
| requester (`pkg/cluster/requester.go`) | table `handlers` (mid to callback), counter `mid`, mutex | `requestAsync`, `requestWait`, `registerCallback`, `getCallback`, `unregisterCallback` | callers, and the worker's goroutines that run callbacks |
| cluster (`pkg/cluster`) | NATS connection, subscription, handlers by message id | `Init`, `receive`, `ListenMsg`, `RegisterResponse`, `SendBytes`, `PublishMsg`, `Stop` | `receive` |
| session table (`pkg/xagent/agentManager.go`) | `sidAgentMap`, `uidMap` | `BindSID`, `BindUID`, `Unbind`, lookups, default handler | any |
| client connection (`pkg/xagent/agent.go`) | `state`, `chDie`, `chPending`, `chWrite`, `lastAt` | `Start`, `Close`, `Response`, `processPacket` | `readChan`, `writeChan` |
| packets (`pkg/packet/packet.go`) | none | `PackMessage`, `ReadMessage` | - |
| registry and routes (`pkg/packet/hash.go`, `pkg/xagent/route.go`) | message ids and types of the process; node type per route | `RegisterMessage`, `OnMarshal`, `OnUnmarshal`, `addRoute` | - |
| discovery (`pkg/discovery`) | lease, `memberMap` | `Load`, `register`, `watch`, `AddMember`, `RemoveMember`, `Random`, `GetType` | keep-alive, watch |
| application (`application.go`) | `running`, `dieChan`, components | `Register`, `Remove`, `Startup`, `Shutdown` | main, callers of `Shutdown` |
| connectors (`pkg/connector`) and the parser that starts them (`pkg/xagent/net_parser.go`) | `listener`, `running`, `connChan` | `AddConnector`, `Start`, `Stop`, `InChan`, `OnConnect` | accept loop and `onConnectFunc` loop of each; one per WebSocket request |
| connection to NATS (`pkg/cluster/nats_*.go`) | `running`, `ch` of the subscription | `Connect`, `Close`, `stop` | `receive` |

How they interact. A client's bytes are framed by the packets; the reader of its
agent looks up the route, picks a member from the discovery and publishes to
that node. `receive` there posts a closure to the worker; a worker goroutine
runs the handler, which answers with `Sender.Resp`, again over NATS. The gate has
no handler for the answer, so its default handler finds the agent by sid and
hands it the answer; the agent's writer moves it through two channels to the
socket. Nodes make requests of their own through the requester, whose callbacks
run on the worker. Everything that runs on the worker shares its goroutines:
callbacks, handlers, timers, and the senders of all connections.

What is hard, with the property that watches it (the list with line numbers is
`hazards` in `PROJECT.json`):

- *Shared flags and channels without a lock.* `Post` looks at `closed`, counts,
  then sends; `Stop` may close the channel between any two of these. `Close` of an
  agent is reached from both its goroutines. (`StopDrains`, `ImplementsTaskQueue`,
  `CountersExact`, `NoPanic`)
- *Panics and restarts.* A worker goroutine is replaced after a panic while `Stop`
  waits for a wait group; a component that panics must not keep the others from
  being stopped. (`CountersExact`, `StopDrains`, `WorkEnds`, `StopIsTotal`)
- *Late, lost and repeated answers* meeting a caller that gave up, a callback that
  is running, or an entry that is gone. (`Correlation`, `WaitOnce`, `TableExact`,
  `CallsProceed`)
- *A goroutine waiting for itself*: `RequestWait` or `Shutdown` called by a
  handler, a writer sending to the channel only it empties, a task posting to its
  own full queue. (`CallsProceed`, `NodeEnds`, `NothingHangs`, `WorkEnds`)
- *Stale tables*: a second login, a lease that lapses, a restart before the old
  lease has gone, a member that changes between two lookups. (`TableConsistent`,
  `SoleSessionReachable`, `ViewIsPast`, `RestartKeepsKey`, `ViewConverges`,
  `NoStrayRequest`, `RequestEnds`)
- *Clients that break off, stall, or fall silent.* (`NothingHangs`, `NothingLeft`,
  `FewWaiting`, `OrderKept`, `RightClient`, `ImplementsExchange`)
- *Starting and stopping*: goroutines that `Startup` does not wait for, so that a
  stop overtakes the start it belongs to; clients that connect meanwhile; requests
  that come in while the node stops. (`ServedInOrder`, `StopIsTotal`, `NodeServes`,
  `AcceptedAreAnswered`, `ExitIsClean`)
- *Bytes in pieces, a stream cut short, lengths that do not fit.* (`FramesKept`,
  `AllRead`)

## 2. Modules

| module | models | about |
|---|---|---|
| `TaskQueue` | `facade/worker.go` | abstract: what an `IWorker` promises; `Worker` implements it |
| `Exchange` | - | abstract: what the nodes together promise the clients of a gate; `Forward` implements it |
| `Worker` | `pkg/worker/worker.go` | one action per atomic operation |
| `Agents` | `pkg/xagent/agentManager.go` | the two maps; each operation is one action, it holds the lock |
| `Requester` | `pkg/cluster/requester.go`, the response handler, `receive` | calls, table with its mutex, runners, network |
| `Agent` | `pkg/xagent/agent.go` | reader, writer and senders of one connection |
| `Discovery` | `pkg/discovery/*` | etcd with leases, and what each node knows |
| `Application` | `application.go` with the parts of cluster, worker and discovery that stopping touches | start, stop, `Shutdown`, signals |
| `Forward` | gate, registry, routes, `Random`, `SendBytes`, `receive`, `Resp` | the way of a client's request and of its answer; composes the rest |
| `Packet` | `pkg/packet/packet.go`, `WSConn` of `pkg/connector/ws_connector.go` | framing on a stream, and a stream made of WebSocket messages |
| `Frontend` | `application.go`, `pkg/connector/*`, `pkg/xagent/net_parser.go`, `pkg/cluster/nats_*.go` | a gate from registration to its end: components, connectors, clients, NATS |
| `WorkerProofs`, `AgentProofs` (also about `Agents`), `RequesterProofs`, `DiscoveryProofs`, `ApplicationProofs`, `ForwardProofs`, `PacketProofs`, `FrontendProofs` | | theorems |
| `MC...` | | values of the constants for TLC |

Operators named `Action_Something` with the comment "Faulty variant" are what a
plausible bug would make of the action below them. No specification uses them;
each shows that some property notices that bug.

**Worker.** `closed` and `chClosed` are two variables because `Stop` sets the flag
and then closes the channel. `postPc` is where a goroutine is inside `Post`
("admitted": past the check, "counted": past the increment), `runPc` where a runner
is in the loop of `Start`; a panic leads to "panicked", `Restart` is the deferred
function (`wg` rises for the new goroutine, and the old one owes its `Done` in
`exiting`), `WgDone` pays it. A send to the closed channel panics
(`PostOnClosed`): it ends the process, except inside a task, where the worker
recovers it. `crashed` and the tasks' ghost sets `posted`, `sent`, `ran` are history.

**Agents.** A session id is drawn once (nuid), so `drawn` only grows. `binders`
remembers which sessions bound a player. The properties except sessions that were
bound to two players: `BindUID` leaves the first entry behind, and then a lookup
by the first id finds the session under its second.

**Requester.** A call is one `requestAsync` or `requestWait`. `registerCallback`
and `unregisterCallback` are two steps each, lock and write, because the closure
of `getCallback` reads the table after the lock is released: the read may fall
into a write, and Go's map check ends the process (`ReadDuringWrite`). `wire` and
`queue` are NATS and the worker. The `Offering` of a runner to a `requestWait`
that has gone never ends: the channel has no buffer and no other receiver.

**Agent.** `pc` holds the two goroutines, `sendPc` the worker goroutines inside
`sendPending`, whose check of `state`, check of the length and send are three
steps. `Forward` here is only the effect of `processPacket` on `lastAt`; `age`
counts ticks of the heartbeat. The writer selects at random among what is ready.

**Discovery.** `store`, `log` and `leases` are etcd. `Get`, `Watch` and each event
are separate steps, and a change between `Get` and `Watch` is in neither
(`skipped`). `AddMember` keeps the type of a member it knows.

**Application.** Startup is the sequence Init, OnAfterInit, running, select, and
the stops in reverse order. Requests arrive on NATS at any time, pass `receive`
and the worker, and are answered if the node is running and connected. `cause`
says what ended the select and `closer` who closed the worker. `InitCluster` connects and
leaves `receive` behind, which subscribes in a step of its own (`Subscribe`). A handler that
ends has `answered` or not: `SendBytes` refuses, the target is unknown, packing or
publishing fails, or the handler panics, none of which anybody is told of. Until something
ends the node such a request is in `failed`. The worker is reduced to its channel, its two
goroutines and `Stop`; that it is a task queue is shown of `Worker`.

**Forward.** `registry` is `id2type` of each process, `view` the member map,
`picked` the reader between `Random` and `GetType`, `net` the messages in NATS by
subject (type and id). `stray`, `unread` and `dropped` record how a request can
end without an answer. `SendBytes` and the answer of a handler may be refused at any time: a
node that is not running, or NATS, decides that outside of this model. Compared with `Discovery` the views are one map that may
change at any time, which allows more than etcd does; compared with `Agent`,
`Requester` and `Application` each of their parts is one step. `Fate` reads off what
has become of a request from where it is (with the reader, on its way, answered), and
`Whole` is `Exchange` with these fates as its table.

**Packet.** A unit of the stream is a length field or a piece of a body. A length
is written modulo `Base`, a reader takes any number of units at once, the end of
the stream may fall anywhere, and what `Unmarshal` makes of wrong bytes is free.
With `ws` the reader has a `WSConn`: a read ends where the message does, and what
a read leaves of a message stays for the next one.

**Frontend.** `components`, `phase`, `at` are `Startup` in its loops over the
components, `calls` the history of what it has called. `Call` is one life-cycle
call, and the actions around it what that call does: `InitCluster` (`Connect` in a
loop until NATS can be reached, and the goroutine `receive`), `OnAfterInit` (the
parser starts one goroutine per connector), `StopSubject` and `CloseNats`
(`Cluster.Stop`), `StopConnector`. `startPc`, `running` and `listener` are the
goroutine of a connector's `Start`; a `Stop` that finds no listener panics, `Try`
recovers it, and the connector is in `overtaken`. `connPc`, `connChan` and `served`
follow a client from the listener's queue to its agent. `recvPc` is "doomed" when
`ChanSubscribe` succeeds after `Stop` has closed the channel. `Register` refuses a
nameless or duplicate component and drops the rest of its arguments, so a second
connector of a type is no component, is never stopped, but is started. The names
of connectors are assumed not to be taken by other components (`ConstantsOK`). When
`Startup` returns, `main` does, and the process ends with all its goroutines
(`src/cmd/gatesvr/main.go`): in "ended" nothing is fair any more (`Alive`). The discovery
ends the process if etcd fails during `Init` (`EtcdFails`).

## 3. Runs

All bounds are in the `.cfg` files. The "mutant" of each property, in
`PROJECT.json`, breaks it within the same bounds, so the bounds are large enough
for the case the property is about.

| run | instance | distinct states | shows |
|---|---|---|---|
| `worker` | 2 posters, 2 runners (two calls of `Start`), 2 calls of `Stop`, 3 tasks, two of which panic and two of which post, capacity 1 | 40 739 | the worker implements `TaskQueue`, the wait group and `Len` are exact, `Stop` returns and leaves no task, accepted tasks run |
| `requester` | a nested `RequestWait`, a callback that may panic, a call without callback, 2 runners, up to 2 answers each | 151 747 | answers go to their requests, once for `RequestWait`; the table holds a callback exactly while it is due; waits return and posted answers are handled |
| `agents_table` | 4 sessions, 3 players, both symmetric | 41 328 | lookups and `Unbind` agree on who is who; a player with one session is found |
| `agent` | 3 responses, 2 runners, channels of 1 | 264 384 | no double close, order kept, nothing left behind, dead connections go and their senders get away |
| `discovery` | 2 nodes, 2 starts each, 2 types, one watcher | 455 555 | a view has the members that were in etcd, each with a type it had since it was last away, and converges as to who is there; restarts keep their key |
| `application` | 3 requests, one of which calls `Shutdown`, 2 callers of `Shutdown`, 2 runners | 192 708 | what was accepted is handled before the end, and loses no answer to it; the node ends |
| `forward` | 3 nodes in 2 processes, two of the nodes gates or game servers, 2 clients, one crash | 212 264 | answers reach their clients only, requests their handlers, both at most once as `Exchange` promises; every request ends |
| `packet` | 3 messages of length 0, 2 or 4, base 3, over TCP or in WebSocket messages of any size | 1 639 779 | messages come out as they went in, while they fit |
| `frontend` | connectors tcp, ws and a second tcp, 4 clients (3 on one connector), `connChan` of 2, two components that panic, one that may be removed, a batch with a nameless component | 175 418 | clients are served after `Init`, in order, once and without loss; every component is stopped; started nodes come up and serve, and nodes told to stop do |
| `worker_not_serial` | | | violated: see 5 |
| `agents_relogin` | | | violated: see 5 |
| `application_stolen` | | | violated: see 5 |

Why such instances are enough to be of interest: two is the number of worker
goroutines an application has, and of parties in each race above (reader and
writer, old and new session, `Startup` and `Shutdown`); a third task, session or
response shows that the others are left alone; a channel of capacity one is full
after one send, so waiting, dropping and overtaking all occur. Packets use base 3
so that a message can be empty, fit, or exceed the length field. In `frontend`
three clients on one connector fill a channel of two and leave one in the accept
loop's hand, and the two connectors of one type show the one that is refused.

`CHECK_DEADLOCK FALSE` stands where the system really may stop: a process that has
ended (`application`), a table nobody uses any more (`agents_table`), nodes whose
starts are used up (`discovery`), streams that have been read (`packet`), clients
that have had their answers (`forward`) and a node that has stopped (`frontend`).

### What the properties leave out, because the code does it

Several properties name what may prevent them. These are behaviours of the code,
and the models have them, except where a line says that they are assumed away:

- A second `Stop` returns at once, without waiting (`StopDrains` and
  `AcceptedAreAnswered` speak of the one that closed the worker; `ExitIsClean`
  allows for a `Shutdown` that still waits).
- A `Post` that overlaps `Stop` panics on the closed channel; outside a task this
  ends the process (`crashed`).
- If every worker goroutine is inside a `Post` of its own task on a full queue, the
  worker is wedged until `Stop` (`Wedged` in `Worker`).
- An answer that comes after `RequestWait` has timed out holds its worker goroutine
  for good (`Stuck`); when that has happened to all of them, nothing is handled.
- The callback table is read without the lock; a concurrent write ends the process.
- `TableExact` exempts callbacks that may panic. In the instance for TLC the one
  asynchronous callback may, so the run exercises the property on the callback of
  `requestWait`; the theorem covers the others.
- A gate knows a message type only if its own process has registered it; the answer
  of another process with a type it does not know is logged and dropped
  (`hash.go:84`, `unread` in `Forward`), and so `RequestEnds` lets a request end.
- A node that crashes and restarts as another type may be picked under its former
  one. A gate that does so may pick itself for a request of its own client, and its
  default handler then hands the request back to the client; `RightClient` is
  proved for gates that keep their type (`GatesStay`), which the run has too.
- A connector whose `Stop` comes before its `Start` panics; a `TCPConnector` then
  ends at its first look at `Running`, a `WSConnector` listens until the process
  ends (`overtaken`, in `StopIsTotal`). Between the look of
  `receive` at the connection and its subscription `Stop` may close the channel; the
  next message then ends the process (`closedChannel`). A port that is taken, a
  parser without agents and, during `Init`, an etcd that fails end it too (`crash`).
- When `Startup` returns the process ends, with clients that were accepted and have no agent
  yet; `NodeServes` promises them one only while the process lives.
- A callback that panics is not removed, and neither is that of a request that timed
  out or could not be sent. A repeated answer may execute a callback twice, if a
  second runner reads the table before the first has removed the entry, although
  `requester.go:32` calls callbacks one-shot. No handler in the repository answers
  twice, so this is not reported as a finding.
- A client that does not read holds the writer, there being no write deadline
  (`stalled`), and a writer whose `chWrite` is full waits for itself
  (`Wedged` in `Agent`).
- A member that changes between `Get` and `Watch` is missed; a node whose lease
  lapses while it lives is not registered again.
- A member that comes back as another type before its DELETE has been seen keeps its former
  type in the views (`LoadOrStore`). `ViewIsPast` therefore allows any type the member has
  registered under since it was last away, and `ViewConverges` says only who is there.
- An answer fails silently when the node is not running (yet), the asking node has gone from
  the view, packing or publishing fails, or the handler panics; `AcceptedAreAnswered` says
  that none is lost to the end of the node, not that there is one (`failed`).
- `Shutdown` called by a handler waits for its own goroutine (`HandlerStops`).
- `Shutdown` does not look at `running`, nor `Stop` at whether the worker has been started.
  Nothing in the repository calls `Shutdown`; the models assume that callers do so on a node
  that is up (`MayStop` in `Application`, `AllStarted` in `Worker`).
- `processPending` of an agent drops a response that cannot be packed. `Agent` has no such
  step: what it is given has been decoded from the wire, so that it can be encoded.
- `sendPending` drops a response when `chPending` is full. That is a step of `Agent`; in
  `Forward`, where an agent is one step, it is one of the losses of the network (`Lose`).
- A message whose body is too long shifts all that follows (`Fit`), and an end of a
  TCP stream inside a message gives a shorter body that may still be accepted.

### Fairness

Weak fairness for a goroutine that is ready to go on: Go's scheduler is
preemptive and starves no runnable goroutine. Strong fairness where a goroutine
competes for something that is free again and again: `sync.Mutex` hands over to
waiters that starve (`Requester`: the lock), and `select` chooses at random among
ready cases (`Agent`: `TakeDie`, the tick, `TakePending`, `TakeWrite`). Tasks,
handlers and callbacks end. There is no fairness for callers (nobody has to post,
bind, request, or call `Stop`), for the client, for crashes and restarts, for the
network beyond what it has accepted (`Forward`: a message is delivered, or lost
if it has no subscriber; `Requester`: none), and for the expiry of a lease in
use; the lease of a process that has gone does expire. In `Frontend` `InitCluster`
has strong fairness: `Connect` tries again every three seconds, and `NodeServes` promises
that a node comes up only if NATS can be reached again and again. Its goroutines are fair only as
long as their process is `Alive`.

## 4. Proofs

TLC checks instances; the theorems hold for every value of the constants, of any
size. The assumptions are those the modules state: positive capacity, finite sets
of goroutines, disjoint names (`ConstantsOK`), for the requester `EnoughMids`, that
message ids do not run out (they are 32 bits wide and wrap), and for
`AnswersAreTheClients` and `Refinement` in `ForwardProofs` that no gate restarts as
another type (`GatesStay`). Every proof module has an inductive invariant, `Inv`, the
theorem `Invariance` that it holds, and below it what it is for (`AgentProofs` has a
second one, `TableInv`, for the session table). The parts of each `Inv` are proved one by
one, a lemma each, after lemmas about which steps touch what (`Steps`, `...Frame`).

**WorkerProofs.** `StopDrains` says nothing of the states before, so `Inv` adds what
makes it true: `PcInv` (a runner exits only from a closed, empty channel; `Stop`
comes after both starts), `WgExact`, `Accounted` (every sent task is queued, in hand
or done) and `Once` (in one place only). When the wait group is zero no runner is
live, so all have exited, so the queue is empty, so by `Accounted` everything sent
has run. `Refinement` shows `Spec => ImplementsTaskQueue` with `backlog <- fs`,
`active <- InHand`, `finished <- ran`: `Take` is `Dispatch`, the end of a task is
`Complete`, and `Once` gives the guards. Results: `TypeCorrect`, `StopIsComplete`,
`CountersAreExact`, `Refinement`.

**RequesterProofs.** `MidInv`: ids grow with registrations, so they are distinct, and
the table holds a call only under its own id. `FlowInv`: answers on the wire, in
the queue and in the hands of a runner belong to requests that were sent, and the
callback a runner executes is that of the answer. With the mutex discipline in
`TypeOK` the properties follow. Results: `TypeCorrect`, `AnswersMatchRequests`,
`WaitGetsItsAnswer`, `TableIsExact`.

**AgentProofs.** `CloseInv`: at most one goroutine is between the swap of `state` and
the close of `chDie`, and the state is closed iff there was one. `WriterInv`: the
writer leaves the session table, the socket and `chWrite` in this order. With them,
and `HandInv` (who moves a response has one), a response is in one place and in
order. Results: `TypeCorrect`, `ClosedOnce`, `OrderIsKept`, `NothingIsLeft`,
`FewAreWaiting`. For the session table (`Agents`), `EntryMatches` extends the lookups of
`TableConsistent` to sessions that are closed, and `BindersInv` ties both maps to who
ever bound: `TableTypeCorrect`, `TableIsConsistent`, `SoleSessionIsReachable`.

**DiscoveryProofs.** A view is compared with the past, as far as the node has read the
log, and the past does not change when the log grows (`KnownPast`, `AppendedLog`). `LogInv` says that the
log leads to the store, `LoadInv` what a node can know at each point of `Load`.
Results: `TypeCorrect`, `ViewsArePast`, `KeyIsKept`.

**ApplicationProofs.** `StopInv` follows the calls of `Stop`: the one that closed the
worker waits until nothing is queued or in hand, and nothing enters any more. Until
something ends the node `Accounted` keeps track of each accepted request; `EndInv`
combines the two for the call that ends it. Results: `TypeCorrect`, `NothingIsAbandoned`,
`StartupReturnsClean`.

**ForwardProofs.** `SentInv` numbers the requests of a client, `OnceInv` says that a
request is with the reader, on its way or answered, and only one of these, `OwnInv`
that all that is on its way belongs to a request of the client it names. `RegistryInv`
and `RoleInv` relate types, handlers and addresses. `Refinement` shows `Spec =>
ImplementsExchange`. `Alone` is its core: the request of a message has no other place,
so that a step which moves the message moves the fate of this request and of no other
(`TableMoves`). A handler's step is `Handle` if the answer goes out and `Fail` if it
does not; a process that ends is one `Fail` of all its readers held; `OnlyAnswers` uses
`GatesStay` for what a default handler hands out. Results: `TypeCorrect`,
`NoRequestStrays`, `AnswersAreTheClients`, `Refinement`.

**PacketProofs.** The reader and the stream together hold the rest of all frames in a
row. Joining the frames would take recursion over sequences, so `InStep` says it place by
place: `start[i]` is where the i-th frame begins in that row (`Numbered`), `at[k]` how many
of its units come before the k-th unit of the stream (`Placed`), and the reader is
where the two meet (`AtReader`), with the lengths it has parsed (`Known`). `StepInv`
claims this as long as the current message fits, or one of the ways out: the reader has
failed, or a TCP stream ended inside a message (`Drained`, `Truncated`). `Kept` is
`FramesKept` made inductive: after a mangled message comes none. Counting through the
row is induction over `Nat`, which the library's theorems state for an operator;
`LeastElement` and `SetInduction` derive it for a set from `WFMin`. Results:
`TypeCorrect`, `FramesAreKept`.

**FrontendProofs.** `Due` says which call comes at the i-th place in a life, and
`CallInv` that the history is a prefix of that, as long as `phase` and `at` say
(`Position`). `NatsInv` and `ListenInv`: what is still open belongs to a component
that is not yet stopped. `StartInv`: the parser starts each connector once, after
every `Init`. `ClientInv` and `OrderInv` say where a client is; on a `TCPConnector`
those before it are further. That registration keeps names distinct takes a few
lemmas about sequences. Results: `TypeCorrect`, `ClientsServedInOrder`,
`LifeIsComplete`.

Only model-checked: the liveness properties (`WorkEnds`, `CallsProceed`, `NothingHangs`,
`ViewConverges`, `NodeEnds`, `RequestEnds`, `AllRead`, `NodeServes`), because fairness and
ENABLED are beyond the prover. Every safety property of every passing run is a theorem.

## 5. Findings

Three runs refute a statement of the repository.

- `worker_not_serial`: `application.go:54` and `facade/worker.go:11` say that handlers
  run one after another in the worker's goroutine. The worker component calls
  `Start` in `OnAfterInit` and `Startup` calls it again, so two goroutines run
  them concurrently.
- `agents_relogin`: `uidMap` is "uid -> sid" (`agentManager.go:19`), but when a player
  has logged in on a second connection and the first one closes, `Unbind` deletes
  the entry of the second.
- `application_stolen`: `Shutdown` "closes the application" (`facade/application.go:25`),
  but the keep-alive goroutine of the discovery receives from the same channel and
  may take its only message; the node stays up with its worker stopped.

## 6. Not modelled

The logger, the error codes, the generated messages, the demo client and the parsing
of flags: input and output, configuration or generated code, without state that
the parts above depend on. The profile is read once, before a node exists; the types
and ids it yields are constants. Of `util`, `Try` is modelled (`Frontend`, and
wherever a panic is recovered), `StringIn` is not: it has no state.

Within the modelled parts: TLS and addresses of connectors; `Find`, `All` and other
readers of the components; listeners of the discovery and `ForeachAgent`, which
nobody installs or calls; a `mid` that wraps around after 2^32 requests; the names in
`route.go`, which are never stored, so that adding a route twice ends the process at
start-up; `OnShutdown` functions, which nobody registers; `PublishMsg`, which nobody calls.

## 7. What is left

The models meet in the abstract: `Forward` composes the parts with one step for
each, and `Frontend` hands a client over to the `Agent` it gets. Not yet composed in
full detail:

1. `Agents` with one `Agent` per session, so that `Unbind` and the default handler meet
   in the table they share at the grain of `Agent`.
2. `Requester` on top of `Worker` instead of a queue, so that requests, panics and
   `Stop` interleave.

To prove: abstract specifications of the parts that have none yet, with the refinements:
`Requester` as a table of calls, `Agent` as a queue that may be cut off, `Discovery` as a
map that follows a register, `Frontend` as a life of components.
