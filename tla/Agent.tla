-------------------------------- MODULE Agent --------------------------------
(***************************************************************************)
(* One client connection of a gate, framework/pkg/xagent/agent.go: the     *)
(* goroutine that reads from the client, the goroutine that writes to it,  *)
(* and the worker's goroutines that hand responses to it (the default      *)
(* handler of agentManager.go:128-137).                                    *)
(*                                                                         *)
(* A response is an identity; the responses for other connections are left *)
(* out.  Agents.tla has the table itself, of which this module keeps       *)
(* whether this agent is in it.                                            *)
(*                                                                         *)
(* Outside the code: the client, which may go away, send something that is *)
(* no message, or stop reading; there is no write deadline, so a client    *)
(* that does not read holds conn.Write for as long as it likes.            *)
(***************************************************************************)
EXTENDS Integers, Sequences, FiniteSets

CONSTANTS
  Msgs,         \* responses addressed to this session
  Runners,      \* the worker's goroutines
  Backlog,      \* writeBacklog: capacity of chPending and of chWrite
  NoMsg

ASSUME ConstantsOK ==
  /\ Backlog \in Nat \ {0}
  /\ IsFiniteSet(Runners)
  /\ NoMsg \notin Msgs

(* A message arrives at least every third tick, or the connection is idle. *)
IdleTicks == 3

VARIABLES
  state,        \* a.state: "init" or "closed"
  chDie,        \* "open" or "closed"
  chPending,    \* responses accepted by sendPending
  chWrite,      \* packed responses
  chWriteOpen,
  conn,         \* "open", "broken": reading fails, or "closed" by this side
  stalled,      \* the client does not read
  registered,   \* the agent is in Agents.sidAgentMap
  pc,           \* where the reader and the writer are
  inHand,       \* the response the writer is moving
  sendPc,       \* where each runner is in the default handler
  sendMsg,      \* the response it delivers
  age,          \* ticks since lastAt was set, up to IdleTicks
  crashed,      \* an unrecovered panic has ended the process
  asked,        \* history: responses the handler was called for
  accepted,     \* history: responses in the order chPending took them
  written       \* history: responses in the order conn.Write ended

connVars == <<conn, stalled>>
sendVars == <<sendPc, sendMsg, asked>>
dieVars  == <<state, chDie>>
outVars  == <<chPending, chWrite, chWriteOpen, inHand, accepted, written>>
vars == <<connVars, sendVars, dieVars, outVars, registered, pc, age, crashed>>

Loops == {"reader", "writer"}

(* NewAgent, BindSID and Start: net_parser.go:78-85.  lastAt is set before *)
(* the writer creates its ticker.                                          *)
Init ==
  /\ state = "init" /\ chDie = "open"
  /\ chPending = <<>> /\ chWrite = <<>> /\ chWriteOpen = TRUE
  /\ conn = "open" /\ stalled = FALSE
  /\ registered = TRUE
  /\ pc = [g \in Loops |-> "loop"]
  /\ inHand = NoMsg
  /\ sendPc = [r \in Runners |-> "idle"] /\ sendMsg = [r \in Runners |-> NoMsg]
  /\ age = 1
  /\ crashed = FALSE
  /\ asked = {} /\ accepted = <<>> /\ written = <<>>

-------------------------------------------------------------------------------
(* The client.                                                             *)

(* It disconnects, or sends something ReadMessage refuses: then a write it *)
(* does not read stays where it is.                                        *)
PeerBreaks ==
  /\ conn = "open"
  /\ conn' = "broken"
  /\ stalled' \in {stalled, FALSE}
  /\ UNCHANGED <<sendVars, dieVars, outVars, registered, pc, age, crashed>>

PeerStalls ==
  /\ conn = "open"
  /\ stalled' = ~stalled
  /\ UNCHANGED <<conn, sendVars, dieVars, outVars, registered, pc, age, crashed>>

-------------------------------------------------------------------------------
(* The reader: readChan and processPacket.                                 *)

(* A message of the client is forwarded.  One that finds no node or cannot *)
(* be sent changes nothing, not even lastAt.                               *)
Forward ==
  /\ pc["reader"] = "loop" /\ conn = "open"
  /\ age' = 0
  /\ UNCHANGED <<connVars, sendVars, dieVars, outVars, registered, pc, crashed>>

ReadFails ==
  /\ pc["reader"] = "loop" /\ conn # "open"
  /\ pc' = [pc EXCEPT !["reader"] = "close"]
  /\ UNCHANGED <<connVars, sendVars, dieVars, outVars, registered, age, crashed>>

-------------------------------------------------------------------------------
(* Close, called by both goroutines when they end.                         *)

\* Faulty variant: state is read and written in two steps.
CloseSwap_Racy(g) ==
  /\ pc[g] = "close"
  /\ pc' = [pc EXCEPT ![g] = "select"]
  /\ state' = "closed"
  /\ UNCHANGED <<connVars, sendVars, outVars, chDie, registered, age, crashed>>

(* atomic.SwapInt32: the first caller goes on, a second one returns.       *)
CloseSwap(g) ==
  /\ pc[g] = "close"
  /\ pc' = [pc EXCEPT ![g] = IF state = "closed" THEN "done" ELSE "select"]
  /\ state' = "closed"
  /\ UNCHANGED <<connVars, sendVars, outVars, chDie, registered, age, crashed>>

CloseSelect(g) ==
  /\ pc[g] = "select"
  /\ pc' = [pc EXCEPT ![g] = IF chDie = "closed" THEN "done" ELSE "closing"]
  /\ UNCHANGED <<connVars, sendVars, outVars, dieVars, registered, age, crashed>>

CloseDie(g) ==
  /\ pc[g] = "closing"
  /\ crashed' = (chDie = "closed")
  /\ chDie' = "closed"
  /\ pc' = [pc EXCEPT ![g] = "done"]
  /\ UNCHANGED <<connVars, sendVars, outVars, state, registered, age>>

-------------------------------------------------------------------------------
(* The writer: the select of writeChan, and closeProcess.                  *)

Selecting == pc["writer"] = "loop"

WriterGoes(where) == pc' = [pc EXCEPT !["writer"] = where]

\* Faulty variant: closeProcess is only called after a heartbeat timeout.
TakeDie_NoCleanup ==
  /\ Selecting /\ chDie = "closed"
  /\ WriterGoes("close")
  /\ UNCHANGED <<connVars, sendVars, dieVars, outVars, registered, age, crashed>>

TakeDie ==
  /\ Selecting /\ chDie = "closed"
  /\ WriterGoes("unbind")
  /\ UNCHANGED <<connVars, sendVars, dieVars, outVars, registered, age, crashed>>

\* Faulty variant: the tick does not look at lastAt.
TickIdle_Never == FALSE /\ UNCHANGED vars

(* The ticker fires and lastAt is too long ago.  Whether it is depends on  *)
(* how late the writer comes to the tick and on times cut to seconds, so   *)
(* any tick may find it so; after IdleTicks ticks without a message one    *)
(* does.                                                                   *)
TickIdle ==
  /\ Selecting
  /\ WriterGoes("unbind")
  /\ UNCHANGED <<connVars, sendVars, dieVars, outVars, registered, age, crashed>>

TickAlive ==
  /\ Selecting /\ age < IdleTicks
  /\ age' = age + 1
  /\ UNCHANGED <<connVars, sendVars, dieVars, outVars, registered, pc, crashed>>

TakePending ==
  /\ Selecting /\ chPending # <<>>
  /\ inHand' = Head(chPending)
  /\ chPending' = Tail(chPending)
  /\ WriterGoes("push")
  /\ UNCHANGED <<connVars, sendVars, dieVars, chWrite, chWriteOpen, accepted, written,
                 registered, age, crashed>>

\* Faulty variant: chWrite is not bounded.
Push_Unbounded ==
  /\ pc["writer"] = "push"
  /\ chWrite' = Append(chWrite, inHand)
  /\ inHand' = NoMsg
  /\ WriterGoes("loop")
  /\ UNCHANGED <<connVars, sendVars, dieVars, chPending, chWriteOpen, accepted, written,
                 registered, age, crashed>>

\* Faulty variant: a response that finds chWrite full is dropped.
Push_Drop ==
  /\ pc["writer"] = "push"
  /\ chWrite' = IF Len(chWrite) < Backlog THEN Append(chWrite, inHand) ELSE chWrite
  /\ inHand' = NoMsg
  /\ WriterGoes("loop")
  /\ UNCHANGED <<connVars, sendVars, dieVars, chPending, chWriteOpen, accepted, written,
                 registered, age, crashed>>

(* processPending: SendRaw sends to the channel that only the writer       *)
(* itself empties.  Its other path, on which PackMessage fails and nothing *)
(* is sent, is left out: a response is a message that was decoded from its *)
(* wire form, so that it can be encoded again.                             *)
Push ==
  /\ pc["writer"] = "push"
  /\ Len(chWrite) < Backlog
  /\ chWrite' = Append(chWrite, inHand)
  /\ inHand' = NoMsg
  /\ WriterGoes("loop")
  /\ UNCHANGED <<connVars, sendVars, dieVars, chPending, chWriteOpen, accepted, written,
                 registered, age, crashed>>

TakeWrite ==
  /\ Selecting /\ chWrite # <<>>
  /\ inHand' = Head(chWrite)
  /\ chWrite' = Tail(chWrite)
  /\ WriterGoes("write")
  /\ UNCHANGED <<connVars, sendVars, dieVars, chPending, chWriteOpen, accepted, written,
                 registered, age, crashed>>

(* conn.Write ends, with or without an error; an error is only logged.     *)
WriteEnds ==
  /\ pc["writer"] = "write"
  /\ ~stalled
  /\ written' = Append(written, inHand)
  /\ inHand' = NoMsg
  /\ WriterGoes("loop")
  /\ UNCHANGED <<connVars, sendVars, dieVars, chPending, chWrite, chWriteOpen, accepted,
                 registered, age, crashed>>

(* The functions of AddOnClose run inside Try; then a.Unbind().            *)
CloseUnbind ==
  /\ pc["writer"] = "unbind"
  /\ registered' = FALSE
  /\ WriterGoes("disconnect")
  /\ UNCHANGED <<connVars, sendVars, dieVars, outVars, age, crashed>>

Disconnect ==
  /\ pc["writer"] = "disconnect"
  /\ conn' = "closed"
  /\ WriterGoes("closeWrite")
  /\ UNCHANGED <<stalled, sendVars, dieVars, outVars, registered, age, crashed>>

CloseWrite ==
  /\ pc["writer"] = "closeWrite"
  /\ crashed' = ~chWriteOpen
  /\ chWriteOpen' = FALSE
  /\ WriterGoes("close")
  /\ UNCHANGED <<connVars, sendVars, dieVars, chPending, chWrite, inHand, accepted, written,
                 registered, age>>

-------------------------------------------------------------------------------
(* A runner delivers a response: GetAgent, Response, sendPending.          *)

(* GetAgent; when the session is not in the table the response is dropped. *)
FindAgent(r, m) ==
  /\ sendPc[r] = "idle" /\ m \notin asked
  /\ asked' = asked \cup {m}
  /\ IF registered
     THEN /\ sendPc' = [sendPc EXCEPT ![r] = "found"]
          /\ sendMsg' = [sendMsg EXCEPT ![r] = m]
     ELSE UNCHANGED <<sendPc, sendMsg>>
  /\ UNCHANGED <<connVars, dieVars, outVars, registered, pc, age, crashed>>

SendStep(r, from, to) ==
  /\ sendPc[r] = from
  /\ sendPc' = [sendPc EXCEPT ![r] = to]
  /\ sendMsg' = [sendMsg EXCEPT ![r] = IF to = "idle" THEN NoMsg ELSE @]
  /\ UNCHANGED <<connVars, dieVars, asked, chWrite, chWriteOpen, inHand, written,
                 registered, pc, age>>

CheckState(r) ==
  /\ SendStep(r, "found", IF state = "closed" THEN "idle" ELSE "live")
  /\ UNCHANGED <<chPending, accepted, crashed>>

\* Faulty variant: the limit itself is let through.
CheckRoom_OffByOne(r) ==
  /\ SendStep(r, "live", IF Len(chPending) > Backlog THEN "idle" ELSE "room")
  /\ UNCHANGED <<chPending, accepted, crashed>>

CheckRoom(r) ==
  /\ SendStep(r, "live", IF Len(chPending) >= Backlog THEN "idle" ELSE "room")
  /\ UNCHANGED <<chPending, accepted, crashed>>

(* a.chPending <- ... waits while the channel is full. *)
Put(r) ==
  /\ SendStep(r, "room", "idle")
  /\ Len(chPending) < Backlog
  /\ chPending' = Append(chPending, sendMsg[r])
  /\ accepted' = Append(accepted, sendMsg[r])
  /\ UNCHANGED crashed

-------------------------------------------------------------------------------
CloseStep(g) == CloseSwap(g) \/ CloseSelect(g) \/ CloseDie(g)

WriterSelects == TakeDie \/ TickIdle \/ TickAlive \/ TakePending \/ TakeWrite
WriterMoves   == Push \/ WriteEnds \/ CloseUnbind \/ Disconnect \/ CloseWrite

Deliver(r) == CheckState(r) \/ CheckRoom(r) \/ Put(r)

(* The writer sends to its own full channel. *)
Wedged == pc["writer"] = "push" /\ Len(chWrite) = Backlog

(* Reader and writer have ended or the writer can never go on, and no      *)
(* response is under way, except those that nobody will take.              *)
Terminated ==
  /\ \/ crashed
     \/ /\ pc["reader"] = "done"
        /\ \/ pc["writer"] = "done"
           \/ Wedged
           \/ pc["writer"] = "write" /\ stalled /\ conn # "open"
        /\ asked = Msgs
        /\ \A r \in Runners : sendPc[r] = "idle" \/ (sendPc[r] = "room" /\ Len(chPending) = Backlog)
  /\ UNCHANGED vars

Next ==
  \/ /\ ~crashed
     /\ \/ PeerBreaks \/ PeerStalls
        \/ Forward \/ ReadFails
        \/ \E g \in Loops : CloseStep(g)
        \/ WriterSelects \/ WriterMoves
        \/ \E r \in Runners : Deliver(r) \/ \E m \in Msgs : FindAgent(r, m)
  \/ Terminated

(* Goroutines that can run do run.  A select that is ready in a case again *)
(* and again takes it some time, since Go chooses at random; the ticker    *)
(* keeps firing.                                                           *)
Fairness ==
  /\ WF_vars(~crashed /\ ReadFails)
  /\ \A g \in Loops : WF_vars(~crashed /\ CloseStep(g))
  /\ WF_vars(~crashed /\ WriterMoves)
  /\ SF_vars(~crashed /\ TakeDie)
  /\ SF_vars(~crashed /\ (TickAlive \/ (age = IdleTicks /\ TickIdle)))
  /\ SF_vars(~crashed /\ TakePending)
  /\ SF_vars(~crashed /\ TakeWrite)
  /\ \A r \in Runners : WF_vars(~crashed /\ Deliver(r))

Spec == Init /\ [][Next]_vars /\ Fairness

-------------------------------------------------------------------------------
(* Properties.                                                             *)

TypeOK ==
  /\ state \in {"init", "closed"} /\ chDie \in {"open", "closed"}
  /\ chPending \in Seq(Msgs) /\ Len(chPending) <= Backlog
  /\ chWrite \in Seq(Msgs) /\ Len(chWrite) <= Backlog
  /\ chWriteOpen \in BOOLEAN
  /\ conn \in {"open", "broken", "closed"} /\ stalled \in BOOLEAN
  /\ registered \in BOOLEAN
  /\ pc \in [Loops -> {"loop", "push", "write", "unbind", "disconnect", "closeWrite",
                       "close", "select", "closing", "done"}]
  /\ inHand \in Msgs \cup {NoMsg}
  /\ sendPc \in [Runners -> {"idle", "found", "live", "room"}]
  /\ sendMsg \in [Runners -> Msgs \cup {NoMsg}]
  /\ age \in 0..IdleTicks
  /\ crashed \in BOOLEAN
  /\ asked \in SUBSET Msgs /\ accepted \in Seq(Msgs) /\ written \in Seq(Msgs)

(* agent.go:103-111, 99-101, 200: reader and writer close the connection   *)
(* together, in any order, without closing a channel twice or sending to   *)
(* one that is closed, which would end the gate for all its clients.       *)
NoPanic == ~crashed

Moving(where) == IF pc["writer"] = where THEN <<inHand>> ELSE <<>>

(* agent.go:147-170, 253-287: accepted responses reach the client in the   *)
(* order they were accepted, none lost and none twice, although the writer *)
(* passes them through two channels and selects among them at random.      *)
OrderKept ==
  accepted = written \o Moving("write") \o chWrite \o Moving("push") \o chPending

(* agent.go:118-145, 173-201: whoever notices first, when both goroutines  *)
(* have ended nothing of the connection is left.                           *)
NothingLeft ==
  (\A g \in Loops : pc[g] = "done") =>
    ~registered /\ conn = "closed" /\ state = "closed" /\ chDie = "closed"

(* agent.go:264-287: the check of the length and the send are two steps,   *)
(* but goroutines can overshoot the limit only by each other: one that is  *)
(* alone never waits for a client that takes nothing, it drops responses.  *)
FewWaiting ==
  Len(chPending) + Cardinality({r \in Runners : sendPc[r] = "room"}) < Backlog + Cardinality(Runners)

(* agent.go:118-171: a connection that breaks is closed and taken out of   *)
(* the table.  What can prevent it: the client does not read, or the       *)
(* writer has filled chWrite.                                              *)
BrokenIsClosed ==
  conn = "broken" ~> (~registered /\ conn = "closed") \/ stalled \/ Wedged

(* agent.go:153-160: a connection that forwards nothing any more is closed *)
(* in the end.                                                             *)
IdleIsClosed ==
  \/ []<>(age = 0)
  \/ <>(~registered /\ conn = "closed")
  \/ <>(stalled \/ Wedged)

(* agent.go:283: a goroutine of the worker that delivers a response gets   *)
(* away, unless the writer is past its loop or cannot go on.               *)
SenderGetsAway ==
  \A r \in Runners : sendPc[r] = "found" ~>
    \/ sendPc[r] = "idle"
    \/ stalled \/ Wedged
    \/ pc["writer"] \notin {"loop", "push", "write"}

(* Together: a connection that is of no use goes away, and those that send *)
(* to it meanwhile get away.                                               *)
NothingHangs == BrokenIsClosed /\ IdleIsClosed /\ SenderGetsAway
===============================================================================
