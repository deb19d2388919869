-------------------------------- MODULE Packet --------------------------------
(***************************************************************************)
(* The framing of packet.go on a byte stream between a client and a gate:  *)
(* PackMessage writes two lengths and two bodies, ReadMessage reads them   *)
(* with io.ReadAll on a limited reader, in as many pieces as the           *)
(* connection delivers them.  The connection is a TCP stream or a WSConn   *)
(* (pkg/connector/ws_connector.go), which makes a stream of the messages   *)
(* of a WebSocket.                                                         *)
(*                                                                         *)
(* Two ways out of the format are here because the code has them.  A       *)
(* length is cut to sixteen bits when it is written, so a body that is too *)
(* long makes the reader take its rest for the next header.  And ReadAll   *)
(* turns an end of the stream into a body that is merely shorter, which    *)
(* proto.Unmarshal may accept.                                             *)
(*                                                                         *)
(* Abstractions: a unit of the stream is a length field or a piece of a    *)
(* body; a length is counted in units and cut modulo Base; what Unmarshal  *)
(* makes of bytes other than those that were packed is either an error or  *)
(* some other message, Mangled, and a piece of a body taken for a length   *)
(* is any length.                                                          *)
(***************************************************************************)
EXTENDS Integers, Sequences, SequencesExt

CONSTANTS
  Base,         \* 2^16: lengths that fit are below it
  CommonLen,    \* length of the common part; the route in it is never empty
  Sizes,        \* lengths of messages
  MaxMessages,  \* bound: messages of the sender
  Mangled

ASSUME PacketConstants ==
  /\ Base \in Nat \ {0} /\ CommonLen \in 1..(Base - 1)
  /\ Sizes \subseteq Nat /\ MaxMessages \in Nat /\ Mangled \notin Nat

VARIABLES
  ws,           \* the connection is a WSConn
  sent,         \* the lengths of the messages written
  stream,       \* what is on its way
  end,          \* how the connection has ended: "open", "eof" or "error"
  phase,        \* what ReadMessage is reading
  need,         \* the limit of its limited reader
  buf,          \* what it has read of that
  msgLen,       \* msgLen of the header
  common,       \* the message whose common part it has decoded
  delivered     \* the messages it has returned

readerVars == <<phase, need, buf, msgLen, common, delivered>>
vars == <<ws, sent, stream, end, readerVars>>

HeadLen == 2
Unit(part, i, v) == [part |-> part, of |-> i, val |-> v]
Body(part, i, l) == [j \in 1..l |-> Unit(part, i, j)]

\* Faulty variant: the lengths are written in the other order.
Frame_Swapped(i, l) ==
  <<Unit("length", i, l % Base), Unit("length", i, CommonLen)>>
    \o Body("common", i, CommonLen) \o Body("msg", i, l)

Frame(i, l) ==
  <<Unit("length", i, CommonLen), Unit("length", i, l % Base)>>
    \o Body("common", i, CommonLen) \o Body("msg", i, l)

(* WSConn.Write makes one WebSocket message of it; a client may make two.  *)
Cut == Unit("cut", 0, 0)

Written(f) ==
  IF ws THEN {f \o <<Cut>>} \cup
             {SubSeq(f, 1, k) \o <<Cut>> \o SubSeq(f, k + 1, Len(f)) \o <<Cut>> : k \in 0..Len(f)}
  ELSE {f}

Lengths(u) == IF u.part = "length" THEN {u.val} ELSE 0..(Base - 1)

Init ==
  /\ ws \in BOOLEAN /\ sent = <<>> /\ stream = <<>> /\ end = "open"
  /\ phase = "header" /\ need = HeadLen /\ buf = <<>>
  /\ msgLen = 0 /\ common = Mangled /\ delivered = <<>>

(* PackMessage and one Write. *)
Send(l) ==
  /\ end = "open" /\ Len(sent) < MaxMessages
  /\ sent' = Append(sent, l)
  /\ \E f \in Written(Frame(Len(sent) + 1, l)) : stream' = stream \o f
  /\ UNCHANGED <<ws, end, readerVars>>

(* The connection ends, and what has not arrived may be lost.  The end of  *)
(* a WebSocket is an error to its reader.                                  *)
Break ==
  /\ end = "open"
  /\ end' \in {"eof", "error"} /\ (ws => end' = "error")
  /\ \E k \in 0..Len(stream) : stream' = SubSeq(stream, 1, k)
  /\ UNCHANGED <<ws, sent, readerVars>>

-------------------------------------------------------------------------------
(* ReadMessage: io.ReadAll reads until the limit or the end.               *)

\* Faulty variant: the reader is not limited.
ReadSome_NoLimit ==
  /\ phase # "failed"
  /\ \E k \in 1..Len(stream) :
       /\ ~Contains(SubSeq(stream, 1, k), Cut)
       /\ buf' = buf \o SubSeq(stream, 1, k)
       /\ stream' = SubSeq(stream, k + 1, Len(stream))
  /\ UNCHANGED <<ws, sent, end, phase, need, msgLen, common, delivered>>

ReadSome ==
  /\ phase # "failed"
  /\ \E k \in 1..Len(stream) :
       /\ k <= need - Len(buf) /\ ~Contains(SubSeq(stream, 1, k), Cut)
       /\ buf' = buf \o SubSeq(stream, 1, k)
       /\ stream' = SubSeq(stream, k + 1, Len(stream))
  /\ UNCHANGED <<ws, sent, end, phase, need, msgLen, common, delivered>>

(* WSConn.Read, at the end of a WebSocket message: it takes the next one,  *)
(* and has read nothing.                                                   *)
NextReader ==
  /\ phase # "failed" /\ Len(buf) < need
  /\ Len(stream) > 1 /\ stream[1] = Cut
  /\ stream' = Tail(stream)
  /\ UNCHANGED <<ws, sent, end, readerVars>>

\* Faulty variant: one call of Read instead of ReadAll.
HasRead_Once == Len(buf) > 0 \/ need = 0 \/ (stream = <<>> /\ end = "eof")

(* ReadAll has returned, and an end of the stream is no error to it.       *)
HasRead == Len(buf) = need \/ (stream = <<>> /\ end = "eof")

Fails ==
  /\ phase' = "failed"
  /\ UNCHANGED <<ws, sent, stream, end, need, buf, msgLen, common, delivered>>

Reads(p, n) ==
  /\ phase' = p /\ need' = n /\ buf' = <<>>
  /\ UNCHANGED <<ws, sent, stream, end>>

ReadError ==
  /\ phase # "failed"
  /\ stream \in {<<>>, <<Cut>>} /\ end = "error" /\ Len(buf) < need
  /\ Fails

(* PacketConnectClosed or PacketInvalidHeader. *)
HeaderInvalid ==
  /\ phase = "header" /\ HasRead
  /\ Len(buf) # HeadLen
  /\ Fails

(* parseHead: its checks against the maximal lengths never fail. *)
Header ==
  /\ phase = "header" /\ HasRead
  /\ Len(buf) = HeadLen
  /\ \E c \in Lengths(buf[1]), l \in Lengths(buf[2]) : Reads("common", c) /\ msgLen' = l
  /\ UNCHANGED <<common, delivered>>

(* What Unmarshal can make of raw: message i if these are its bytes,       *)
(* another message, or, unless raw is empty, an error.                     *)
Decoded(part, raw) ==
  {i \in 1..Len(sent) : raw = Body(part, i, IF part = "msg" THEN sent[i] ELSE CommonLen)}

Common ==
  /\ phase = "common" /\ HasRead
  /\ \/ \E i \in Decoded("common", buf) : common' = i /\ Reads("msg", msgLen)
     \/ Decoded("common", buf) = {} /\ common' = Mangled /\ Reads("msg", msgLen)
  /\ UNCHANGED <<msgLen, delivered>>

CommonFails ==
  /\ phase = "common" /\ HasRead
  /\ buf # <<>> /\ Decoded("common", buf) = {}
  /\ Fails

(* OnUnmarshal, and the next ReadMessage. *)
Message ==
  /\ phase = "msg" /\ HasRead
  /\ delivered' = Append(delivered, IF common \in Decoded("msg", buf) THEN common ELSE Mangled)
  /\ Reads("header", HeadLen)
  /\ common' = Mangled
  /\ UNCHANGED msgLen

(* The route of a mangled common part need not be registered.              *)
MessageFails ==
  /\ phase = "msg" /\ HasRead
  /\ common = Mangled \/ (buf # <<>> /\ common \notin Decoded("msg", buf))
  /\ Fails

ReaderStep ==
  \/ ReadSome \/ NextReader \/ ReadError \/ HeaderInvalid \/ Header
  \/ Common \/ CommonFails \/ Message \/ MessageFails

Next == (\E l \in Sizes : Send(l)) \/ Break \/ ReaderStep

(* The connection delivers what is on its way and the reader goes on.      *)
Spec == Init /\ [][Next]_vars /\ WF_vars(ReaderStep)

-------------------------------------------------------------------------------
(* Properties.                                                             *)

Units == [part : {"length", "common", "msg", "cut"}, of : 0..MaxMessages, val : Nat]

TypeOK ==
  /\ ws \in BOOLEAN /\ sent \in Seq(Sizes) /\ Len(sent) <= MaxMessages
  /\ stream \in Seq(Units) /\ buf \in Seq(Units \ {Cut})
  /\ end \in {"open", "eof", "error"}
  /\ phase \in {"header", "common", "msg", "failed"}
  /\ need \in 0..(Base - 1) \cup {HeadLen} /\ Len(buf) <= need
  /\ msgLen \in 0..(Base - 1)
  /\ common \in 1..MaxMessages \cup {Mangled}
  /\ delivered \in Seq(1..MaxMessages \cup {Mangled})

Fit(i) == \A j \in 1..i : j \in DOMAIN sent => sent[j] < Base

(* packet.go:25-64, 96-122: the messages returned are those written, one   *)
(* for one and in order, up to the first that is too long, also if they    *)
(* are spread over WebSocket messages (ws_connector.go:117-147).  The last *)
(* one may be mangled if a TCP stream ended inside it.                     *)
FramesKept ==
  \A i \in DOMAIN delivered : Fit(i) =>
    \/ delivered[i] = i
    \/ i = Len(delivered) /\ delivered[i] = Mangled /\ stream = <<>> /\ end = "eof" /\ ~ws

(* While the connection lasts, the reader does not fail, however the       *)
(* bytes arrive, and gets every message that is written.                   *)
AllRead ==
  []<>(Len(delivered) = Len(sent) \/ end # "open" \/ ~Fit(Len(sent)))
===============================================================================
