------------------------------- MODULE Exchange -------------------------------
(***************************************************************************)
(* What the nodes together promise the clients of a gate: a request is     *)
(* handled at most once, and its answer, which the client receives at most *)
(* once, is that of a handler that has had this very request.  Requests    *)
(* and answers may be lost, several at a time, and stay lost: nothing is   *)
(* sent again.  Forward.tla implements this module.                        *)
(***************************************************************************)
EXTENDS Naturals, Sequences

CONSTANTS
  Clients,
  Numbers,    \* the numbers clients give their requests
  Kinds

VARIABLES
  table,      \* what has become of each request
  received    \* the answers each client has received, oldest first

exVars == <<table, received>>

Calls == [sid : Clients, mid : Numbers, kind : Kinds]

(* A request is "open" until a handler has it, then "handled" until its    *)
(* answer has arrived.                                                     *)
Fates == {"new", "open", "handled", "answered", "lost"}

Reply(r) == [mid |-> r.mid, msg |-> <<"answer", r.kind>>]

ExInit ==
  /\ table = [r \in Calls |-> "new"]
  /\ received = [c \in Clients |-> <<>>]

(* A client numbers its requests, and may be refused at once.              *)
Ask(r) ==
  /\ \A q \in Calls : q.sid = r.sid /\ q.mid = r.mid => table[q] = "new"
  /\ \E fate \in {"open", "lost"} : table' = [table EXCEPT ![r] = fate]
  /\ UNCHANGED received

Handle(r) ==
  /\ table[r] = "open"
  /\ table' = [table EXCEPT ![r] = "handled"]
  /\ UNCHANGED received

Answer(r) ==
  /\ table[r] = "handled"
  /\ table' = [table EXCEPT ![r] = "answered"]
  /\ received' = [received EXCEPT ![r.sid] = Append(@, Reply(r))]

(* Messages are lost, processes end.                                       *)
Fail(gone) ==
  /\ \A r \in gone : table[r] \in {"open", "handled"}
  /\ table' = [r \in Calls |-> IF r \in gone THEN "lost" ELSE table[r]]
  /\ UNCHANGED received

ExNext ==
  \/ \E r \in Calls : Ask(r) \/ Handle(r) \/ Answer(r)
  \/ \E gone \in SUBSET Calls : Fail(gone)

ExSpec == ExInit /\ [][ExNext]_exVars
===============================================================================
