---------------------------- MODULE DiscoveryProofs ----------------------------
(* Theorems about Discovery.tla, for any sets of nodes, types and watchers *)
(* and any number of starts.                                               *)
EXTENDS Discovery, TLAPS, SequenceTheorems

(* The process of a node that has begun Load has a type; until its Get its *)
(* map is empty, until its Watch it has missed nothing; a PUT has a type.  *)
LoadInv ==
  /\ \A n \in Nodes : pc[n] # "down" => type[n] \in Types
  /\ \A n \in Nodes : pc[n] \in {"down", "leased", "registered"} => memberMap[n] = Nobody
  /\ \A n \in Nodes : pc[n] # "watching" => skipped[n] = {}
  /\ \A j \in 1..Len(log) : log[j].op = "put" => log[j].type \in Types

(* The log leads to the store.                                             *)
LogInv ==
  \A i \in Nodes : IF store[i] = Absent THEN Known(log, Len(log), i) = {}
                   ELSE store[i].type \in Known(log, Len(log), i)

Inv == TypeOK /\ LoadInv /\ LogInv /\ ViewIsPast /\ RestartKeepsKey

-------------------------------------------------------------------------------
(* What one change and what no change makes of Known.                      *)

LEMMA KnownNext ==
  ASSUME NEW lg, NEW i, NEW k \in Nat
  PROVE  Known(lg, k + 1, i) = IF lg[k + 1].id # i THEN Known(lg, k, i)
                               ELSE IF lg[k + 1].op = "put" THEN Known(lg, k, i) \cup {lg[k + 1].type}
                               ELSE {}
<1>. DEFINE From(h) == {j \in 1..h : /\ lg[j].id = i /\ lg[j].op = "put"
                                     /\ \A l \in (j + 1)..h : lg[l].id = i => lg[l].op = "put"}
<1>1. \A h : Known(lg, h, i) = {lg[j].type : j \in From(h)}
  BY DEF Known
<1>2. \A j \in 1..(k + 1) : j \in 1..k \/ j = k + 1
  OBVIOUS
<1>3. k + 1 \in 1..(k + 1) /\ ((k + 1) + 1)..(k + 1) = {}
  OBVIOUS
<1>4. \A j \in 1..k : j \in 1..(k + 1) /\ (j + 1)..(k + 1) = ((j + 1)..k) \cup {k + 1}
  OBVIOUS
<1>5. CASE lg[k + 1].id # i
  <2>1. From(k + 1) = From(k)
    BY <1>2, <1>4, <1>5
  <2>. QED
    BY <1>1, <1>5, <2>1
<1>6. CASE lg[k + 1].id = i /\ lg[k + 1].op = "put"
  <2>1. From(k + 1) = From(k) \cup {k + 1}
    BY <1>2, <1>3, <1>4, <1>6
  <2>2. {lg[j].type : j \in From(k) \cup {k + 1}} = {lg[j].type : j \in From(k)} \cup {lg[k + 1].type}
    OBVIOUS
  <2>. QED
    BY <1>1, <1>6, <2>1, <2>2
<1>7. CASE lg[k + 1].id = i /\ lg[k + 1].op # "put"
  <2>1. From(k + 1) = {}
    BY <1>2, <1>4, <1>7
  <2>. QED
    BY <1>1, <1>7, <2>1
<1>. QED
  BY <1>5, <1>6, <1>7

LEMMA KnownSame ==
  ASSUME NEW lg, NEW i, NEW k \in Nat, NEW l \in Nat, k <= l,
         \A j \in (k + 1)..l : lg[j].id # i
  PROVE  Known(lg, l, i) = Known(lg, k, i)
<1>1. \A j \in 1..l : j \in 1..k \/ j \in (k + 1)..l
  OBVIOUS
<1>2. \A j \in 1..k : j \in 1..l /\ (j + 1)..l = ((j + 1)..k) \cup ((k + 1)..l)
  OBVIOUS
<1>3. \A j \in 1..k : (\A h \in (j + 1)..l : lg[h].id = i => lg[h].op = "put")
                       <=> (\A h \in (j + 1)..k : lg[h].id = i => lg[h].op = "put")
  BY <1>2
<1>. QED
  BY <1>1, <1>2, <1>3 DEF Known

(* Logs that agree so far have the same past.                              *)
LEMMA KnownPast ==
  ASSUME NEW lg, NEW lh, NEW i, NEW k \in Nat, \A j \in 1..k : lh[j] = lg[j]
  PROVE  Known(lh, k, i) = Known(lg, k, i)
<1>1. \A j \in 1..k : \A l \in (j + 1)..k : l \in 1..k
  OBVIOUS
<1>. QED
  BY <1>1 DEF Known

-------------------------------------------------------------------------------
(* Appending a change leaves the past alone and is the new end of the log. *)
LEMMA AppendedLog ==
  ASSUME TypeOK, NEW e, log' = Append(log, e)
  PROVE  /\ Len(log) \in Nat /\ Len(log') = Len(log) + 1
         /\ \A j \in 1..Len(log) : log'[j] = log[j]
         /\ log'[Len(log) + 1] = e
         /\ \A i : \A k \in 0..Len(log) : Known(log', k, i) = Known(log, k, i)
<1>1. /\ Len(log) \in Nat /\ Len(log') = Len(log) + 1
      /\ \A j \in 1..Len(log) : log'[j] = log[j]
      /\ log'[Len(log) + 1] = e
  BY AppendProperties DEF TypeOK
<1>2. ASSUME NEW i, NEW k \in 0..Len(log)
      PROVE  Known(log', k, i) = Known(log, k, i)
  <2>1. k \in Nat /\ \A j \in 1..k : log'[j] = log[j]
    BY <1>1
  <2>. QED
    BY <2>1, KnownPast
<1>. QED
  BY <1>1, <1>2

(* Only Register and an expiry change etcd's store, and with it the log.   *)
LEMMA TypeStep ==
  ASSUME Inv, [Next]_vars
  PROVE  TypeOK'
<1>. USE DEF Inv
<1>1. ASSUME NEW n \in Nodes, NEW t \in Types, GetLeaseId(n, t)
      PROVE  TypeOK'
  <2>1. starts[n] + 1 \in 1..MaxStarts /\ starts[n] + 1 \in 0..MaxStarts
    BY <1>1, ConstantsOK DEF ConstantsOK, TypeOK, GetLeaseId
  <2>. QED
    BY <1>1, <2>1 DEF TypeOK, GetLeaseId, Leases
<1>2. ASSUME NEW n \in Nodes, Register(n)
      PROVE  TypeOK'
  <2>1. type[n] \in Types /\ starts[n] \in 1..MaxStarts
    BY <1>2, ConstantsOK DEF ConstantsOK, TypeOK, LoadInv, Leases, Register
  <2>2. [op |-> "put", id |-> n, type |-> type[n]] \in Changes
    BY <2>1 DEF Changes
  <2>3. /\ log' \in Seq(Changes)
        /\ Len(log) \in Nat /\ Len(log') = Len(log) + 1
    BY <1>2, <2>2, AppendProperties DEF TypeOK, Register
  <2>4. store' \in [Nodes -> [type : Types, lease : 1..MaxStarts] \cup {Absent}]
    BY <1>2, <2>1 DEF TypeOK, Register
  <2>5. seen' \in [Nodes -> 0..Len(log')]
    BY <1>2, <2>3 DEF TypeOK, Register
  <2>. QED
    BY <1>2, <2>3, <2>4, <2>5 DEF TypeOK, Register
<1>3. ASSUME NEW n \in Nodes, Get(n)
      PROVE  TypeOK'
  <2>1. Len(log) \in 0..Len(log)
    BY DEF TypeOK
  <2>2. \A i \in Nodes : TypeInStore(i) \in Types \cup {Absent}
    BY DEF TypeOK, TypeInStore
  <2>3. [i \in Nodes |-> Added(memberMap[n], i, TypeInStore(i))[i]] \in [Nodes -> Types \cup {Absent}]
    BY <2>2 DEF TypeOK, Added
  <2>4. memberMap' \in [Nodes -> [Nodes -> Types \cup {Absent}]]
    BY <1>3, <2>3 DEF TypeOK, Get
  <2>. QED
    BY <1>3, <2>1, <2>4 DEF TypeOK, Get, etcdVars
<1>4. ASSUME NEW n \in Nodes, Watch(n)
      PROVE  TypeOK'
  <2>1. Len(log) \in 0..Len(log) /\ \A k \in (seen[n] + 1)..Len(log) : k \in 1..Len(log)
    BY DEF TypeOK
  <2>2. \A k \in (seen[n] + 1)..Len(log) : log[k] \in Changes
    BY <2>1 DEF TypeOK
  <2>3. {log[k].id : k \in (seen[n] + 1)..Len(log)} \subseteq Nodes
    BY <2>2 DEF Changes
  <2>. QED
    BY <1>4, <2>1, <2>3 DEF TypeOK, Watch, etcdVars
<1>5. ASSUME NEW n \in Nodes, Event(n)
      PROVE  TypeOK'
  <2>1. seen[n] + 1 \in 0..Len(log) /\ seen[n] + 1 \in 1..Len(log)
    BY <1>5 DEF TypeOK, Event
  <2>2. log[seen[n] + 1] \in Changes
    BY <2>1 DEF TypeOK
  <2>3. memberMap' \in [Nodes -> [Nodes -> Types \cup {Absent}]]
    BY <1>5, <2>2 DEF TypeOK, Event, Added, Changes
  <2>. QED
    BY <1>5, <2>1, <2>3 DEF TypeOK, Event, etcdVars
<1>6. ASSUME NEW n \in Nodes, Leave(n)
      PROVE  TypeOK'
  <2>1. 0 \in 0..Len(log)
    BY DEF TypeOK
  <2>. QED
    BY <1>6, <2>1 DEF TypeOK, Leave, etcdVars, Nobody
<1>7. ASSUME NEW n \in Nodes, NEW k \in 1..MaxStarts, Expire(n, k), log' = log
      PROVE  TypeOK'
  <2>1. store' \in [Nodes -> [type : Types, lease : 1..MaxStarts] \cup {Absent}]
    BY <1>7 DEF TypeOK, Expire
  <2>. QED
    BY <1>7, <2>1 DEF TypeOK, Expire
<1>8. ASSUME NEW n \in Nodes, NEW k \in 1..MaxStarts, Expire(n, k),
             log' = Append(log, [op |-> "delete", id |-> n, type |-> Absent])
      PROVE  TypeOK'
  <2>1. [op |-> "delete", id |-> n, type |-> Absent] \in Changes
    BY DEF Changes
  <2>2. /\ log' \in Seq(Changes)
        /\ Len(log) \in Nat /\ Len(log') = Len(log) + 1
    BY <1>8, <2>1, AppendProperties DEF TypeOK
  <2>3. seen' \in [Nodes -> 0..Len(log')]
    BY <1>8, <2>2 DEF TypeOK, Expire
  <2>. QED
    BY <1>8, <2>2, <2>3 DEF TypeOK, Expire
<1>9. CASE UNCHANGED vars
  BY <1>9 DEF TypeOK, vars, etcdVars
<1>. QED
  BY <1>1, <1>2, <1>3, <1>4, <1>5, <1>6, <1>7, <1>8, <1>9 DEF Next, Load, Expire

LEMMA LoadStep ==
  ASSUME Inv, [Next]_vars
  PROVE  LoadInv'
<1>. USE DEF Inv
<1>1. ASSUME NEW n \in Nodes, NEW t \in Types, GetLeaseId(n, t)
      PROVE  LoadInv'
  BY <1>1 DEF LoadInv, TypeOK, GetLeaseId, Nobody
<1>2. ASSUME NEW n \in Nodes, Register(n)
      PROVE  LoadInv'
  <2>1. type[n] \in Types
    BY <1>2 DEF LoadInv, Register
  <2>2. \A j \in 1..Len(log') : j \in 1..Len(log) \/ j = Len(log) + 1
    BY <1>2, AppendedLog DEF Register
  <2>3. \A j \in 1..Len(log') : log'[j].op = "put" => log'[j].type \in Types
    BY <1>2, <2>1, <2>2, AppendedLog DEF LoadInv, Register
  <2>. QED
    BY <1>2, <2>3 DEF LoadInv, TypeOK, Register, Nobody
<1>3. ASSUME NEW n \in Nodes, Get(n)
      PROVE  LoadInv'
  BY <1>3 DEF LoadInv, TypeOK, Get, etcdVars, Nobody
<1>4. ASSUME NEW n \in Nodes, Watch(n)
      PROVE  LoadInv'
  BY <1>4 DEF LoadInv, TypeOK, Watch, etcdVars, Nobody
<1>5. ASSUME NEW n \in Nodes, Event(n)
      PROVE  LoadInv'
  BY <1>5 DEF LoadInv, TypeOK, Event, etcdVars, Nobody
<1>6. ASSUME NEW n \in Nodes, Leave(n)
      PROVE  LoadInv'
  BY <1>6 DEF LoadInv, TypeOK, Leave, etcdVars, Nobody
<1>7. ASSUME NEW n \in Nodes, NEW k \in 1..MaxStarts, Expire(n, k)
      PROVE  LoadInv'
  <2>1. CASE log' = log
    BY <1>7, <2>1 DEF LoadInv, Expire, Nobody
  <2>2. CASE log' = Append(log, [op |-> "delete", id |-> n, type |-> Absent])
    <3>1. \A j \in 1..Len(log') : j \in 1..Len(log) \/ j = Len(log) + 1
      BY <2>2, AppendedLog
    <3>2. \A j \in 1..Len(log') : log'[j].op = "put" => log'[j].type \in Types
      BY <2>2, <3>1, AppendedLog DEF LoadInv
    <3>. QED
      BY <1>7, <3>2 DEF LoadInv, Expire, Nobody
  <2>. QED
    BY <1>7, <2>1, <2>2 DEF Expire
<1>8. CASE UNCHANGED vars
  BY <1>8 DEF LoadInv, vars, etcdVars, Nobody
<1>. QED
  BY <1>1, <1>2, <1>3, <1>6, <1>7, <1>8, <1>4, <1>5 DEF Next, Load

(* A change of the store and the change of the log say the same.           *)
LEMMA ChangeStep ==
  ASSUME TypeOK, LogInv, NEW n \in Nodes, NEW e, NEW v, e.id = n,
         log' = Append(log, e), store' = [store EXCEPT ![n] = v],
         IF v = Absent THEN e.op # "put" ELSE e.op = "put" /\ e.type = v.type
  PROVE  LogInv'
<1>1. PICK L \in Nat : L = Len(log)
  BY DEF TypeOK
<1>2. Len(log') = L + 1 /\ log'[L + 1] = e
  BY <1>1, AppendedLog
<1>3. ASSUME NEW i \in Nodes
      PROVE  IF store'[i] = Absent THEN Known(log', L + 1, i) = {}
             ELSE store'[i].type \in Known(log', L + 1, i)
  <2>1. Known(log', L, i) = Known(log, L, i)
    BY <1>1, AppendedLog
  <2>2. Known(log', L + 1, i) = IF log'[L + 1].id # i THEN Known(log', L, i)
                                ELSE IF log'[L + 1].op = "put"
                                     THEN Known(log', L, i) \cup {log'[L + 1].type}
                                ELSE {}
    BY KnownNext
  <2>3. CASE i = n
    BY <1>2, <2>2, <2>3 DEF TypeOK
  <2>4. CASE i # n
    BY <1>1, <1>2, <2>1, <2>2, <2>4 DEF TypeOK, LogInv
  <2>. QED
    BY <2>3, <2>4
<1>. QED
  BY <1>2, <1>3 DEF LogInv

LEMMA LogStep ==
  ASSUME Inv, [Next]_vars
  PROVE  LogInv'
<1>. USE DEF Inv
<1>1. ASSUME store' = store, log' = log
      PROVE  LogInv'
  BY <1>1 DEF LogInv
<1>2. ASSUME NEW n \in Nodes, Register(n)
      PROVE  LogInv'
  <2>1. [type |-> type[n], lease |-> starts[n]] # Absent
    <3>1. type[n] \in Types /\ starts[n] \in Nat
      BY <1>2 DEF LoadInv, TypeOK, Register
    <3>. QED
      BY <3>1, ConstantsOK DEF ConstantsOK
  <2>. QED
    BY <1>2, <2>1, ChangeStep DEF Register
<1>3. ASSUME NEW n \in Nodes, NEW k \in 1..MaxStarts, Expire(n, k)
      PROVE  LogInv'
  BY <1>1, <1>3, ChangeStep DEF Expire
<1>. QED
  BY <1>1, <1>2, <1>3 DEF Next, Load, GetLeaseId, Get, Watch, Event, Leave, etcdVars, vars

(* What a node may know of member i after k changes.                       *)
RightOf(known, lg, k, i) == IF Known(lg, k, i) = {} THEN known = Absent ELSE known \in Known(lg, k, i)

(* A view is compared with the past: changes to come do not matter to it.  *)
LEMMA ViewStep ==
  ASSUME Inv, [Next]_vars
  PROVE  ViewIsPast'
<1>. USE DEF Inv, RightOf
<1>1. ASSUME UNCHANGED <<memberMap, seen, skipped>>,
             \A n \in Nodes : pc'[n] \in {"listed", "watching"} => pc[n] \in {"listed", "watching"},
             \A i \in Nodes, k \in 0..Len(log) : Known(log', k, i) = Known(log, k, i)
      PROVE  ViewIsPast'
  <2>1. ASSUME NEW n \in Nodes, pc'[n] \in {"listed", "watching"}, NEW i \in Nodes \ skipped'[n]
        PROVE  RightOf(memberMap'[n][i], log', seen'[n], i)
    <3>1. seen[n] \in 0..Len(log)
      BY DEF TypeOK
    <3>2. Known(log', seen[n], i) = Known(log, seen[n], i)
      BY <1>1, <3>1
    <3>3. RightOf(memberMap[n][i], log, seen[n], i)
      BY <1>1, <2>1 DEF ViewIsPast
    <3>. QED
      BY <1>1, <3>2, <3>3
  <2>. QED
    BY <2>1 DEF ViewIsPast
<1>2. ASSUME NEW n \in Nodes, NEW t \in Types, GetLeaseId(n, t)
      PROVE  ViewIsPast'
  BY <1>1, <1>2 DEF TypeOK, GetLeaseId
<1>3. ASSUME NEW n \in Nodes, Register(n)
      PROVE  ViewIsPast'
  BY <1>1, <1>3, AppendedLog DEF TypeOK, Register
<1>4. ASSUME NEW n \in Nodes, NEW k \in 1..MaxStarts, Expire(n, k)
      PROVE  ViewIsPast'
  BY <1>1, <1>4, AppendedLog DEF Expire
<1>5. ASSUME log' = log, NEW n \in Nodes, \A m \in Nodes \ {n} :
               UNCHANGED <<pc[m], memberMap[m], seen[m], skipped[m]>>,
             pc'[n] \in {"listed", "watching"} =>
               \A i \in Nodes \ skipped'[n] : RightOf(memberMap'[n][i], log, seen'[n], i)
      PROVE  ViewIsPast'
  <2>1. ASSUME NEW m \in Nodes, pc'[m] \in {"listed", "watching"}, NEW i \in Nodes \ skipped'[m]
        PROVE  RightOf(memberMap'[m][i], log', seen'[m], i)
    <3>1. CASE m = n
      BY <1>5, <2>1, <3>1
    <3>2. CASE m # n
      BY <1>5, <2>1, <3>2 DEF ViewIsPast
    <3>. QED
      BY <3>1, <3>2
  <2>. QED
    BY <2>1 DEF ViewIsPast
<1>6. ASSUME NEW n \in Nodes, Get(n)
      PROVE  ViewIsPast'
  <2>1. ASSUME NEW i \in Nodes
        PROVE  RightOf(memberMap'[n][i], log, Len(log), i)
    <3>1. memberMap[n] = Nobody /\ Nobody[i] = Absent /\ Nobody \in [Nodes -> {Absent}]
      BY <1>6 DEF LoadInv, Get, Nobody
    <3>2. memberMap'[n][i] = Added(Nobody, i, TypeInStore(i))[i]
      BY <1>6, <3>1 DEF Get, TypeOK
    <3>3. memberMap'[n][i] = IF store[i] = Absent THEN Absent ELSE store[i].type
      BY <3>1, <3>2 DEF Added, TypeInStore
    <3>. QED
      BY <3>3 DEF LogInv
  <2>2. seen'[n] = Len(log) /\ log' = log
    BY <1>6 DEF TypeOK, Get, etcdVars
  <2>. QED
    BY <1>5, <1>6, <2>1, <2>2 DEF TypeOK, Get
<1>7. ASSUME NEW n \in Nodes, Watch(n)
      PROVE  ViewIsPast'
  <2>1. ASSUME NEW i \in Nodes \ skipped'[n]
        PROVE  RightOf(memberMap[n][i], log, Len(log), i)
    <3>1. seen[n] \in Nat /\ Len(log) \in Nat /\ seen[n] <= Len(log)
      BY DEF TypeOK
    <3>2. skipped'[n] = {log[k].id : k \in (seen[n] + 1)..Len(log)} /\ skipped[n] = {}
      BY <1>7 DEF TypeOK, LoadInv, Watch
    <3>3. \A j \in (seen[n] + 1)..Len(log) : log[j].id # i
      BY <3>2, <2>1
    <3>4. Known(log, Len(log), i) = Known(log, seen[n], i)
      BY <3>1, <3>3, KnownSame
    <3>. QED
      BY <1>7, <3>2, <3>4 DEF ViewIsPast, Watch
  <2>2. seen'[n] = Len(log) /\ log' = log /\ memberMap' = memberMap
    BY <1>7 DEF TypeOK, Watch, etcdVars
  <2>. QED
    BY <1>5, <1>7, <2>1, <2>2 DEF TypeOK, Watch
<1>8. ASSUME NEW n \in Nodes, Event(n)
      PROVE  ViewIsPast'
  <2>1. seen[n] \in Nat /\ seen[n] + 1 \in 1..Len(log) /\ log' = log /\ seen'[n] = seen[n] + 1
    BY <1>8 DEF TypeOK, Event, etcdVars
  <2>2. log[seen[n] + 1] \in Changes
    BY <2>1 DEF TypeOK
  <2>3. ASSUME NEW i \in Nodes \ skipped'[n]
        PROVE  RightOf(memberMap'[n][i], log, seen[n] + 1, i)
    <3>1. RightOf(memberMap[n][i], log, seen[n], i)
      BY <1>8 DEF ViewIsPast, Event
    <3>2. Known(log, seen[n] + 1, i) =
            IF log[seen[n] + 1].id # i THEN Known(log, seen[n], i)
            ELSE IF log[seen[n] + 1].op = "put"
                 THEN Known(log, seen[n], i) \cup {log[seen[n] + 1].type}
            ELSE {}
      BY <2>1, KnownNext
    <3>3. CASE log[seen[n] + 1].op = "put"
      <4>1. memberMap'[n] = Added(memberMap[n], log[seen[n] + 1].id, log[seen[n] + 1].type)
        BY <1>8, <3>3 DEF TypeOK, Event
      <4>2. memberMap'[n][i] = IF log[seen[n] + 1].id = i /\ memberMap[n][i] = Absent
                               THEN log[seen[n] + 1].type ELSE memberMap[n][i]
        BY <4>1, <2>2 DEF TypeOK, Added, Changes
      <4>3. memberMap[n][i] # Absent => Known(log, seen[n], i) # {} /\ memberMap[n][i] \in Known(log, seen[n], i)
        BY <3>1
      <4>. QED
        BY <3>1, <3>2, <3>3, <4>2, <4>3
    <3>4. CASE log[seen[n] + 1].op # "put"
      <4>1. memberMap'[n] = [memberMap[n] EXCEPT ![log[seen[n] + 1].id] = Absent]
        BY <1>8, <3>4 DEF TypeOK, Event
      <4>2. memberMap'[n][i] = IF log[seen[n] + 1].id = i THEN Absent ELSE memberMap[n][i]
        BY <4>1, <2>2 DEF TypeOK, Changes
      <4>. QED
        BY <3>1, <3>2, <3>4, <4>2
    <3>. QED
      BY <3>3, <3>4
  <2>. QED
    BY <1>5, <1>8, <2>1, <2>3 DEF TypeOK, Event
<1>9. ASSUME NEW n \in Nodes, Leave(n)
      PROVE  ViewIsPast'
  BY <1>5, <1>9 DEF TypeOK, Leave, etcdVars
<1>10. CASE UNCHANGED vars
  BY <1>1, <1>10 DEF vars, etcdVars
<1>. QED
  BY <1>2, <1>3, <1>4, <1>6, <1>7, <1>8, <1>9, <1>10 DEF Next, Load

(* The expiry of an old lease meets a key under a newer one.               *)
LEMMA RestartStep ==
  ASSUME Inv, [Next]_vars
  PROVE  RestartKeepsKey'
<1>. USE DEF Inv
<1>1. ASSUME NEW n \in Nodes, NEW t \in Types, GetLeaseId(n, t)
      PROVE  RestartKeepsKey'
  BY <1>1 DEF RestartKeepsKey, TypeOK, GetLeaseId
<1>2. ASSUME NEW n \in Nodes, Register(n)
      PROVE  RestartKeepsKey'
  <2>1. [type |-> type[n], lease |-> starts[n]] # Absent
    <3>1. type[n] \in Types /\ starts[n] \in Nat
      BY <1>2 DEF LoadInv, TypeOK, Register
    <3>. QED
      BY <3>1, ConstantsOK DEF ConstantsOK
  <2>. QED
    BY <1>2, <2>1 DEF RestartKeepsKey, TypeOK, Register
<1>3. ASSUME NEW n \in Nodes, Get(n) \/ Watch(n) \/ Event(n) \/ Leave(n)
      PROVE  RestartKeepsKey'
  BY <1>3 DEF RestartKeepsKey, TypeOK, Get, Watch, Event, Leave, etcdVars
<1>4. ASSUME NEW n \in Nodes, NEW k \in 1..MaxStarts, Expire(n, k)
      PROVE  RestartKeepsKey'
  <2>1. /\ UNCHANGED <<starts, pc>> /\ leases' = leases \ {<<n, k>>}
        /\ \A m \in Nodes \ {n} : store'[m] = store[m]
        /\ store[n] # Absent /\ store[n].lease # k => store'[n] = store[n]
    BY <1>4 DEF Expire, TypeOK
  <2>. QED
    BY <2>1 DEF RestartKeepsKey
<1>5. CASE UNCHANGED vars
  BY <1>5 DEF RestartKeepsKey, vars, etcdVars
<1>. QED
  BY <1>1, <1>2, <1>3, <1>4, <1>5 DEF Next, Load

-------------------------------------------------------------------------------
(* The invariant holds in every reachable state.                           *)
THEOREM Invariance == Spec => []Inv
<1>1. Init => Inv
  <2>. SUFFICES ASSUME Init
                PROVE  Inv
    OBVIOUS
  <2>1. TypeOK
    BY ConstantsOK, EmptySeq DEF ConstantsOK, Init, TypeOK, Nobody
  <2>2. LoadInv /\ ViewIsPast /\ RestartKeepsKey
    BY EmptySeq DEF Init, LoadInv, ViewIsPast, RestartKeepsKey
  <2>3. LogInv
    <3>1. Len(log) = 0 /\ 1..0 = {}
      BY EmptySeq DEF Init
    <3>2. \A i : Known(log, Len(log), i) = {}
      BY <3>1 DEF Known
    <3>. QED
      BY <3>2 DEF Init, LogInv, Nobody
  <2>. QED
    BY <2>1, <2>2, <2>3 DEF Inv
<1>2. Inv /\ [Next]_vars => Inv'
  BY TypeStep, LoadStep, LogStep, ViewStep, RestartStep DEF Inv
<1>. QED
  BY <1>1, <1>2, PTL DEF Spec

(* discovery.go, discovery_etcd.go: the state keeps its types.             *)
THEOREM TypeCorrect == Spec => []TypeOK
<1>1. Inv => TypeOK
  BY DEF Inv
<1>. QED
  BY <1>1, Invariance, PTL

(* discovery_etcd.go:141-169, discovery.go:82-90: a node knows who was in  *)
(* etcd, each with a type that it had since it was last away.              *)
THEOREM ViewsArePast == Spec => []ViewIsPast
<1>1. Inv => ViewIsPast
  BY DEF Inv
<1>. QED
  BY <1>1, Invariance, PTL

(* discovery_etcd.go:120-139: a restarted node keeps its key.              *)
THEOREM KeyIsKept == Spec => []RestartKeepsKey
<1>1. Inv => RestartKeepsKey
  BY DEF Inv
<1>. QED
  BY <1>1, Invariance, PTL
===============================================================================
