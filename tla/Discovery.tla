------------------------------- MODULE Discovery -------------------------------
(***************************************************************************)
(* Service discovery, framework/pkg/discovery: every node registers itself *)
(* in etcd under a lease and keeps a map of the members, which it fills    *)
(* from one Get and then from a Watch (discovery_etcd.go, discovery.go).   *)
(*                                                                         *)
(* Outside the code: etcd, a store with a log of its changes; a watch sees *)
(* the changes made after it was created, in order.  A lease is kept alive *)
(* by the client library as long as the process reaches etcd; a process    *)
(* that is gone, or cut off for longer than the time to live, loses it.    *)
(* A failing call of etcd during Load ends the process (log.Fatal), which  *)
(* is Leave.  OnStop does not delete the key: the component's OnStop calls *)
(* Stop, which does nothing, so a node that stops also just leaves.        *)
(***************************************************************************)
EXTENDS Integers, Sequences

CONSTANTS
  Nodes,        \* node ids, each used by one process at a time
  Types,        \* node types
  Watchers,     \* bound: the nodes whose views are followed; all of them have one
  Absent,       \* no member
  MaxStarts     \* bound: how often the process of a node starts

ASSUME ConstantsOK ==
  /\ Watchers \subseteq Nodes /\ MaxStarts \in Nat
  /\ Absent \notin Types \cup [type : Types, lease : Nat]

VARIABLES
  store,        \* etcd: the key of each node, as [type, lease], or Absent
  log,          \* etcd: the changes of the store
  leases,       \* etcd: leases that have not expired, as <<node, start>>
  starts,       \* how often each node has started
  pc,           \* where the process of each node is in Load
  type,         \* the node type it registers
  memberMap,    \* n.memberMap of each node: node id -> type, or Absent
  seen,         \* how many changes its Get and its Watch have covered
  skipped       \* history: members that changed between its Get and its Watch

etcdVars == <<store, log, leases>>
vars == <<etcdVars, starts, pc, type, memberMap, seen, skipped>>

Nobody == [i \in Nodes |-> Absent]
TypeInStore(i) == IF store[i] = Absent THEN Absent ELSE store[i].type

Init ==
  /\ store = Nobody /\ log = <<>> /\ leases = {}
  /\ starts = [n \in Nodes |-> 0]
  /\ pc = [n \in Nodes |-> "down"]
  /\ type = [n \in Nodes |-> Absent]
  /\ memberMap = [n \in Nodes |-> Nobody]
  /\ seen = [n \in Nodes |-> 0]
  /\ skipped = [n \in Nodes |-> {}]

-------------------------------------------------------------------------------
(* Load: getLeaseId, register, watch.                                      *)

GetLeaseId(n, t) ==
  /\ pc[n] = "down" /\ starts[n] < MaxStarts
  /\ starts' = [starts EXCEPT ![n] = @ + 1]
  /\ leases' = leases \cup {<<n, starts[n] + 1>>}
  /\ type' = [type EXCEPT ![n] = t]
  /\ pc' = [pc EXCEPT ![n] = "leased"]
  /\ UNCHANGED <<store, log, memberMap, seen, skipped>>

\* Faulty variant: the key is written without a lease of this process.
Register_OldLease(n) ==
  /\ pc[n] = "leased" /\ <<n, starts[n]>> \in leases
  /\ store' = [store EXCEPT ![n] = [type |-> type[n], lease |-> 1]]
  /\ log' = Append(log, [op |-> "put", id |-> n, type |-> type[n]])
  /\ pc' = [pc EXCEPT ![n] = "registered"]
  /\ UNCHANGED <<leases, starts, type, memberMap, seen, skipped>>

Register(n) ==
  /\ pc[n] = "leased" /\ <<n, starts[n]>> \in leases
  /\ store' = [store EXCEPT ![n] = [type |-> type[n], lease |-> starts[n]]]
  /\ log' = Append(log, [op |-> "put", id |-> n, type |-> type[n]])
  /\ pc' = [pc EXCEPT ![n] = "registered"]
  /\ UNCHANGED <<leases, starts, type, memberMap, seen, skipped>>

(* AddMember: LoadOrStore, so a member that is known keeps its type.       *)
Added(known, i, t) == IF known[i] = Absent THEN [known EXCEPT ![i] = t] ELSE known

Get(n) ==
  /\ n \in Watchers
  /\ pc[n] = "registered"
  /\ memberMap' = [memberMap EXCEPT
       ![n] = [i \in Nodes |-> Added(@, i, TypeInStore(i))[i]]]
  /\ seen' = [seen EXCEPT ![n] = Len(log)]
  /\ pc' = [pc EXCEPT ![n] = "listed"]
  /\ UNCHANGED <<etcdVars, starts, type, skipped>>

\* Faulty variant: the watch starts one revision too late.
Watch_Late(n) ==
  /\ pc[n] = "listed"
  /\ skipped' = [skipped EXCEPT ![n] = {log[k].id : k \in (seen[n] + 1)..Len(log)}]
  /\ seen' = [seen EXCEPT ![n] = Len(log) + 1]
  /\ pc' = [pc EXCEPT ![n] = "watching"]
  /\ UNCHANGED <<etcdVars, starts, type, memberMap>>

(* The Watch names no revision: it starts with the next change.            *)
Watch(n) ==
  /\ pc[n] = "listed"
  /\ skipped' = [skipped EXCEPT ![n] = {log[k].id : k \in (seen[n] + 1)..Len(log)}]
  /\ seen' = [seen EXCEPT ![n] = Len(log)]
  /\ pc' = [pc EXCEPT ![n] = "watching"]
  /\ UNCHANGED <<etcdVars, starts, type, memberMap>>

\* Faulty variant: only PUT events are handled.
Event_PutOnly(n) ==
  /\ pc[n] = "watching" /\ seen[n] < Len(log)
  /\ LET ev == log[seen[n] + 1]
     IN  memberMap' = [memberMap EXCEPT
           ![n] = IF ev.op = "put" THEN Added(@, ev.id, ev.type) ELSE @]
  /\ seen' = [seen EXCEPT ![n] = @ + 1]
  /\ UNCHANGED <<etcdVars, starts, pc, type, skipped>>

\* Faulty variant: the goroutine ends after a DELETE.
Event_StopOnDelete(n) ==
  /\ pc[n] = "watching" /\ seen[n] < Len(log)
  /\ log[seen[n] + 1].op = "put"
  /\ memberMap' = [memberMap EXCEPT
       ![n] = Added(@, log[seen[n] + 1].id, log[seen[n] + 1].type)]
  /\ seen' = [seen EXCEPT ![n] = @ + 1]
  /\ UNCHANGED <<etcdVars, starts, pc, type, skipped>>

(* addMember or removeMember for the next event of the watch.              *)
Event(n) ==
  /\ pc[n] = "watching" /\ seen[n] < Len(log)
  /\ LET ev == log[seen[n] + 1]
     IN  memberMap' = [memberMap EXCEPT
           ![n] = IF ev.op = "put" THEN Added(@, ev.id, ev.type)
                                   ELSE [@ EXCEPT ![ev.id] = Absent]]
  /\ seen' = [seen EXCEPT ![n] = @ + 1]
  /\ UNCHANGED <<etcdVars, starts, pc, type, skipped>>

-------------------------------------------------------------------------------
(* Outside: processes end, leases expire.                                  *)

Leave(n) ==
  /\ pc[n] # "down"
  /\ pc' = [pc EXCEPT ![n] = "down"]
  /\ memberMap' = [memberMap EXCEPT ![n] = Nobody]
  /\ seen' = [seen EXCEPT ![n] = 0]
  /\ skipped' = [skipped EXCEPT ![n] = {}]
  /\ UNCHANGED <<etcdVars, starts, type>>

Expire(n, k) ==
  /\ <<n, k>> \in leases
  /\ leases' = leases \ {<<n, k>>}
  /\ IF store[n] # Absent /\ store[n].lease = k
     THEN /\ store' = [store EXCEPT ![n] = Absent]
          /\ log' = Append(log, [op |-> "delete", id |-> n, type |-> Absent])
     ELSE UNCHANGED <<store, log>>
  /\ UNCHANGED <<starts, pc, type, memberMap, seen, skipped>>

Load(n) == Register(n) \/ Get(n) \/ Watch(n)

Next ==
  \E n \in Nodes :
    \/ \E t \in Types : GetLeaseId(n, t)
    \/ Load(n) \/ Event(n) \/ Leave(n)
    \/ \E k \in 1..MaxStarts : Expire(n, k)

(* Load goes on and the watch goroutine runs; the lease of a process that  *)
(* has gone expires.  The other steps need not happen.                     *)
Fairness ==
  \A n \in Nodes :
    /\ WF_vars(Load(n)) /\ WF_vars(Event(n))
    /\ \A k \in 1..MaxStarts : WF_vars((pc[n] = "down" \/ k < starts[n]) /\ Expire(n, k))

Spec == Init /\ [][Next]_vars /\ Fairness

-------------------------------------------------------------------------------
(* Properties.                                                             *)

Leases  == Nodes \X (1..MaxStarts)
Changes == [op : {"put", "delete"}, id : Nodes, type : Types \cup {Absent}]

TypeOK ==
  /\ store \in [Nodes -> [type : Types, lease : 1..MaxStarts] \cup {Absent}]
  /\ log \in Seq(Changes)
  /\ leases \in SUBSET Leases
  /\ starts \in [Nodes -> 0..MaxStarts]
  /\ pc \in [Nodes -> {"down", "leased", "registered", "listed", "watching"}]
  /\ type \in [Nodes -> Types \cup {Absent}]
  /\ memberMap \in [Nodes -> [Nodes -> Types \cup {Absent}]]
  /\ seen \in [Nodes -> 0..Len(log)]
  /\ skipped \in [Nodes -> SUBSET Nodes]

(* The types under which member i has registered, in the first k changes   *)
(* of a log, since it was last away.                                       *)
Known(changes, k, i) ==
  {changes[j].type : j \in {j \in 1..k :
     /\ changes[j].id = i /\ changes[j].op = "put"
     /\ \A l \in (j + 1)..k : changes[l].id = i => changes[l].op = "put"}}

(* discovery_etcd.go:141-169, discovery.go:82-90: as of the last change it *)
(* has handled, a node knows the members that were in etcd then and no     *)
(* other, each with a type that it had registered since it was last away:  *)
(* one that has come back as another type before its DELETE keeps the      *)
(* former type.  Only members that changed between Get and Watch may be    *)
(* wrong.                                                                  *)
ViewIsPast ==
  \A n \in Nodes : pc[n] \in {"listed", "watching"} =>
    \A i \in Nodes \ skipped[n] :
      IF Known(log, seen[n], i) = {} THEN memberMap[n][i] = Absent
      ELSE memberMap[n][i] \in Known(log, seen[n], i)

(* discovery_etcd.go:120-139: a node that starts again before the lease of *)
(* its former process has expired is not deregistered by that expiry.      *)
RestartKeepsKey ==
  \A n \in Nodes :
    pc[n] \in {"registered", "listed", "watching"} /\ <<n, starts[n]>> \in leases =>
      store[n] # Absent /\ store[n].lease = starts[n]

(* Where the view of n must in the end agree with etcd. *)
Agree(n, i) == memberMap[n][i] # Absent <=> store[i] # Absent

(* discovery_etcd.go:141-169: nodes come, go and come again in any order,  *)
(* and in the end every node knows who is there (not as which type, see    *)
(* ViewIsPast); members that changed between its Get and its Watch excepted.*)
ViewConverges ==
  \A n, i \in Nodes : <>[](pc[n] = "watching" /\ i \notin skipped[n] => Agree(n, i))
===============================================================================
