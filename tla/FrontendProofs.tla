---------------------------- MODULE FrontendProofs ----------------------------
(* Theorems about Frontend.tla, for any components, connectors, clients    *)
(* and capacity.                                                           *)
EXTENDS Frontend, TLAPS, FiniteSetTheorems, SequenceTheorems

Names == ToSet(Nodes) \cup {NameOf[x] : x \in All} \cup UNION {ToSet(b) : b \in Batches}
Methods == {"Init", "OnAfterInit", "OnBeforeStop", "OnStop"}

(* What is called at the i-th place in a life.                             *)
Due(n, cs, i) ==
  IF i <= n THEN <<"Init", cs[i]>>
  ELSE IF i <= 2 * n THEN <<"OnAfterInit", cs[i - n]>>
  ELSE IF i <= 3 * n THEN <<"OnBeforeStop", cs[3 * n + 1 - i]>>
  ELSE <<"OnStop", cs[4 * n + 1 - i]>>

(* How many calls there have been.                                         *)
Position(n, k) ==
  /\ phase \in {"new", "Register"} => k = 0 /\ at > 0
  /\ phase = "new" => at = 1
  /\ phase = "Init" => at > 0 /\ k = at - 1
  /\ phase = "OnAfterInit" => at > 0 /\ k = n + at - 1
  /\ phase = "up" => at = 0 /\ k = 2 * n
  /\ phase = "OnBeforeStop" => at <= n /\ k = 3 * n - at
  /\ phase = "OnStop" => at <= n /\ k = 4 * n - at
  /\ phase = "ended" => at = 0 /\ k = 4 * n

CallInv ==
  /\ components \in Seq(Names) /\ calls \in Seq(Methods \X Names)
  /\ Position(Len(components), Len(calls))
  /\ \A i \in 1..Len(calls) : calls[i] = Due(Len(components), components, i)

(* The component at i has not been stopped.                                *)
Early == {"new", "Register", "Init"}
Stopped(i) == phase = "ended" \/ (phase = "OnStop" /\ i > at)

(* The connection to NATS belongs to a component that is not yet stopped.  *)
NatsInv ==
  /\ chClosed => recvPc # "receiving"
  /\ connected \/ recvPc = "receiving" =>
       /\ phase \notin {"new", "Register"}
       /\ \E i \in 1..Len(components) : components[i] = "cluster" /\ ~Stopped(i)

ListenInv ==
  \A i \in 1..Len(components) : Stopped(i) =>
    \A x \in ConnectorOf(components[i]) : listener[x] = "closed" \/ x \in overtaken

(* The parser starts each connector once.                                  *)
StartInv ==
  \A x \in All : startPc[x] # "none" =>
    /\ phase \notin Early
    /\ phase = "OnAfterInit" => \E i \in 1..(at - 1) : components[i] = "net_parser"

(* What comes of a client: it finds a listener, and is in one place.       *)
ClientInv ==
  /\ \A k \in Conns : connPc[k] # "none" => listener[Via[k]] # "none"
  /\ \A x \in All :
       /\ IsInjective(connChan[x]) /\ IsInjective(served[x])
       /\ ToSet(connChan[x]) = {k \in Conns : Via[k] = x /\ connPc[k] = "queued"}
       /\ ToSet(served[x]) = {k \in Conns : Via[k] = x /\ connPc[k] = "served"}

(* The clients of a TCPConnector keep the order in which they dialled.     *)
OrderInv ==
  /\ \A k \in Conns : \A j \in Before(k) : connPc[k] # "none" => connPc[j] # "none"
  /\ \A k \in Conns : Via[k] \in TCP =>
       /\ connPc[k] \in {"accepted", "queued", "served"} =>
            \A j \in Before(k) : connPc[j] \in {"queued", "served"}
       /\ connPc[k] = "served" => \A j \in Before(k) : connPc[j] = "served"
       /\ listener[Via[k]] = "open" => connPc[k] # "reset"
  /\ \A x \in TCP : \A i, j \in 1..Len(connChan[x]) : i < j => connChan[x][i] < connChan[x][j]

Inv ==
  TypeOK /\ CallInv /\ NatsInv /\ StartInv /\ ListenInv /\ ClientInv /\ OrderInv

-------------------------------------------------------------------------------
(* Registration.                                                           *)

LEMMA IntervalSize ==
  ASSUME NEW n \in Nat
  PROVE  IsFiniteSet(1..n) /\ Cardinality(1..n) = n
BY FS_Interval

(* Register takes components up to the first that it refuses.              *)
LEMMA AcceptedIsPrefix ==
  ASSUME NEW cs \in Seq(Names), NEW batch \in Seq(Names)
  PROVE  /\ Cardinality(Accepted(cs, batch)) \in 0..Len(batch)
         /\ \A i \in 1..Cardinality(Accepted(cs, batch)) : IsNew(cs, batch, i)
<1>. DEFINE P == Accepted(cs, batch)
            n == Cardinality(P)
<1>1. Len(batch) \in Nat /\ P \subseteq 1..Len(batch)
  BY DEF Accepted
<1>2. IsFiniteSet(1..Len(batch)) /\ Cardinality(1..Len(batch)) = Len(batch)
  BY <1>1, IntervalSize
<1>3. IsFiniteSet(P) /\ n \in Nat /\ n <= Len(batch)
  BY <1>1, <1>2, FS_Subset, FS_CardinalityType
<1>4. P \subseteq 1..n
  <2>. SUFFICES ASSUME NEW m \in P
                PROVE  m <= n
    BY <1>1, <1>3
  <2>1. m \in 1..Len(batch) /\ 1..m \subseteq P
    BY <1>1 DEF Accepted
  <2>2. IsFiniteSet(1..m) /\ Cardinality(1..m) = m
    BY <1>1, <2>1, IntervalSize
  <2>. QED
    BY <1>3, <2>1, <2>2, FS_Subset
<1>5. P = 1..n
  <2>1. IsFiniteSet(1..n) /\ Cardinality(1..n) = n
    BY <1>3, IntervalSize
  <2>. QED
    BY <1>4, <2>1, FS_Subset
<1>6. \A i \in P : IsNew(cs, batch, i)
  BY <1>1 DEF Accepted
<1>. QED
  BY <1>1, <1>3, <1>5, <1>6

LEMMA RegisteredIsProper ==
  ASSUME NEW cs \in Seq(Names), NEW batch \in Seq(Names), Nil \notin ToSet(cs), IsInjective(cs)
  PROVE  /\ Registered(cs, batch) \in Seq(Names)
         /\ Nil \notin ToSet(Registered(cs, batch)) /\ IsInjective(Registered(cs, batch))
<1>1. PICK n \in 0..Len(batch) : /\ n = Cardinality(Accepted(cs, batch))
                                 /\ \A i \in 1..n : IsNew(cs, batch, i)
  BY AcceptedIsPrefix
<1>2. PICK add : add = SubSeq(batch, 1, n)
  OBVIOUS
<1>3. /\ add \in Seq(Names) /\ Len(add) = n /\ DOMAIN add = 1..n
      /\ \A i \in 1..n : add[i] = batch[i]
  <2>1. \A i \in 1..n : batch[i] \in Names
    BY <1>1
  <2>2. add \in Seq(Names) /\ Len(add) = n /\ \A i \in 1..n : add[i] = batch[i]
    BY <1>1, <1>2, <2>1, SubSeqProperties
  <2>. QED
    BY <2>2
<1>4. PICK new \in Seq(Names) : new = cs \o add
  BY <1>3, ConcatProperties
<1>5. /\ Len(new) = Len(cs) + n /\ DOMAIN new = 1..(Len(cs) + n) /\ Len(cs) \in Nat
      /\ DOMAIN cs = 1..Len(cs)
      /\ \A i \in 1..Len(cs) : new[i] = cs[i]
      /\ \A i \in (Len(cs) + 1)..(Len(cs) + n) :
           i - Len(cs) \in 1..n /\ new[i] = batch[i - Len(cs)]
  <2>1. /\ Len(new) = Len(cs) + Len(add)
        /\ \A i \in 1..(Len(cs) + Len(add)) :
             new[i] = IF i <= Len(cs) THEN cs[i] ELSE add[i - Len(cs)]
    BY <1>3, <1>4, ConcatProperties
  <2>2. DOMAIN new = 1..Len(new) /\ DOMAIN cs = 1..Len(cs) /\ Len(cs) \in Nat
    OBVIOUS
  <2>3. \A i \in (Len(cs) + 1)..(Len(cs) + n) : i - Len(cs) \in 1..n
    BY <1>1, <2>2
  <2>. QED
    BY <1>1, <1>3, <2>1, <2>2, <2>3
<1>6. \A i \in 1..n : /\ batch[i] # Nil /\ \A j \in 1..Len(cs) : cs[j] # batch[i]
                      /\ \A j \in 1..(i - 1) : batch[j] # batch[i]
  BY <1>1 DEF IsNew, Find, Contains
<1>7. Nil \notin ToSet(new)
  <2>1. \A i \in 1..Len(cs) : cs[i] # Nil
    BY <1>5 DEF ToSet
  <2>2. \A i \in (Len(cs) + 1)..(Len(cs) + n) : new[i] # Nil
    BY <1>5, <1>6
  <2>3. DOMAIN new = (1..Len(cs)) \cup ((Len(cs) + 1)..(Len(cs) + n))
    BY <1>5
  <2>. QED
    BY <1>5, <2>1, <2>2, <2>3 DEF ToSet
<1>8. IsInjective(new)
  <2>1. \A i, j \in 1..Len(cs) : cs[i] = cs[j] => i = j
    BY <1>5 DEF IsInjective
  <2>2. \A i, j \in 1..n : batch[i] = batch[j] => i = j
    <3>. SUFFICES ASSUME NEW i \in 1..n, NEW j \in 1..n, i < j
                  PROVE  batch[i] # batch[j]
      OBVIOUS
    <3>1. i \in 1..(j - 1)
      OBVIOUS
    <3>. QED
      BY <1>6, <3>1
  <2>3. ASSUME NEW i \in DOMAIN new, NEW j \in DOMAIN new, new[i] = new[j]
        PROVE  i = j
    <3>. i \in 1..Len(cs) \/ i \in (Len(cs) + 1)..(Len(cs) + n)
      BY <1>1, <1>5
    <3>. j \in 1..Len(cs) \/ j \in (Len(cs) + 1)..(Len(cs) + n)
      BY <1>1, <1>5
    <3>1. CASE i \in 1..Len(cs) /\ j \in 1..Len(cs)
      BY <1>5, <2>1, <2>3, <3>1
    <3>2. CASE i \in 1..Len(cs) /\ j \in (Len(cs) + 1)..(Len(cs) + n)
      BY <1>5, <1>6, <2>3, <3>2
    <3>3. CASE i \in (Len(cs) + 1)..(Len(cs) + n) /\ j \in 1..Len(cs)
      BY <1>5, <1>6, <2>3, <3>3
    <3>4. CASE i \in (Len(cs) + 1)..(Len(cs) + n) /\ j \in (Len(cs) + 1)..(Len(cs) + n)
      <4>1. i - Len(cs) = j - Len(cs)
        BY <1>5, <2>2, <2>3, <3>4
      <4>. QED
        BY <1>5, <4>1, <3>4
    <3>. QED
      BY <3>1, <3>2, <3>3, <3>4
  <2>. QED
    BY <2>3 DEF IsInjective
<1>. QED
  BY <1>1, <1>2, <1>4, <1>7, <1>8 DEF Registered

LEMMA RemovedIsProper ==
  ASSUME NEW cs \in Seq(Names), NEW k \in 1..Len(cs), Nil \notin ToSet(cs), IsInjective(cs)
  PROVE  /\ RemoveAt(cs, k) \in Seq(Names)
         /\ Nil \notin ToSet(RemoveAt(cs, k)) /\ IsInjective(RemoveAt(cs, k))
<1>1. PICK n \in Nat : n = Len(cs) /\ n > 0 /\ k <= n /\ DOMAIN cs = 1..n /\ \A i \in 1..n : cs[i] \in Names
  OBVIOUS
<1>2. PICK a, b : a = SubSeq(cs, 1, k - 1) /\ b = SubSeq(cs, k + 1, n)
  OBVIOUS
<1>3. a \in Seq(Names) /\ Len(a) = k - 1 /\ \A i \in 1..(k - 1) : a[i] = cs[i]
  <2>1. \A i \in 1..(k - 1) : cs[i] \in Names
    BY <1>1
  <2>. QED
    BY <1>1, <1>2, <2>1, SubSeqProperties
<1>4. b \in Seq(Names) /\ Len(b) = n - k /\ \A i \in 1..(n - k) : b[i] = cs[k + i]
  <2>1. \A i \in (k + 1)..n : cs[i] \in Names
    BY <1>1
  <2>2. b \in Seq(Names) /\ Len(b) = (IF k + 1 <= n THEN n - (k + 1) + 1 ELSE 0)
        /\ \A i \in 1..(n - (k + 1) + 1) : b[i] = cs[k + 1 + i - 1]
    BY <1>1, <1>2, <2>1, SubSeqProperties
  <2>. QED
    <3>1. n - (k + 1) + 1 = n - k /\ \A i \in 1..(n - k) : k + 1 + i - 1 = k + i
      BY <1>1
    <3>2. Len(b) = n - k
      BY <1>1, <2>2
    <3>. QED
      BY <2>2, <3>1, <3>2
<1>5. PICK new \in Seq(Names) : new = a \o b
  BY <1>3, <1>4, ConcatProperties
<1>6. /\ DOMAIN new = 1..(n - 1)
      /\ \A i \in 1..(n - 1) : new[i] = IF i <= k - 1 THEN cs[i] ELSE cs[i + 1]
  <2>1. /\ Len(new) = Len(a) + Len(b)
        /\ \A i \in 1..(Len(a) + Len(b)) : new[i] = IF i <= Len(a) THEN a[i] ELSE b[i - Len(a)]
    BY <1>3, <1>4, <1>5, ConcatProperties
  <2>2. DOMAIN new = 1..(n - 1)
        /\ \A i \in 1..(n - 1) : new[i] = IF i <= k - 1 THEN a[i] ELSE b[i - (k - 1)]
    BY <1>1, <1>3, <1>4, <2>1
  <2>3. \A i \in 1..(k - 1) : a[i] = cs[i]
    BY <1>3
  <2>4. ASSUME NEW i \in 1..(n - 1), ~(i <= k - 1)
        PROVE  b[i - (k - 1)] = cs[i + 1]
    <3>1. i - (k - 1) \in 1..(n - k) /\ k + (i - (k - 1)) = i + 1
      BY <1>1, <2>4
    <3>. QED
      BY <1>4, <3>1
  <2>. QED
    <3>1. ASSUME NEW i \in 1..(n - 1)
          PROVE  new[i] = IF i <= k - 1 THEN cs[i] ELSE cs[i + 1]
      <4>1. CASE i <= k - 1
        BY <1>1, <2>2, <2>3, <4>1
      <4>2. CASE ~(i <= k - 1)
        BY <2>2, <2>4, <4>2
      <4>. QED
        BY <4>1, <4>2
    <3>. QED
      BY <2>2, <3>1
<1>7. Nil \notin ToSet(new)
  BY <1>1, <1>6 DEF ToSet
<1>8. IsInjective(new)
  <2>1. \A i, j \in 1..n : cs[i] = cs[j] => i = j
    BY <1>1 DEF IsInjective
  <2>. QED
    BY <1>1, <1>6, <2>1 DEF IsInjective
<1>. QED
  BY <1>1, <1>2, <1>5, <1>7, <1>8 DEF RemoveAt

(* A connector is one component, and none of the node's own.               *)
LEMMA ConnectorsApart ==
  /\ \A c : ConnectorOf(c) \subseteq All /\ \A x, y \in ConnectorOf(c) : x = y
  /\ ConnectorOf("cluster") = {}
<1>1. Len(Connectors) \in Nat /\ \A i \in 1..Len(Connectors) : Connectors[i] \in All
  BY ConstantsOK DEF ConstantsOK
<1>2. \A c : ConnectorOf(c) \subseteq All /\ \A x \in ConnectorOf(c) : NameOf[x] = c
  BY <1>1 DEF ConnectorOf
<1>3. ASSUME NEW c, NEW x \in ConnectorOf(c), NEW y \in ConnectorOf(c)
      PROVE  x = y
  <2>1. PICK i \in 1..Len(Connectors) :
          /\ x = Connectors[i] /\ NameOf[Connectors[i]] = c
          /\ \A l \in 1..(i - 1) : NameOf[Connectors[l]] # c
    BY DEF ConnectorOf
  <2>2. PICK j \in 1..Len(Connectors) :
          /\ y = Connectors[j] /\ NameOf[Connectors[j]] = c
          /\ \A l \in 1..(j - 1) : NameOf[Connectors[l]] # c
    BY DEF ConnectorOf
  <2>. QED
    BY <1>1, <2>1, <2>2
<1>4. "cluster" \in ToSet(Nodes)
  <2>1. Nodes[2] = "cluster" /\ 2 \in DOMAIN Nodes
    BY DEF Nodes
  <2>. QED
    BY <2>1 DEF ToSet
<1>5. ConnectorOf("cluster") = {}
  BY <1>2, <1>4, ConstantsOK DEF ConstantsOK
<1>. QED
  BY <1>2, <1>3, <1>5

-------------------------------------------------------------------------------
(* The steps, by what they touch.                                          *)

Prepare == (\E b \in Batches : Register(b)) \/ (\E name \in Removable : RemoveByName(name))
           \/ Startup \/ RegisterConnector

LEMMA Steps ==
  ASSUME [Next]_vars
  PROVE  \/ Prepare \/ LoopEnds \/ Stop
         \/ InitCluster \/ InitOther \/ OnAfterInit \/ OnBeforeStop
         \/ StopOther \/ StopSubject \/ CloseNats
         \/ \E x \in All : StopConnector(x) \/ Listen(x) \/ ListenFails(x) \/ OnConnect(x) \/ StartReturns(x)
         \/ Subscribe \/ DeliverToClosed \/ NatsChanges
         \/ \E k \in Conns : Dial(k) \/ Accept(k) \/ UpgradeFails(k) \/ InChan(k)
         \/ UNCHANGED vars
  BY DEF Next, StartupStep, NatsStep, ConnectorStep, ConnStep, Prepare

LEMMA NodeFrame ==
  ASSUME [Next]_vars
  PROVE  UNCHANGED nodeVars \/ Prepare \/ LoopEnds \/ Stop \/ \E m \in Methods : Call(m)
<1>1. InitCluster \/ InitOther \/ OnAfterInit \/ OnBeforeStop \/ StopOther \/ CloseNats
      \/ (\E x \in All : StopConnector(x)) => \E m \in Methods : Call(m)
  BY DEF InitCluster, InitOther, OnAfterInit, OnBeforeStop, StopOther, CloseNats, StopConnector, Methods
<1>2. StopSubject \/ Subscribe \/ DeliverToClosed \/ NatsChanges \/ UNCHANGED vars
      => UNCHANGED nodeVars
  BY DEF StopSubject, Subscribe, DeliverToClosed, NatsChanges, vars
<1>3. ASSUME NEW x \in All, Listen(x) \/ ListenFails(x) \/ OnConnect(x) \/ StartReturns(x)
      PROVE  UNCHANGED nodeVars
  BY <1>3 DEF Listen, ListenFails, OnConnect, StartReturns
<1>4. ASSUME NEW k \in Conns, Dial(k) \/ Accept(k) \/ UpgradeFails(k) \/ InChan(k)
      PROVE  UNCHANGED nodeVars
  BY <1>4 DEF Dial, Accept, UpgradeFails, InChan
<1>. QED
  BY <1>1, <1>2, <1>3, <1>4, Steps

LEMMA NatsFrame ==
  ASSUME [Next]_vars
  PROVE  UNCHANGED natsVars \/ InitCluster \/ StopSubject \/ CloseNats \/ Subscribe \/ NatsChanges
<1>1. Prepare \/ LoopEnds \/ Stop => UNCHANGED natsVars
  BY DEF Prepare, Register, RemoveByName, Startup, RegisterConnector, LoopEnds, Stop
<1>2. InitOther \/ OnAfterInit \/ OnBeforeStop \/ StopOther \/ DeliverToClosed \/ UNCHANGED vars
      => UNCHANGED natsVars
  BY DEF InitOther, OnAfterInit, OnBeforeStop, StopOther, DeliverToClosed, vars
<1>3. ASSUME NEW x \in All,
             StopConnector(x) \/ Listen(x) \/ ListenFails(x) \/ OnConnect(x) \/ StartReturns(x)
      PROVE  UNCHANGED natsVars
  BY <1>3 DEF StopConnector, Listen, ListenFails, OnConnect, StartReturns
<1>4. ASSUME NEW k \in Conns, Dial(k) \/ Accept(k) \/ UpgradeFails(k) \/ InChan(k)
      PROVE  UNCHANGED natsVars
  BY <1>4 DEF Dial, Accept, UpgradeFails, InChan
<1>. QED
  BY <1>1, <1>2, <1>3, <1>4, Steps

LEMMA ListFrame ==
  ASSUME [Next]_vars
  PROVE  UNCHANGED listVars \/ OnAfterInit \/ \E x \in All : StopConnector(x) \/ Listen(x) \/ StartReturns(x)
<1>1. Prepare \/ LoopEnds \/ Stop => UNCHANGED listVars
  BY DEF Prepare, Register, RemoveByName, Startup, RegisterConnector, LoopEnds, Stop
<1>2. InitCluster \/ InitOther \/ OnBeforeStop \/ StopOther \/ StopSubject \/ CloseNats
      \/ Subscribe \/ DeliverToClosed \/ NatsChanges \/ UNCHANGED vars => UNCHANGED listVars
  BY DEF InitCluster, InitOther, OnBeforeStop, StopOther, StopSubject, CloseNats, Subscribe,
         DeliverToClosed, NatsChanges, vars
<1>3. ASSUME NEW x \in All, ListenFails(x) \/ OnConnect(x)
      PROVE  UNCHANGED listVars
  BY <1>3 DEF ListenFails, OnConnect
<1>4. ASSUME NEW k \in Conns, Dial(k) \/ Accept(k) \/ UpgradeFails(k) \/ InChan(k)
      PROVE  UNCHANGED listVars
  BY <1>4 DEF Dial, Accept, UpgradeFails, InChan
<1>. QED
  BY <1>1, <1>2, <1>3, <1>4, Steps

LEMMA ConnFrame ==
  ASSUME [Next]_vars
  PROVE  \/ UNCHANGED connVars \/ \E x \in All : StopConnector(x) \/ OnConnect(x)
         \/ \E k \in Conns : Dial(k) \/ Accept(k) \/ UpgradeFails(k) \/ InChan(k)
<1>1. Prepare \/ LoopEnds \/ Stop => UNCHANGED connVars
  BY DEF Prepare, Register, RemoveByName, Startup, RegisterConnector, LoopEnds, Stop
<1>2. InitCluster \/ InitOther \/ OnAfterInit \/ OnBeforeStop \/ StopOther \/ StopSubject \/ CloseNats
      \/ Subscribe \/ DeliverToClosed \/ NatsChanges \/ UNCHANGED vars => UNCHANGED connVars
  BY DEF InitCluster, InitOther, OnAfterInit, OnBeforeStop, StopOther, StopSubject, CloseNats,
         Subscribe, DeliverToClosed, NatsChanges, vars
<1>3. ASSUME NEW x \in All, Listen(x) \/ ListenFails(x) \/ StartReturns(x)
      PROVE  UNCHANGED connVars
  BY <1>3 DEF Listen, ListenFails, StartReturns
<1>. QED
  BY <1>1, <1>2, <1>3, Steps

-------------------------------------------------------------------------------
(* The calls of a life.                                                    *)

Phases == {"new", "Register", "Init", "OnAfterInit", "up", "OnBeforeStop", "OnStop", "ended"}

NodeTypes ==
  /\ Nil \notin ToSet(components) /\ IsInjective(components) /\ unregistered \subseteq Batches
  /\ phase \in Phases
  /\ at \in 0..(1 + IF phase = "Register" THEN Len(Connectors) ELSE Len(components))

LEMMA NodeStep ==
  ASSUME Inv, [Next]_vars
  PROVE  NodeTypes' /\ CallInv'
<1>. USE DEF Inv
<1>1. /\ NodeTypes /\ CallInv /\ components \in Seq(Names) /\ calls \in Seq(Methods \X Names)
      /\ Len(components) \in Nat /\ Len(calls) \in Nat /\ Len(Connectors) \in Nat
  <2>1. NodeTypes
    BY DEF NodeTypes, TypeOK, Phases
  <2>2. components \in Seq(Names) /\ calls \in Seq(Methods \X Names)
    BY DEF CallInv
  <2>3. CallInv
    OBVIOUS
  <2>4. Len(Connectors) \in Nat
    BY ConstantsOK DEF ConstantsOK
  <2>. QED
    BY <2>1, <2>2, <2>3, <2>4
<1>2. CASE UNCHANGED nodeVars
  BY <1>1, <1>2 DEF nodeVars, NodeTypes, CallInv, Position
<1>3. ASSUME phase \in {"new", "Register"}, phase' = phase, calls' = calls,
             components' \in Seq(Names), Nil \notin ToSet(components'), IsInjective(components'),
             unregistered' \subseteq Batches, at' \in Nat, at' > 0, phase = "new" => at' = 1,
             phase = "Register" => at' <= Len(Connectors) + 1
      PROVE  NodeTypes' /\ CallInv'
  <2>1. Len(calls) = 0 /\ Len(components') \in Nat
    BY <1>1, <1>3 DEF CallInv, Position
  <2>2. Position(Len(components), Len(calls))'
    BY <1>3, <2>1 DEF Position
  <2>3. CallInv'
    BY <1>1, <1>3, <2>1, <2>2 DEF CallInv
  <2>4. NodeTypes'
    BY <1>1, <1>3, <2>1 DEF NodeTypes
  <2>. QED
    BY <2>3, <2>4
<1>4. ASSUME NEW b \in Batches, Register(b)
      PROVE  NodeTypes' /\ CallInv'
  <2>1. b \in Seq(Names)
    <3>1. b \in Seq(ToSet(b)) /\ ToSet(b) \subseteq Names
      BY ConstantsOK DEF ConstantsOK, Names
    <3>. QED
      BY <3>1, SeqMonotonic
  <2>2. /\ components' \in Seq(Names) /\ Nil \notin ToSet(components') /\ IsInjective(components')
    BY <1>1, <1>4, <2>1, RegisteredIsProper DEF Register, NodeTypes
  <2>. QED
    BY <1>1, <1>3, <1>4, <2>2 DEF Register, CallInv, Position, NodeTypes
<1>5. ASSUME NEW name \in Removable, RemoveByName(name)
      PROVE  NodeTypes' /\ CallInv'
  <2>1. /\ components' \in Seq(Names) /\ Nil \notin ToSet(components') /\ IsInjective(components')
    BY <1>1, <1>5, RemovedIsProper DEF RemoveByName, NodeTypes
  <2>. QED
    BY <1>1, <1>3, <1>5, <2>1 DEF RemoveByName, CallInv, Position, NodeTypes
<1>6. CASE Startup
  BY <1>1, <1>6 DEF Startup, CallInv, Position, NodeTypes, Phases
<1>7. CASE RegisterConnector
  <2>1. PICK c : c = NameOf[Connectors[at]]
    OBVIOUS
  <2>2. c \in Names
    BY <1>7, <2>1, ConstantsOK DEF ConstantsOK, RegisterConnector, Names
  <2>3. <<c>> \in Seq(Names)
    BY <2>2
  <2>4. /\ components' \in Seq(Names) /\ Nil \notin ToSet(components') /\ IsInjective(components')
    BY <1>1, <1>7, <2>1, <2>3, RegisteredIsProper DEF RegisterConnector, NodeTypes
  <2>. QED
    BY <1>1, <1>3, <1>7, <2>4 DEF RegisterConnector, NodeTypes
<1>8. CASE LoopEnds
  <2>1. UNCHANGED <<components, unregistered, calls>>
    BY <1>8 DEF LoopEnds
  <2>2. Position(Len(components), Len(calls))' /\ phase' \in Phases
        /\ at' \in 0..(1 + IF phase' = "Register" THEN Len(Connectors) ELSE Len(components))
    BY <1>1, <1>8, <2>1 DEF LoopEnds, CallInv, Position, NodeTypes, Phases
  <2>. QED
    BY <1>1, <2>1, <2>2 DEF CallInv, NodeTypes
<1>9. CASE Stop
  <2>1. UNCHANGED <<components, unregistered, calls>>
    BY <1>9 DEF Stop
  <2>2. Position(Len(components), Len(calls))' /\ phase' \in Phases
        /\ at' \in 0..(1 + IF phase' = "Register" THEN Len(Connectors) ELSE Len(components))
    <3>1. PICK n \in Nat : n = Len(components)
      BY <1>1
    <3>2. Len(calls) = 2 * n /\ phase' = "OnBeforeStop" /\ at' = n
      BY <1>1, <1>9, <3>1 DEF Stop, CallInv, Position
    <3>. QED
      BY <2>1, <3>1, <3>2 DEF Position, Phases
  <2>. QED
    BY <1>1, <2>1, <2>2 DEF CallInv, NodeTypes
<1>10. ASSUME NEW m \in Methods, Call(m)
       PROVE  NodeTypes' /\ CallInv'
  <2>1. PICK n \in Nat, k \in Nat : n = Len(components) /\ k = Len(calls)
    BY <1>1
  <2>2. /\ at \in 1..n /\ phase = m /\ UNCHANGED <<components, unregistered, phase>>
        /\ at' = IF m \in {"Init", "OnAfterInit"} THEN at + 1 ELSE at - 1
    BY <1>10, <2>1 DEF Call
  <2>3. PICK e \in Methods \X Names : e = <<m, components[at]>>
    <3>1. components[at] \in Names
      BY <1>1, <2>1, <2>2
    <3>. QED
      BY <3>1
  <2>4. e = Due(n, components, k + 1)
    <3>1. Position(n, k)
      BY <1>1, <2>1 DEF CallInv
    <3>2. CASE m = "Init"
      BY <2>2, <2>3, <3>1, <3>2 DEF Due, Position
    <3>3. CASE m = "OnAfterInit"
      <4>1. k + 1 = n + at
        BY <2>2, <3>1, <3>3 DEF Position
      <4>. QED
        BY <2>2, <2>3, <3>3, <4>1 DEF Due
    <3>4. CASE m = "OnBeforeStop"
      <4>1. k + 1 = 3 * n + 1 - at
        BY <2>2, <3>1, <3>4 DEF Position
      <4>. QED
        BY <2>2, <2>3, <3>4, <4>1 DEF Due
    <3>5. CASE m = "OnStop"
      <4>1. k + 1 = 4 * n + 1 - at
        BY <2>2, <3>1, <3>5 DEF Position
      <4>. QED
        BY <2>2, <2>3, <3>5, <4>1 DEF Due
    <3>. QED
      BY <3>2, <3>3, <3>4, <3>5 DEF Methods
  <2>5. calls' = Append(calls, e)
    BY <1>10, <2>3 DEF Call
  <2>6. /\ calls' \in Seq(Methods \X Names) /\ Len(calls') = k + 1
        /\ \A i \in 1..k : calls'[i] = calls[i]
        /\ calls'[k + 1] = e
    BY <1>1, <2>1, <2>5, AppendProperties
  <2>7. \A i \in 1..(k + 1) : calls'[i] = Due(n, components, i)
    <3>1. \A i \in 1..k : calls[i] = Due(n, components, i)
      BY <1>1, <2>1 DEF CallInv
    <3>. QED
      BY <2>4, <2>6, <3>1
  <2>8. Position(n, k + 1)'
    <3>1. Position(n, k) /\ at' \in Int /\ m \in Methods
      BY <1>1, <2>1, <2>2 DEF CallInv
    <3>2. CASE m \in {"Init", "OnAfterInit"}
      BY <2>1, <2>2, <3>1, <3>2 DEF Position
    <3>3. CASE m \in {"OnBeforeStop", "OnStop"}
      BY <2>1, <2>2, <3>1, <3>3 DEF Position
    <3>. QED
      BY <3>1, <3>2, <3>3 DEF Methods
  <2>9. NodeTypes'
    BY <1>1, <2>1, <2>2 DEF NodeTypes, Methods
  <2>. QED
    BY <1>1, <2>1, <2>2, <2>6, <2>7, <2>8, <2>9 DEF CallInv, Position
<1>. QED
  BY <1>2, <1>4, <1>5, <1>6, <1>7, <1>8, <1>9, <1>10, NodeFrame DEF Prepare

-------------------------------------------------------------------------------
(* Where Startup is only goes forward, and what is stopped stays so.       *)
LEMMA Forward ==
  ASSUME Inv, [Next]_vars
  PROVE  /\ phase' \in Early => phase \in Early
         /\ phase \notin {"new", "Register"} => phase' \notin {"new", "Register"}
         /\ phase' = "OnAfterInit" /\ phase \notin Early =>
              phase = "OnAfterInit" /\ at' >= at /\ components' = components
<1>. USE DEF Inv
<1>1. CASE Prepare
  BY <1>1 DEF Prepare, Register, RemoveByName, Startup, RegisterConnector, Early
<1>2. CASE LoopEnds
  BY <1>2 DEF LoopEnds, Early
<1>3. CASE Stop
  BY <1>3 DEF Stop, Early
<1>4. ASSUME NEW m \in Methods, Call(m)
      PROVE  phase' = phase /\ components' = components /\ (phase = "OnAfterInit" => at' >= at)
  BY <1>4 DEF Call, Methods
<1>5. at \in Nat
  BY DEF TypeOK
<1>. QED
  BY <1>1, <1>2, <1>3, <1>4, <1>5, NodeFrame DEF nodeVars

(* What is newly stopped is what Startup has just stopped.                 *)
LEMMA NewlyStopped ==
  ASSUME Inv, [Next]_vars, phase \notin {"new", "Register"}
  PROVE  /\ components' = components
         /\ \A i \in 1..Len(components) : Stopped(i)' =>
              Stopped(i) \/ (phase = "OnStop" /\ i = at /\ Call("OnStop"))
<1>. USE DEF Inv
<1>1. at \in Nat /\ Len(components) \in Nat
  BY DEF TypeOK, CallInv
<1>2. CASE LoopEnds
  BY <1>1, <1>2 DEF LoopEnds, Stopped
<1>3. CASE Stop
  BY <1>3 DEF Stop, Stopped
<1>4. ASSUME NEW m \in Methods, Call(m)
      PROVE  /\ components' = components
             /\ \A i \in 1..Len(components) : Stopped(i)' =>
                  Stopped(i) \/ (phase = "OnStop" /\ i = at /\ Call("OnStop"))
  BY <1>1, <1>4 DEF Call, Stopped
<1>5. CASE UNCHANGED nodeVars
  BY <1>5 DEF nodeVars, Stopped
<1>6. ~Prepare
  BY DEF Prepare, Register, RemoveByName, Startup, RegisterConnector
<1>. QED
  BY <1>2, <1>3, <1>4, <1>5, <1>6, NodeFrame

(* Stopping a component is stopping the cluster, a connector or neither.   *)
LEMMA StopCalls ==
  ASSUME Inv, [Next]_vars, Call("OnStop")
  PROVE  \/ CloseNats \/ (\E x \in All : StopConnector(x))
         \/ StopOther /\ components[at] # "cluster" /\ ConnectorOf(components[at]) = {}
<1>. USE DEF Inv
<1>1. phase = "OnStop" /\ calls' # calls
  <2>1. components[at] \in Names /\ calls \in Seq(Methods \X Names)
    BY DEF Call, CallInv
  <2>2. <<"OnStop", components[at]>> \in Methods \X Names
    BY <2>1 DEF Methods
  <2>3. Len(calls') = Len(calls) + 1 /\ Len(calls) \in Nat
    BY <2>1, <2>2, AppendProperties DEF Call
  <2>4. phase = "OnStop"
    BY DEF Call
  <2>. QED
    BY <2>3, <2>4
<1>2. ~UNCHANGED nodeVars
  BY <1>1 DEF nodeVars
<1>3. ~(Prepare \/ LoopEnds \/ Stop)
  BY <1>1 DEF Prepare, Register, RemoveByName, Startup, RegisterConnector, LoopEnds, Stop
<1>4. ~(InitCluster \/ InitOther \/ OnAfterInit \/ OnBeforeStop)
  BY <1>1 DEF InitCluster, InitOther, OnAfterInit, OnBeforeStop, Call
<1>5. ~(StopSubject \/ Subscribe \/ DeliverToClosed \/ NatsChanges \/ UNCHANGED vars)
  BY <1>2 DEF StopSubject, Subscribe, DeliverToClosed, NatsChanges, vars
<1>6. ASSUME NEW x \in All, Listen(x) \/ ListenFails(x) \/ OnConnect(x) \/ StartReturns(x)
      PROVE  FALSE
  BY <1>2, <1>6 DEF Listen, ListenFails, OnConnect, StartReturns
<1>7. ASSUME NEW k \in Conns, Dial(k) \/ Accept(k) \/ UpgradeFails(k) \/ InChan(k)
      PROVE  FALSE
  BY <1>2, <1>7 DEF Dial, Accept, UpgradeFails, InChan
<1>8. StopOther => components[at] # "cluster" /\ ConnectorOf(components[at]) = {}
  BY DEF StopOther
<1>. QED
  BY <1>3, <1>4, <1>5, <1>6, <1>7, <1>8, Steps

(* NATS is closed when the cluster is stopped.                             *)
LEMMA NatsStepInv ==
  ASSUME Inv, [Next]_vars
  PROVE  NatsInv'
<1>. USE DEF Inv
<1>1. NatsInv /\ Len(components) \in Nat /\ at \in Nat
  BY DEF CallInv, TypeOK
<1>2. chClosed' => recvPc' # "receiving"
  <2>1. CASE InitCluster
    BY <2>1 DEF InitCluster
  <2>2. CASE StopSubject \/ CloseNats \/ Subscribe \/ NatsChanges
    BY <1>1, <2>2 DEF NatsInv, StopSubject, CloseNats, Subscribe, NatsChanges
  <2>. QED
    BY <1>1, <2>1, <2>2, NatsFrame DEF NatsInv, natsVars
<1>3. CASE InitCluster
  <2>1. /\ phase = "Init" /\ phase' = "Init" /\ components' = components
        /\ at \in 1..Len(components) /\ components[at] = "cluster"
    BY <1>3 DEF InitCluster, Call
  <2>. QED
    BY <1>2, <2>1 DEF NatsInv, Stopped
<1>4. ASSUME ~InitCluster, connected' \/ recvPc' = "receiving"
      PROVE  /\ phase' \notin {"new", "Register"}
             /\ \E i \in 1..Len(components') : components'[i] = "cluster" /\ ~Stopped(i)'
  <2>1. connected \/ recvPc = "receiving"
    <3>1. CASE StopSubject \/ CloseNats \/ Subscribe \/ NatsChanges
      BY <1>4, <3>1 DEF StopSubject, CloseNats, Subscribe, NatsChanges
    <3>. QED
      BY <1>4, <3>1, NatsFrame DEF natsVars
  <2>2. PICK i \in 1..Len(components) : components[i] = "cluster" /\ ~Stopped(i)
    BY <1>1, <2>1 DEF NatsInv
  <2>3. phase \notin {"new", "Register"}
    BY <1>1, <2>1 DEF NatsInv
  <2>4. phase' \notin {"new", "Register"} /\ components' = components
    BY <2>3, Forward, NewlyStopped
  <2>5. ASSUME Stopped(i)'
        PROVE  FALSE
    <3>1. phase = "OnStop" /\ i = at /\ Call("OnStop")
      BY <2>2, <2>3, <2>5, NewlyStopped
    <3>2. ~\E x \in All : StopConnector(x)
      BY <2>2, <3>1, ConnectorsApart DEF StopConnector
    <3>3. CloseNats
      BY <2>2, <3>1, <3>2, StopCalls
    <3>4. ~connected' /\ recvPc' # "receiving"
      BY <1>1, <3>3 DEF CloseNats, NatsInv
    <3>. QED
      BY <1>4, <3>4
  <2>. QED
    BY <2>2, <2>4, <2>5
<1>. QED
  BY <1>2, <1>3, <1>4 DEF NatsInv

-------------------------------------------------------------------------------
(* Listeners.                                                              *)

ListTypes ==
  /\ startPc \in [All -> {"none", "spawned", "serving", "ended"}]
  /\ running \in [All -> BOOLEAN] /\ listener \in [All -> {"none", "open", "closed"}]
  /\ \A x \in All : listener[x] = "none" <=> startPc[x] \in {"none", "spawned"}
  /\ overtaken \subseteq All

LEMMA ListStep ==
  ASSUME Inv, [Next]_vars
  PROVE  /\ ListTypes' /\ StartInv'
         /\ \A x \in All : /\ listener[x] # "none" => listener'[x] # "none"
                           /\ listener'[x] # listener[x] =>
                                \/ listener[x] = "none" /\ startPc[x] = "spawned"
                                \/ listener[x] = "open" /\ listener'[x] = "closed" /\ StopConnector(x)
         /\ overtaken \subseteq overtaken'
<1>1. ListTypes /\ StartInv /\ components \in Seq(Names) /\ at \in Nat
  BY DEF Inv, TypeOK, ListTypes, CallInv
<1>2. ASSUME \A x \in All : startPc'[x] # "none" => startPc[x] # "none"
      PROVE  StartInv'
  <2>1. ASSUME NEW x \in All, startPc'[x] # "none"
        PROVE  phase' \notin Early /\
               (phase' = "OnAfterInit" => \E i \in 1..(at' - 1) : components'[i] = "net_parser")
    <3>1. /\ phase \notin Early
          /\ phase = "OnAfterInit" => \E i \in 1..(at - 1) : components[i] = "net_parser"
      BY <1>1, <1>2, <2>1 DEF StartInv
    <3>2. phase' \notin Early /\ (phase' = "OnAfterInit" =>
            phase = "OnAfterInit" /\ at' >= at /\ components' = components)
      BY <3>1, Forward
    <3>3. at' \in Nat
      BY NodeStep DEF NodeTypes
    <3>4. ASSUME phase' = "OnAfterInit"
          PROVE  \E i \in 1..(at' - 1) : components'[i] = "net_parser"
      <4>1. PICK a \in Nat, b \in Nat : a = at /\ b = at' /\ b >= a
        BY <1>1, <3>2, <3>3, <3>4
      <4>2. b >= a
        BY <4>1
      <4>3. PICK i \in 1..(a - 1) : components[i] = "net_parser"
        BY <3>1, <3>2, <3>4, <4>1
      <4>4. i \in 1..(b - 1)
        BY <4>2
      <4>. QED
        BY <3>2, <3>4, <4>1, <4>3, <4>4
    <3>. QED
      BY <3>2, <3>4
  <2>. QED
    BY <2>1 DEF StartInv
<1>3. CASE UNCHANGED listVars
  BY <1>1, <1>2, <1>3 DEF ListTypes, listVars
<1>4. CASE OnAfterInit
  <2>1. /\ UNCHANGED <<running, listener, overtaken, components>> /\ at \in 1..Len(components)
        /\ phase = "OnAfterInit" /\ phase' = "OnAfterInit" /\ at' = at + 1
    BY <1>4 DEF OnAfterInit, Call
  <2>2. CASE components[at] # "net_parser"
    <3>1. startPc' = startPc
      BY <1>4, <2>2 DEF OnAfterInit
    <3>. QED
      BY <1>1, <1>2, <2>1, <3>1 DEF ListTypes
  <2>3. CASE components[at] = "net_parser"
    <3>1. startPc' = [x \in All |-> "spawned"]
      BY <1>4, <2>3 DEF OnAfterInit
    <3>2. ~\E i \in 1..(at - 1) : components[i] = "net_parser"
      <4>1. \A i, j \in 1..Len(components) : components[i] = components[j] => i = j
        BY <1>1 DEF Inv, TypeOK, IsInjective
      <4>2. \A i \in 1..(at - 1) : i \in 1..Len(components) /\ i # at
        BY <1>1, <2>1
      <4>. QED
        BY <2>1, <2>3, <4>1, <4>2
    <3>3. \A x \in All : startPc[x] = "none"
      BY <1>1, <2>1, <3>2 DEF StartInv
    <3>4. ListTypes'
      BY <1>1, <2>1, <3>1, <3>3 DEF ListTypes
    <3>5. at \in 1..(at' - 1) /\ components'[at] = "net_parser" /\ phase' \notin Early
      BY <1>1, <2>1, <2>3 DEF Early
    <3>6. StartInv'
      BY <3>5 DEF StartInv
    <3>. QED
      BY <1>1, <2>1, <3>4, <3>6
  <2>. QED
    BY <2>2, <2>3
<1>5. ASSUME NEW x \in All, StopConnector(x)
      PROVE  /\ ListTypes' /\ startPc' = startPc /\ overtaken \subseteq overtaken'
             /\ \A y \in All \ {x} : listener'[y] = listener[y]
             /\ listener'[x] = listener[x] \/ (listener[x] = "open" /\ listener'[x] = "closed")
  <2>1. CASE listener[x] = "open"
    BY <1>1, <1>5, <2>1 DEF StopConnector, ListTypes
  <2>2. CASE listener[x] # "open"
    BY <1>1, <1>5, <2>2 DEF StopConnector, ListTypes
  <2>. QED
    BY <2>1, <2>2
<1>6. ASSUME NEW x \in All, Listen(x)
      PROVE  /\ ListTypes' /\ overtaken' = overtaken
             /\ \A y \in All \ {x} : startPc'[y] = startPc[y] /\ listener'[y] = listener[y]
             /\ startPc[x] = "spawned" /\ listener[x] = "none" /\ listener'[x] = "open"
  BY <1>1, <1>6 DEF Listen, ListTypes
<1>7. ASSUME NEW x \in All, StartReturns(x)
      PROVE  /\ ListTypes' /\ UNCHANGED <<listener, overtaken>> /\ startPc[x] # "none"
             /\ \A y \in All \ {x} : startPc'[y] = startPc[y]
  BY <1>1, <1>7 DEF StartReturns, ListTypes
<1>8. CASE \E x \in All : StopConnector(x) \/ Listen(x) \/ StartReturns(x)
  <2>1. StartInv'
    BY <1>2, <1>5, <1>6, <1>7, <1>8
  <2>. QED
    BY <1>1, <1>5, <1>6, <1>7, <1>8, <2>1
<1>. QED
  BY <1>3, <1>4, <1>8, ListFrame

LEMMA ListenStep ==
  ASSUME Inv, [Next]_vars
  PROVE  ListenInv'
<1>. USE DEF Inv
<1>1. ListenInv /\ ListTypes
  BY DEF TypeOK, ListTypes
<1>2. phase \in {"new", "Register"} => ~\E i \in 1..Len(components') : Stopped(i)'
  BY NodeFrame DEF Prepare, Register, RemoveByName, Startup, RegisterConnector, LoopEnds, Stop, Call,
     Methods, nodeVars, Stopped
<1>3. ASSUME phase \notin {"new", "Register"}, NEW i \in 1..Len(components'), Stopped(i)',
             NEW x \in ConnectorOf(components'[i])
      PROVE  listener'[x] = "closed" \/ x \in overtaken'
  <2>1. components' = components /\ x \in All /\ x \in ConnectorOf(components[i])
    BY <1>3, NewlyStopped, ConnectorsApart
  <2>2. CASE Stopped(i)
    <3>1. listener[x] = "closed" \/ x \in overtaken
      BY <1>1, <1>3, <2>1, <2>2 DEF ListenInv
    <3>2. listener[x] = "closed" => listener'[x] = "closed"
      BY <2>1, ListStep
    <3>. QED
      BY <3>1, <3>2, ListStep
  <2>3. CASE phase = "OnStop" /\ i = at /\ Call("OnStop")
    <3>1. ASSUME NEW y \in All, StopConnector(y)
          PROVE  listener'[x] = "closed" \/ x \in overtaken'
      <4>1. y = x
        BY <2>1, <2>3, <3>1, ConnectorsApart DEF StopConnector
      <4>2. CASE listener[x] = "open"
        BY <1>1, <2>1, <3>1, <4>1, <4>2 DEF StopConnector, ListTypes
      <4>3. CASE listener[x] # "open"
        BY <3>1, <4>1, <4>3 DEF StopConnector
      <4>. QED
        BY <4>2, <4>3
    <3>2. ~CloseNats
      BY <2>1, <2>3, ConnectorsApart DEF CloseNats
    <3>. QED
      BY <2>1, <2>3, <3>1, <3>2, StopCalls
  <2>. QED
    BY <1>3, <2>1, <2>2, <2>3, NewlyStopped
<1>. QED
  BY <1>2, <1>3 DEF ListenInv

-------------------------------------------------------------------------------
(* Clients.                                                                *)

ConnTypes ==
  /\ connPc \in [Conns -> {"none", "dialled", "accepted", "queued", "served", "reset"}]
  /\ connChan \in [All -> Seq(Conns)] /\ \A x \in All : Len(connChan[x]) <= ChanSize
  /\ served \in [All -> Seq(Conns)]

Places ==
  \A x \in All :
    /\ IsInjective(connChan[x]) /\ IsInjective(served[x])
    /\ ToSet(connChan[x]) = {k \in Conns : Via[k] = x /\ connPc[k] = "queued"}
    /\ ToSet(served[x]) = {k \in Conns : Via[k] = x /\ connPc[k] = "served"}

(* A client at the end of the channel, one at its head.                    *)
LEMMA Added ==
  ASSUME NEW q \in Seq(Conns), NEW k \in Conns, k \notin ToSet(q), IsInjective(q)
  PROVE  /\ Append(q, k) \in Seq(Conns) /\ Len(Append(q, k)) = Len(q) + 1 /\ Len(q) \in Nat
         /\ IsInjective(Append(q, k)) /\ ToSet(Append(q, k)) = ToSet(q) \cup {k}
         /\ \A i \in 1..Len(q) : Append(q, k)[i] = q[i]
         /\ Append(q, k)[Len(q) + 1] = k
<1>1. PICK a \in Seq(Conns) : a = Append(q, k)
  BY AppendProperties
<1>2. PICK n \in Nat : n = Len(q) /\ DOMAIN q = 1..n
  OBVIOUS
<1>3. /\ Len(a) = n + 1 /\ DOMAIN a = 1..(n + 1)
      /\ \A i \in 1..n : a[i] = q[i]
      /\ a[n + 1] = k
  <2>1. /\ Len(a) = n + 1 /\ \A i \in 1..n : a[i] = q[i]
        /\ a[n + 1] = k
    BY <1>1, <1>2, AppendProperties
  <2>2. DOMAIN a = 1..Len(a)
    OBVIOUS
  <2>. QED
    BY <2>1, <2>2
<1>4. \A i \in 1..n : q[i] # k
  BY <1>2 DEF ToSet
<1>5. IsInjective(a)
  <2>1. \A i, j \in 1..n : q[i] = q[j] => i = j
    BY <1>2 DEF IsInjective
  <2>2. \A i \in 1..(n + 1) : i \in 1..n \/ i = n + 1
    OBVIOUS
  <2>. QED
    BY <1>3, <1>4, <2>1, <2>2 DEF IsInjective
<1>6. ToSet(a) = ToSet(q) \cup {k}
  <2>1. \A i \in 1..(n + 1) : i \in 1..n \/ i = n + 1
    OBVIOUS
  <2>2. n + 1 \in 1..(n + 1) /\ \A i \in 1..n : i \in 1..(n + 1)
    OBVIOUS
  <2>. QED
    BY <1>2, <1>3, <2>1, <2>2 DEF ToSet
<1>. QED
  BY <1>1, <1>2, <1>3, <1>5, <1>6

LEMMA Removed ==
  ASSUME NEW q \in Seq(Conns), q # <<>>, IsInjective(q)
  PROVE  /\ Head(q) \in Conns /\ Head(q) = q[1] /\ Len(q) \in Nat /\ Len(q) > 0
         /\ Tail(q) \in Seq(Conns) /\ Len(Tail(q)) = Len(q) - 1 /\ IsInjective(Tail(q))
         /\ ToSet(Tail(q)) = ToSet(q) \ {Head(q)} /\ Head(q) \in ToSet(q)
         /\ \A i \in 1..Len(Tail(q)) : Tail(q)[i] = q[i + 1]
<1>1. PICK t \in Seq(Conns) : t = Tail(q) /\ Len(t) = Len(q) - 1 /\ \A i \in 1..Len(t) : t[i] = q[i + 1]
  BY HeadTailProperties
<1>2. PICK n \in Nat : n = Len(q) /\ n > 0 /\ DOMAIN q = 1..n
  OBVIOUS
<1>3. Len(t) = n - 1 /\ DOMAIN t = 1..(n - 1) /\ \A i \in 1..(n - 1) : t[i] = q[i + 1]
  BY <1>1, <1>2
<1>4. Head(q) = q[1] /\ Head(q) \in Conns
  BY HeadTailProperties
<1>5. \A i, j \in 1..n : q[i] = q[j] => i = j
  BY <1>2 DEF IsInjective
<1>6. \A i \in 1..(n - 1) : i + 1 \in 1..n /\ i + 1 # 1
  BY <1>2
<1>7. IsInjective(t)
  <2>1. ASSUME NEW i \in 1..(n - 1), NEW j \in 1..(n - 1), t[i] = t[j]
        PROVE  i = j
    <3>1. i + 1 = j + 1
      BY <1>3, <1>5, <1>6, <2>1
    <3>. QED
      BY <3>1
  <2>. QED
    BY <1>3, <2>1 DEF IsInjective
<1>8. ToSet(t) = ToSet(q) \ {q[1]}
  <2>1. \A k \in ToSet(t) : k \in ToSet(q) /\ k # q[1]
    BY <1>2, <1>3, <1>5, <1>6 DEF ToSet
  <2>2. ASSUME NEW k \in ToSet(q), k # q[1]
        PROVE  k \in ToSet(t)
    <3>1. PICK i \in 1..n : k = q[i]
      BY <1>2 DEF ToSet
    <3>2. i - 1 \in 1..(n - 1) /\ (i - 1) + 1 = i
      BY <1>2, <2>2, <3>1
    <3>3. t[i - 1] = k
      BY <1>3, <3>1, <3>2
    <3>. QED
      BY <1>3, <3>2, <3>3 DEF ToSet
  <2>. QED
    BY <2>1, <2>2
<1>9. q[1] \in ToSet(q)
  BY <1>2 DEF ToSet
<1>. QED
  BY <1>1, <1>2, <1>4, <1>7, <1>8, <1>9

LEMMA StopResets ==
  ASSUME Inv, NEW x \in All, StopConnector(x)
  PROVE  /\ UNCHANGED <<connChan, served>> /\ ConnTypes'
         /\ \A k \in Conns : \/ connPc'[k] = connPc[k]
                             \/ /\ connPc[k] = "dialled" /\ connPc'[k] = "reset" /\ Via[k] = x
                                /\ listener'[x] = "closed"
<1>1. ConnTypes /\ listener \in [All -> {"none", "open", "closed"}]
  BY DEF Inv, TypeOK, ConnTypes
<1>2. CASE listener[x] = "open"
  BY <1>1, <1>2 DEF StopConnector, ConnTypes
<1>3. CASE listener[x] # "open"
  BY <1>1, <1>3 DEF StopConnector, ConnTypes
<1>. QED
  BY <1>2, <1>3

(* A client that is put into the channel, and one that is taken out.       *)
LEMMA Enters ==
  ASSUME Inv, NEW k \in Conns, InChan(k)
  PROVE  /\ ConnTypes' /\ Places' /\ served' = served
         /\ connPc[k] = "accepted" /\ connPc'[k] = "queued"
         /\ \A j \in Conns \ {k} : connPc'[j] = connPc[j]
         /\ \A x \in All \ {Via[k]} : connChan'[x] = connChan[x]
         /\ connChan'[Via[k]] = Append(connChan[Via[k]], k)
         /\ Via[k] \in All /\ k \notin ToSet(connChan[Via[k]])
<1>1. ConnTypes /\ Places /\ Via[k] \in All /\ ChanSize \in Nat
  BY ConstantsOK DEF ConstantsOK, Inv, TypeOK, ConnTypes, ClientInv, Places
<1>2. PICK x \in All : x = Via[k]
  BY <1>1
<1>3. /\ connPc[k] = "accepted" /\ Len(connChan[x]) < ChanSize /\ served' = served
      /\ connPc' = [connPc EXCEPT ![k] = "queued"]
      /\ connChan' = [connChan EXCEPT ![x] = Append(connChan[x], k)]
  BY <1>2 DEF InChan
<1>4. /\ connPc'[k] = "queued" /\ \A j \in Conns \ {k} : connPc'[j] = connPc[j]
      /\ \A y \in All \ {x} : connChan'[y] = connChan[y]
      /\ connChan'[x] = Append(connChan[x], k)
  BY <1>1, <1>3 DEF ConnTypes
<1>5. k \notin ToSet(connChan[x]) /\ IsInjective(connChan[x]) /\ connChan[x] \in Seq(Conns)
  BY <1>1, <1>3 DEF Places, ConnTypes
<1>6. /\ connChan'[x] \in Seq(Conns) /\ IsInjective(connChan'[x])
      /\ ToSet(connChan'[x]) = ToSet(connChan[x]) \cup {k}
      /\ Len(connChan'[x]) = Len(connChan[x]) + 1 /\ Len(connChan[x]) \in Nat
  BY <1>4, <1>5, Added
<1>7. ConnTypes'
  <2>1. Len(connChan'[x]) <= ChanSize
    BY <1>1, <1>3, <1>6
  <2>2. \A y \in All : Len(connChan'[y]) <= ChanSize
    BY <1>1, <1>4, <2>1 DEF ConnTypes
  <2>3. connChan' \in [All -> Seq(Conns)]
    BY <1>1, <1>3, <1>4, <1>6 DEF ConnTypes
  <2>. QED
    BY <1>1, <1>3, <2>2, <2>3 DEF ConnTypes
<1>8. Places'
  <2>1. ToSet(connChan'[x]) = {j \in Conns : Via[j] = x /\ connPc'[j] = "queued"}
    BY <1>1, <1>2, <1>4, <1>6 DEF Places
  <2>2. ASSUME NEW y \in All, y # x
        PROVE  ToSet(connChan'[y]) = {j \in Conns : Via[j] = y /\ connPc'[j] = "queued"}
    BY <1>1, <1>2, <1>4, <2>2 DEF Places
  <2>3. ASSUME NEW y \in All
        PROVE  ToSet(served'[y]) = {j \in Conns : Via[j] = y /\ connPc'[j] = "served"}
    BY <1>1, <1>3, <1>4 DEF Places
  <2>4. \A y \in All : IsInjective(connChan'[y]) /\ IsInjective(served'[y])
    BY <1>1, <1>3, <1>4, <1>6 DEF Places
  <2>. QED
    BY <2>1, <2>2, <2>3, <2>4 DEF Places
<1>. QED
  BY <1>1, <1>2, <1>3, <1>4, <1>5, <1>7, <1>8

LEMMA Leaves ==
  ASSUME Inv, NEW x \in All, OnConnect(x)
  PROVE  /\ ConnTypes' /\ Places'
         /\ connChan[x] \in Seq(Conns) /\ connChan[x] # <<>> /\ IsInjective(connChan[x])
         /\ connChan'[x] = Tail(connChan[x])
         /\ \A y \in All \ {x} : connChan'[y] = connChan[y]
         /\ \E k \in Conns : /\ k = Head(connChan[x]) /\ Via[k] = x
                             /\ connPc[k] = "queued" /\ connPc'[k] = "served"
                             /\ \A j \in Conns \ {k} : connPc'[j] = connPc[j]
<1>1. ConnTypes /\ Places
  BY DEF Inv, TypeOK, ConnTypes, ClientInv, Places
<1>2. /\ connChan[x] \in Seq(Conns) /\ connChan[x] # <<>> /\ IsInjective(connChan[x])
      /\ served[x] \in Seq(Conns) /\ IsInjective(served[x])
  BY <1>1 DEF ConnTypes, Places, OnConnect
<1>3. PICK k \in Conns : k = Head(connChan[x]) /\ k \in ToSet(connChan[x])
  BY <1>2, Removed
<1>4. Via[k] = x /\ connPc[k] = "queued"
  BY <1>1, <1>3 DEF Places
<1>5. /\ connChan' = [connChan EXCEPT ![x] = Tail(connChan[x])]
      /\ connPc' = [connPc EXCEPT ![k] = "served"]
      /\ served' = [served EXCEPT ![x] = Append(served[x], k)]
  BY <1>3 DEF OnConnect
<1>6. /\ connPc'[k] = "served" /\ \A j \in Conns \ {k} : connPc'[j] = connPc[j]
      /\ connChan'[x] = Tail(connChan[x]) /\ \A y \in All \ {x} : connChan'[y] = connChan[y]
      /\ served'[x] = Append(served[x], k) /\ \A y \in All \ {x} : served'[y] = served[y]
  BY <1>1, <1>5 DEF ConnTypes
<1>7. /\ connChan'[x] \in Seq(Conns) /\ IsInjective(connChan'[x])
      /\ ToSet(connChan'[x]) = ToSet(connChan[x]) \ {k}
      /\ Len(connChan'[x]) = Len(connChan[x]) - 1 /\ Len(connChan[x]) \in Nat
  BY <1>2, <1>3, <1>6, Removed
<1>8. k \notin ToSet(served[x])
  BY <1>1, <1>4 DEF Places
<1>9. /\ served'[x] \in Seq(Conns) /\ IsInjective(served'[x])
      /\ ToSet(served'[x]) = ToSet(served[x]) \cup {k}
  BY <1>2, <1>6, <1>8, Added
<1>10. ConnTypes'
  <2>1. \A y \in All : Len(connChan'[y]) <= ChanSize
    <3>1. Len(connChan'[x]) <= ChanSize
      BY <1>1, <1>7, ConstantsOK DEF ConnTypes, ConstantsOK
    <3>. QED
      BY <1>1, <1>6, <3>1 DEF ConnTypes
  <2>2. connChan' \in [All -> Seq(Conns)] /\ served' \in [All -> Seq(Conns)]
    BY <1>1, <1>5, <1>6, <1>7, <1>9 DEF ConnTypes
  <2>. QED
    BY <1>1, <1>5, <2>1, <2>2 DEF ConnTypes
<1>11. Places'
  <2>1. ASSUME NEW y \in All
        PROVE  ToSet(connChan'[y]) = {j \in Conns : Via[j] = y /\ connPc'[j] = "queued"}
    <3>1. CASE y = x
      BY <1>1, <1>4, <1>6, <1>7, <3>1 DEF Places
    <3>2. CASE y # x
      BY <1>1, <1>4, <1>6, <3>2 DEF Places
    <3>. QED
      BY <3>1, <3>2
  <2>2. ASSUME NEW y \in All
        PROVE  ToSet(served'[y]) = {j \in Conns : Via[j] = y /\ connPc'[j] = "served"}
    <3>1. CASE y = x
      <4>1. ToSet(served[x]) = {j \in Conns : Via[j] = x /\ connPc[j] = "served"}
        BY <1>1 DEF Places
      <4>2. \A j \in Conns : connPc'[j] = "served" <=> j = k \/ connPc[j] = "served"
        BY <1>4, <1>6
      <4>3. ToSet(served'[x]) = {j \in Conns : Via[j] = x /\ connPc'[j] = "served"}
        BY <1>4, <1>9, <4>1, <4>2
      <4>. QED
        BY <3>1, <4>3
    <3>2. CASE y # x
      BY <1>1, <1>4, <1>6, <3>2 DEF Places
    <3>. QED
      BY <3>1, <3>2
  <2>3. \A y \in All : IsInjective(connChan'[y]) /\ IsInjective(served'[y])
    BY <1>1, <1>6, <1>7, <1>9 DEF Places
  <2>. QED
    BY <2>1, <2>2, <2>3 DEF Places
<1>. QED
  BY <1>2, <1>3, <1>4, <1>6, <1>10, <1>11

LEMMA ClientStep ==
  ASSUME Inv, [Next]_vars
  PROVE  ConnTypes' /\ ClientInv'
<1>1. ConnTypes /\ Places /\ ClientInv
  BY DEF Inv, TypeOK, ConnTypes, ClientInv, Places
<1>2. \A k \in Conns : Via[k] \in All /\ (listener[Via[k]] # "none" => listener'[Via[k]] # "none")
  BY ListStep, ConstantsOK DEF ConstantsOK
<1>3. ASSUME Places', \A k \in Conns : connPc'[k] # "none" => connPc[k] # "none" \/ listener'[Via[k]] # "none"
      PROVE  ClientInv'
  <2>1. \A k \in Conns : connPc'[k] # "none" => listener'[Via[k]] # "none"
    BY <1>1, <1>2, <1>3 DEF ClientInv
  <2>. QED
    BY <1>3, <2>1 DEF ClientInv, Places
<1>4. ASSUME UNCHANGED <<connChan, served>>,
             \A k \in Conns : \A pc \in {"queued", "served"} : connPc'[k] = pc <=> connPc[k] = pc
      PROVE  Places'
  <2>1. ASSUME NEW y \in All
        PROVE  /\ ToSet(connChan'[y]) = {j \in Conns : Via[j] = y /\ connPc'[j] = "queued"}
               /\ ToSet(served'[y]) = {j \in Conns : Via[j] = y /\ connPc'[j] = "served"}
    BY <1>1, <1>4 DEF Places
  <2>. QED
    BY <1>1, <1>4, <2>1 DEF Places
<1>5. CASE UNCHANGED connVars
  BY <1>1, <1>3, <1>4, <1>5 DEF connVars, ConnTypes
<1>6. ASSUME NEW x \in All, StopConnector(x)
      PROVE  ConnTypes' /\ ClientInv'
  BY <1>3, <1>4, <1>6, StopResets DEF Inv
<1>7. ASSUME NEW x \in All, OnConnect(x)
      PROVE  ConnTypes' /\ ClientInv'
  BY <1>3, <1>7, Leaves
<1>8. ASSUME NEW k \in Conns, Dial(k)
      PROVE  ConnTypes' /\ ClientInv'
  <2>1. connPc' = [connPc EXCEPT ![k] = "dialled"] /\ UNCHANGED <<connChan, served>>
        /\ connPc[k] = "none" /\ listener'[Via[k]] # "none"
    BY <1>8 DEF Dial, listVars
  <2>2. ConnTypes' /\ connPc'[k] = "dialled" /\ \A j \in Conns \ {k} : connPc'[j] = connPc[j]
    BY <1>1, <2>1 DEF ConnTypes
  <2>. QED
    BY <1>3, <1>4, <2>1, <2>2
<1>9. ASSUME NEW k \in Conns, Accept(k) \/ UpgradeFails(k)
      PROVE  ConnTypes' /\ ClientInv'
  <2>1. UNCHANGED <<connChan, served>> /\ connPc[k] \in {"dialled", "accepted"}
        /\ \E pc \in {"accepted", "reset"} : connPc' = [connPc EXCEPT ![k] = pc]
    BY <1>9 DEF Accept, UpgradeFails
  <2>2. ConnTypes' /\ connPc'[k] \in {"accepted", "reset"} /\ \A j \in Conns \ {k} : connPc'[j] = connPc[j]
    BY <1>1, <2>1 DEF ConnTypes
  <2>. QED
    BY <1>3, <1>4, <2>1, <2>2
<1>10. ASSUME NEW k \in Conns, InChan(k)
       PROVE  ConnTypes' /\ ClientInv'
  BY <1>3, <1>10, Enters
<1>. QED
  BY <1>5, <1>6, <1>7, <1>8, <1>9, <1>10, ConnFrame

-------------------------------------------------------------------------------
(* The order of the clients of a TCPConnector.                             *)

LEMMA OrderStep ==
  ASSUME Inv, [Next]_vars
  PROVE  OrderInv'
<1>1. OrderInv /\ ConnTypes /\ ClientInv /\ ListTypes
  BY DEF Inv, TypeOK, ConnTypes, ListTypes
<1>2. /\ \A k \in Conns : k \in Nat /\ Via[k] \in All /\ Before(k) \subseteq Conns
      /\ \A k \in Conns : \A j \in Before(k) : j < k /\ Via[j] = Via[k]
  BY ConstantsOK DEF ConstantsOK, Before
<1>3. \A k \in Conns : listener'[Via[k]] = "open" => listener[Via[k]] = "open" \/ connPc[k] = "none"
  BY <1>1, <1>2, ListStep DEF ClientInv, ListTypes
(* The three parts of the order.                                           *)
<1>4. ASSUME connChan' = connChan,
             \A k \in Conns : connPc[k] # "none" => connPc'[k] # "none",
             \A k \in Conns : \A j \in Before(k) : connPc'[k] # "none" => connPc'[j] # "none",
             \A k \in Conns : Via[k] \in TCP =>
               /\ \A pc \in {"queued", "served"} : connPc'[k] = pc <=> connPc[k] = pc
               /\ connPc'[k] = "accepted" /\ connPc[k] # "accepted" =>
                    \A j \in Before(k) : connPc[j] \in {"queued", "served"}
               /\ connPc'[k] = "reset" /\ connPc[k] # "reset" => listener'[Via[k]] # "open"
      PROVE  OrderInv'
  <2>1. ASSUME NEW k \in Conns, Via[k] \in TCP
        PROVE  /\ connPc'[k] \in {"accepted", "queued", "served"} =>
                    \A j \in Before(k) : connPc'[j] \in {"queued", "served"}
               /\ connPc'[k] = "served" => \A j \in Before(k) : connPc'[j] = "served"
    <3>1. \A j \in Before(k) : j \in Conns /\ Via[j] \in TCP
      BY <1>2, <2>1
    <3>. QED
      BY <1>1, <1>4, <2>1, <3>1 DEF OrderInv
  <2>2. ASSUME NEW k \in Conns, Via[k] \in TCP, listener'[Via[k]] = "open"
        PROVE  connPc'[k] # "reset"
    BY <1>1, <1>3, <1>4, <2>2 DEF OrderInv
  <2>. QED
    BY <1>1, <1>4, <2>1, <2>2 DEF OrderInv
<1>5. ASSUME UNCHANGED <<connPc, connChan>>
      PROVE  OrderInv'
  BY <1>1, <1>4, <1>5 DEF OrderInv
<1>6. ASSUME NEW x \in All, StopConnector(x)
      PROVE  OrderInv'
  <2>1. /\ connChan' = connChan
        /\ \A k \in Conns : \/ connPc'[k] = connPc[k]
                            \/ /\ connPc[k] = "dialled" /\ connPc'[k] = "reset"
                               /\ listener'[Via[k]] = "closed"
    BY <1>6, StopResets
  <2>2. \A k \in Conns : connPc'[k] # "none" <=> connPc[k] # "none"
    BY <2>1
  <2>3. \A k \in Conns : \A j \in Before(k) : connPc'[k] # "none" => connPc'[j] # "none"
    BY <1>1, <1>2, <2>2 DEF OrderInv
  <2>. QED
    BY <1>4, <2>1, <2>2, <2>3
<1>7. ASSUME NEW x \in All, OnConnect(x)
      PROVE  OrderInv'
  <2>1. /\ connChan[x] \in Seq(Conns) /\ connChan[x] # <<>> /\ IsInjective(connChan[x])
        /\ connChan'[x] = Tail(connChan[x])
        /\ \A y \in All \ {x} : connChan'[y] = connChan[y]
    BY <1>7, Leaves
  <2>2. PICK h \in Conns : /\ h = Head(connChan[x]) /\ Via[h] = x
                           /\ connPc[h] = "queued" /\ connPc'[h] = "served"
                           /\ \A j \in Conns \ {h} : connPc'[j] = connPc[j]
    BY <1>7, Leaves
  <2>3. PICK n \in Nat : n = Len(connChan[x]) /\ n > 0 /\ DOMAIN connChan[x] = 1..n
    BY <2>1, Removed
  <2>4. /\ h = connChan[x][1] /\ Len(connChan'[x]) = n - 1
        /\ \A i \in 1..(n - 1) : connChan'[x][i] = connChan[x][i + 1]
    BY <2>1, <2>2, <2>3, Removed
  <2>5. ASSUME Via[h] \in TCP, NEW j \in Before(h)
        PROVE  connPc[j] = "served"
    <3>1. connPc[j] \in {"queued", "served"} /\ j \in Conns /\ j < h /\ Via[j] = x
      BY <1>1, <1>2, <2>2, <2>5 DEF OrderInv
    <3>2. ASSUME connPc[j] = "queued"
          PROVE  FALSE
      <4>1. j \in ToSet(connChan[x])
        BY <1>1, <3>1, <3>2 DEF ClientInv
      <4>2. PICK i \in 1..n : j = connChan[x][i]
        BY <2>3, <4>1 DEF ToSet
      <4>3. i # 1 => h < j
        BY <1>1, <2>2, <2>3, <2>4, <2>5, <4>2 DEF OrderInv
      <4>4. h \in Nat /\ j \in Nat
        BY <1>2, <3>1
      <4>. QED
        BY <2>4, <3>1, <4>2, <4>3, <4>4
    <3>. QED
      BY <3>1, <3>2
  <2>6. \A k \in Conns : Via[k] \in TCP =>
          /\ connPc'[k] \in {"accepted", "queued", "served"} =>
               \A j \in Before(k) : connPc'[j] \in {"queued", "served"}
          /\ connPc'[k] = "served" => \A j \in Before(k) : connPc'[j] = "served"
          /\ listener'[Via[k]] = "open" => connPc'[k] # "reset"
    <3>1. ASSUME NEW k \in Conns, Via[k] \in TCP, NEW j \in Before(k)
          PROVE  /\ connPc'[k] \in {"accepted", "queued", "served"} => connPc'[j] \in {"queued", "served"}
                 /\ connPc'[k] = "served" => connPc'[j] = "served"
      <4>1. /\ connPc[k] \in {"accepted", "queued", "served"} => connPc[j] \in {"queued", "served"}
            /\ connPc[k] = "served" => connPc[j] = "served"
        BY <1>1, <3>1 DEF OrderInv
      <4>2. j \in Conns
        BY <1>2, <3>1
      <4>. QED
        BY <2>2, <2>5, <3>1, <4>1, <4>2
    <3>2. ASSUME NEW k \in Conns, Via[k] \in TCP, listener'[Via[k]] = "open"
          PROVE  connPc'[k] # "reset"
      BY <1>1, <1>3, <2>2, <3>2 DEF OrderInv
    <3>. QED
      BY <3>1, <3>2
  <2>7. \A k \in Conns : \A j \in Before(k) : connPc'[k] # "none" => connPc'[j] # "none"
    BY <1>1, <1>2, <2>2 DEF OrderInv
  <2>8. ASSUME NEW y \in TCP, y \in All, NEW i \in 1..Len(connChan'[y]), NEW j \in 1..Len(connChan'[y]), i < j
        PROVE  connChan'[y][i] < connChan'[y][j]
    <3>1. CASE y = x
      <4>1. i \in 1..(n - 1) /\ j \in 1..(n - 1) /\ i + 1 < j + 1 /\ i + 1 \in 1..n /\ j + 1 \in 1..n
        BY <2>3, <2>4, <2>8, <3>1
      <4>. QED
        BY <1>1, <2>3, <2>4, <2>8, <3>1, <4>1 DEF OrderInv
    <3>2. CASE y # x
      BY <1>1, <2>1, <2>8, <3>2 DEF OrderInv
    <3>. QED
      BY <3>1, <3>2
  <2>9. TCP \subseteq All
    BY ConstantsOK DEF ConstantsOK
  <2>. QED
    BY <2>6, <2>7, <2>8, <2>9 DEF OrderInv
<1>8. ASSUME NEW k \in Conns, InChan(k)
      PROVE  OrderInv'
  <2>1. /\ connPc[k] = "accepted" /\ connPc'[k] = "queued"
        /\ \A j \in Conns \ {k} : connPc'[j] = connPc[j]
        /\ \A x \in All \ {Via[k]} : connChan'[x] = connChan[x]
        /\ connChan'[Via[k]] = Append(connChan[Via[k]], k)
    BY <1>8, Enters
  <2>2. PICK x \in All : x = Via[k] /\ connChan[x] \in Seq(Conns) /\ k \notin ToSet(connChan[x])
                         /\ IsInjective(connChan[x])
    BY <1>1, <1>8, Enters DEF ConnTypes, ClientInv
  <2>3. PICK n \in Nat : n = Len(connChan[x]) /\ DOMAIN connChan[x] = 1..n
    BY <2>2
  <2>4. /\ Len(connChan'[x]) = n + 1 /\ connChan'[x][n + 1] = k
        /\ \A i \in 1..n : connChan'[x][i] = connChan[x][i]
    BY <2>1, <2>2, <2>3, Added
  <2>5. ASSUME x \in TCP, NEW i \in 1..n
        PROVE  connChan[x][i] < k
    <3>1. PICK q \in Conns : q = connChan[x][i]
      BY <2>2, <2>3
    <3>2. connPc[q] = "queued" /\ Via[q] = x
      <4>1. q \in ToSet(connChan[x])
        BY <2>3, <3>1 DEF ToSet
      <4>. QED
        BY <1>1, <4>1 DEF ClientInv
    <3>3. k \notin Before(q)
      BY <1>1, <2>1, <2>5, <3>2 DEF OrderInv
    <3>4. ~(k < q) /\ q # k /\ q \in Nat /\ k \in Nat
      BY <1>2, <2>1, <2>2, <3>2, <3>3 DEF Before
    <3>. QED
      BY <3>1, <3>4
  <2>6. \A l \in Conns : Via[l] \in TCP =>
          /\ connPc'[l] \in {"accepted", "queued", "served"} =>
               \A j \in Before(l) : connPc'[j] \in {"queued", "served"}
          /\ connPc'[l] = "served" => \A j \in Before(l) : connPc'[j] = "served"
          /\ listener'[Via[l]] = "open" => connPc'[l] # "reset"
    <3>1. ASSUME NEW l \in Conns, Via[l] \in TCP, NEW j \in Before(l)
          PROVE  /\ connPc'[l] \in {"accepted", "queued", "served"} => connPc'[j] \in {"queued", "served"}
                 /\ connPc'[l] = "served" => connPc'[j] = "served"
      <4>1. /\ connPc[l] \in {"accepted", "queued", "served"} => connPc[j] \in {"queued", "served"}
            /\ connPc[l] = "served" => connPc[j] = "served"
        BY <1>1, <3>1 DEF OrderInv
      <4>2. j \in Conns
        BY <1>2, <3>1
      <4>. QED
        BY <2>1, <3>1, <4>1, <4>2
    <3>2. ASSUME NEW l \in Conns, Via[l] \in TCP, listener'[Via[l]] = "open"
          PROVE  connPc'[l] # "reset"
      BY <1>1, <1>3, <2>1, <3>2 DEF OrderInv
    <3>. QED
      BY <3>1, <3>2
  <2>7. \A l \in Conns : \A j \in Before(l) : connPc'[l] # "none" => connPc'[j] # "none"
    BY <1>1, <1>2, <2>1 DEF OrderInv
  <2>8. ASSUME NEW y \in TCP, y \in All, NEW i \in 1..Len(connChan'[y]), NEW j \in 1..Len(connChan'[y]), i < j
        PROVE  connChan'[y][i] < connChan'[y][j]
    <3>1. CASE y = x
      <4>1. i \in 1..n /\ (j \in 1..n \/ j = n + 1)
        BY <2>3, <2>4, <2>8, <3>1
      <4>2. CASE j \in 1..n
        BY <1>1, <2>3, <2>4, <2>8, <3>1, <4>1, <4>2 DEF OrderInv
      <4>3. CASE j = n + 1
        BY <2>4, <2>5, <2>8, <3>1, <4>1, <4>3
      <4>. QED
        BY <4>1, <4>2, <4>3
    <3>2. CASE y # x
      BY <1>1, <2>1, <2>2, <2>8, <3>2 DEF OrderInv
    <3>. QED
      BY <3>1, <3>2
  <2>9. TCP \subseteq All
    BY ConstantsOK DEF ConstantsOK
  <2>. QED
    BY <2>6, <2>7, <2>8, <2>9 DEF OrderInv
<1>9. ASSUME NEW k \in Conns, Dial(k)
      PROVE  OrderInv'
  <2>1. /\ connChan' = connChan /\ connPc[k] = "none" /\ connPc'[k] = "dialled"
        /\ \A j \in Conns \ {k} : connPc'[j] = connPc[j]
        /\ \A j \in Before(k) : connPc[j] # "none"
    BY <1>1, <1>9 DEF Dial, ConnTypes
  <2>2. \A l \in Conns : \A j \in Before(l) : connPc'[l] # "none" => connPc'[j] # "none"
    BY <1>1, <1>2, <2>1 DEF OrderInv
  <2>3. \A l \in Conns : \/ connPc'[l] = connPc[l]
                         \/ connPc[l] = "none" /\ connPc'[l] = "dialled"
    BY <2>1
  <2>. QED
    BY <1>4, <2>1, <2>2, <2>3
<1>10. ASSUME NEW k \in Conns, Accept(k)
       PROVE  OrderInv'
  <2>1. /\ connChan' = connChan /\ connPc[k] = "dialled" /\ connPc'[k] = "accepted"
        /\ \A j \in Conns \ {k} : connPc'[j] = connPc[j]
        /\ \A j \in Before(k) : connPc[j] # "dialled"
        /\ listener[Via[k]] = "open" /\ (Via[k] \in TCP => InHand(Via[k]) = {})
    BY <1>1, <1>10 DEF Accept, ConnTypes
  <2>2. ASSUME Via[k] \in TCP, NEW j \in Before(k)
        PROVE  connPc[j] \in {"queued", "served"}
    <3>1. j \in Conns /\ Via[j] = Via[k]
      BY <1>2, <2>2
    <3>2. connPc[j] # "none" /\ connPc[j] # "reset"
      BY <1>1, <2>1, <2>2, <3>1 DEF OrderInv
    <3>3. connPc[j] # "accepted"
      BY <2>1, <2>2, <3>1 DEF InHand
    <3>. QED
      BY <1>1, <2>1, <2>2, <3>1, <3>2, <3>3 DEF ConnTypes
  <2>3. \A l \in Conns : \A j \in Before(l) : connPc'[l] # "none" => connPc'[j] # "none"
    BY <1>1, <1>2, <2>1 DEF OrderInv
  <2>4. \A l \in Conns : \/ connPc'[l] = connPc[l]
                         \/ l = k /\ connPc[l] = "dialled" /\ connPc'[l] = "accepted"
    BY <2>1
  <2>. QED
    BY <1>4, <2>1, <2>2, <2>3, <2>4
<1>11. ASSUME NEW k \in Conns, UpgradeFails(k)
       PROVE  OrderInv'
  <2>1. /\ connChan' = connChan /\ connPc[k] = "accepted" /\ connPc'[k] = "reset"
        /\ \A j \in Conns \ {k} : connPc'[j] = connPc[j]
        /\ Via[k] \notin TCP
    BY <1>1, <1>11 DEF UpgradeFails, ConnTypes
  <2>2. \A l \in Conns : \A j \in Before(l) : connPc'[l] # "none" => connPc'[j] # "none"
    BY <1>1, <1>2, <2>1 DEF OrderInv
  <2>3. \A l \in Conns : \/ connPc'[l] = connPc[l]
                         \/ Via[l] \notin TCP /\ connPc[l] # "none" /\ connPc'[l] # "none"
    BY <2>1
  <2>. QED
    BY <1>4, <2>1, <2>2, <2>3
<1>. QED
  BY <1>5, <1>6, <1>7, <1>8, <1>9, <1>10, <1>11, ConnFrame DEF connVars

-------------------------------------------------------------------------------
(* The invariant.                                                          *)

LEMMA InitInv == Init => Inv
<1>. SUFFICES ASSUME Init
              PROVE  Inv
  OBVIOUS
<1>1. /\ components = Nodes /\ calls = <<>> /\ phase = "new" /\ at = 1
      /\ unregistered = Batches
  BY DEF Init
<1>2. /\ Nodes \in Seq(Names) /\ Len(Nodes) = 5 /\ Nil \notin ToSet(Nodes) /\ IsInjective(Nodes)
  <2>1. \A i \in 1..5 : Nodes[i] \in ToSet(Nodes)
    BY DEF Nodes, ToSet
  <2>2. Nodes \in Seq(ToSet(Nodes)) /\ Len(Nodes) = 5
    BY <2>1 DEF Nodes
  <2>3. ToSet(Nodes) \subseteq Names
    BY DEF Names
  <2>4. Nodes \in Seq(Names)
    BY <2>2, <2>3, SeqMonotonic
  <2>5. Nil \notin ToSet(Nodes)
    BY ConstantsOK DEF ConstantsOK, Contains, ToSet, Nodes
  <2>6. IsInjective(Nodes)
    BY DEF IsInjective, Nodes
  <2>. QED
    BY <2>2, <2>4, <2>5, <2>6
<1>3. NodeTypes
  BY <1>1, <1>2 DEF NodeTypes, Phases
<1>4. CallInv
  BY <1>1, <1>2 DEF CallInv, Position
<1>5. NatsInv /\ natsUp \in BOOLEAN /\ connected \in BOOLEAN /\ chClosed \in BOOLEAN
      /\ recvPc \in {"none", "subscribing", "receiving", "doomed", "ended"}
  BY DEF Init, NewNatsConn, NewNatsSubject, NatsInv
<1>6. ListTypes /\ StartInv
  BY DEF Init, NewConnector, ListTypes, StartInv
<1>7. ListenInv
  BY <1>1 DEF ListenInv, Stopped
<1>8. ConnTypes /\ ClientInv
  <2>1. /\ connPc = [k \in Conns |-> "none"] /\ connChan = [x \in All |-> <<>>]
        /\ served = [x \in All |-> <<>>]
    BY DEF Init, NewConnector
  <2>2. <<>> \in Seq(Conns) /\ Len(<<>>) = 0 /\ ToSet(<<>>) = {} /\ IsInjective(<<>>)
    BY DEF ToSet, IsInjective
  <2>3. ConnTypes
    BY <2>1, <2>2, ConstantsOK DEF ConnTypes, ConstantsOK
  <2>. QED
    BY <2>1, <2>2, <2>3 DEF ClientInv
<1>9. OrderInv
  <2>1. \A k \in Conns : connPc[k] = "none"
    BY DEF Init
  <2>2. \A x \in TCP : Len(connChan[x]) = 0
    BY ConstantsOK DEF Init, NewConnector, ConstantsOK
  <2>. QED
    BY <2>1, <2>2 DEF OrderInv
<1>10. crash = "none"
  BY DEF Init
<1>. QED
  BY <1>3, <1>4, <1>5, <1>6, <1>7, <1>8, <1>9, <1>10
  DEF Inv, TypeOK, NodeTypes, Phases, ListTypes, ConnTypes

LEMMA CrashStep ==
  ASSUME Inv, [Next]_vars
  PROVE  /\ natsUp' \in BOOLEAN /\ connected' \in BOOLEAN /\ chClosed' \in BOOLEAN
         /\ recvPc' \in {"none", "subscribing", "receiving", "doomed", "ended"}
         /\ crash' \in {"none", "noAgents", "etcd", "listen", "closedChannel"}
<1>1. /\ natsUp \in BOOLEAN /\ connected \in BOOLEAN /\ chClosed \in BOOLEAN
      /\ recvPc \in {"none", "subscribing", "receiving", "doomed", "ended"}
      /\ crash \in {"none", "noAgents", "etcd", "listen", "closedChannel"}
  BY DEF Inv, TypeOK
<1>2. /\ natsUp' \in BOOLEAN /\ connected' \in BOOLEAN /\ chClosed' \in BOOLEAN
      /\ recvPc' \in {"none", "subscribing", "receiving", "doomed", "ended"}
  BY <1>1, NatsFrame DEF natsVars, InitCluster, StopSubject, CloseNats, Subscribe, NatsChanges
<1>3. Prepare \/ LoopEnds \/ Stop => crash' = crash
  BY DEF Prepare, Register, RemoveByName, Startup, RegisterConnector, LoopEnds, Stop
<1>4. InitCluster \/ OnAfterInit \/ OnBeforeStop \/ StopOther \/ StopSubject \/ CloseNats
      \/ Subscribe \/ NatsChanges \/ UNCHANGED vars => crash' = crash
  BY DEF InitCluster, OnAfterInit, OnBeforeStop, StopOther, StopSubject, CloseNats, Subscribe,
         NatsChanges, Try, vars
<1>5. InitOther \/ DeliverToClosed => crash' \in {crash, "noAgents", "etcd", "closedChannel"}
  BY DEF InitOther, EtcdFails, DeliverToClosed
<1>6. ASSUME NEW x \in All,
             StopConnector(x) \/ Listen(x) \/ ListenFails(x) \/ OnConnect(x) \/ StartReturns(x)
      PROVE  crash' \in {crash, "listen"}
  BY <1>6 DEF StopConnector, Listen, ListenFails, OnConnect, StartReturns, Try
<1>7. ASSUME NEW k \in Conns, Dial(k) \/ Accept(k) \/ UpgradeFails(k) \/ InChan(k)
      PROVE  crash' = crash
  BY <1>7 DEF Dial, Accept, UpgradeFails, InChan
<1>8. crash' \in {crash, "noAgents", "etcd", "closedChannel", "listen"}
  BY <1>3, <1>4, <1>5, <1>6, <1>7, Steps
<1>. QED
  BY <1>1, <1>2, <1>8

(* Every part of Inv is inductive relative to the whole of it.             *)
THEOREM Invariance == Spec => []Inv
<1>1. Init => Inv
  BY InitInv
<1>2. Inv /\ [Next]_vars => Inv'
  <2>. SUFFICES ASSUME Inv, [Next]_vars
                PROVE  Inv'
    OBVIOUS
  <2>1. NodeTypes' /\ CallInv'
    BY NodeStep
  <2>2. ListTypes' /\ StartInv'
    BY ListStep
  <2>3. ConnTypes' /\ ClientInv'
    BY ClientStep
  <2>4. NatsInv' /\ ListenInv' /\ OrderInv'
    BY NatsStepInv, ListenStep, OrderStep
  <2>5. TypeOK'
    BY <2>1, <2>2, <2>3, CrashStep DEF TypeOK, NodeTypes, Phases, ListTypes, ConnTypes
  <2>. QED
    BY <2>1, <2>2, <2>3, <2>4, <2>5, CrashStep DEF Inv
<1>. QED
  BY <1>1, <1>2, PTL DEF Spec

-------------------------------------------------------------------------------
(* What it is for.                                                         *)

(* Types; however Register is called, and whatever the program removes, no *)
(* two components have one name, and none has no name.                     *)
THEOREM TypeCorrect == Spec => []TypeOK
<1>1. Inv => TypeOK
  BY DEF Inv
<1>. QED
  BY <1>1, Invariance, PTL

(* A client has its agent only after every Init; none has two agents or is *)
(* lost; those of a TCPConnector have theirs in order.                     *)
THEOREM ClientsServedInOrder == Spec => []ServedInOrder
<1>1. ASSUME Inv
      PROVE  ServedInOrder
  <2>1. ConnTypes /\ ListTypes /\ CallInv /\ StartInv /\ ClientInv /\ OrderInv
    BY <1>1 DEF Inv, TypeOK, ConnTypes, ListTypes
  <2>2. ASSUME NEW x \in All, served[x] # <<>>, NEW c \in ToSet(components)
        PROVE  Contains(calls, <<"Init", c>>)
    <3>1. PICK k \in Conns : Via[k] = x /\ connPc[k] = "served"
      <4>1. served[x] \in Seq(Conns)
        BY <2>1 DEF ConnTypes
      <4>2. Head(served[x]) \in ToSet(served[x])
        BY <2>1, <2>2, <4>1, Removed DEF ClientInv
      <4>. QED
        BY <2>1, <4>2 DEF ClientInv
    <3>2. listener[x] # "none"
      BY <2>1, <3>1 DEF ClientInv
    <3>3. phase \notin Early
      BY <2>1, <3>2 DEF ListTypes, StartInv
    <3>4. PICK n, m \in Nat : n = Len(components) /\ m = Len(calls)
      BY <2>1 DEF CallInv
    <3>5. m >= n
      <4>1. Position(n, m) /\ phase \in Phases /\ at \in Nat
        BY <1>1, <2>1, <3>4 DEF Inv, TypeOK, CallInv, Phases
      <4>. QED
        BY <3>3, <3>4, <4>1 DEF Position, Phases, Early
    <3>6. PICK i \in 1..n : c = components[i]
      BY <2>1, <3>4 DEF ToSet, CallInv
    <3>7. i \in 1..m
      BY <3>5
    <3>8. calls[i] = <<"Init", c>>
      <4>1. calls[i] = Due(n, components, i)
        BY <2>1, <3>4, <3>7 DEF CallInv
      <4>. QED
        BY <3>6, <4>1 DEF Due
    <3>. QED
      BY <3>4, <3>7, <3>8 DEF Contains
  <2>3. ASSUME NEW x \in All
        PROVE  IsInjective(served[x] \o connChan[x])
    <3>1. PICK s, q \in Seq(Conns) : s = served[x] /\ q = connChan[x]
      BY <2>1 DEF ConnTypes
    <3>2. PICK m, n \in Nat : /\ m = Len(s) /\ n = Len(q)
                              /\ DOMAIN s = 1..m /\ DOMAIN q = 1..n
      OBVIOUS
    <3>3. PICK t \in Seq(Conns) : t = s \o q
      BY ConcatProperties
    <3>4. /\ DOMAIN t = 1..(m + n)
          /\ \A i \in 1..(m + n) : t[i] = IF i <= m THEN s[i] ELSE q[i - m]
      <4>1. Len(t) = m + n
        BY <3>2, <3>3, ConcatProperties
      <4>2. \A i \in 1..(Len(s) + Len(q)) : t[i] = IF i <= Len(s) THEN s[i] ELSE q[i - Len(s)]
        BY <3>3, ConcatProperties
      <4>3. DOMAIN t = 1..Len(t)
        OBVIOUS
      <4>. QED
        BY <3>2, <4>1, <4>2, <4>3
    <3>5. \A i, j \in 1..m : s[i] = s[j] => i = j
      BY <2>1, <3>1, <3>2 DEF ClientInv, IsInjective
    <3>6. \A i, j \in 1..n : q[i] = q[j] => i = j
      BY <2>1, <3>1, <3>2 DEF ClientInv, IsInjective
    <3>7. \A i \in 1..m, j \in 1..n : s[i] # q[j]
      <4>1. ToSet(s) \cap ToSet(q) = {}
        BY <2>1, <3>1 DEF ClientInv
      <4>. QED
        BY <3>2, <4>1 DEF ToSet
    <3>8. ASSUME NEW i \in 1..(m + n), NEW j \in 1..(m + n), t[i] = t[j]
          PROVE  i = j
      <4>1. /\ i \in 1..m \/ (i > m /\ i - m \in 1..n)
            /\ j \in 1..m \/ (j > m /\ j - m \in 1..n)
        BY <3>2
      <4>2. /\ i <= m => t[i] = s[i]
            /\ i > m => t[i] = q[i - m]
            /\ j <= m => t[j] = s[j]
            /\ j > m => t[j] = q[j - m]
        BY <3>2, <3>4
      <4>3. CASE i <= m /\ j <= m
        BY <3>5, <3>8, <4>1, <4>2, <4>3
      <4>4. CASE i <= m /\ j > m
        BY <3>7, <3>8, <4>1, <4>2, <4>4
      <4>5. CASE i > m /\ j <= m
        BY <3>7, <3>8, <4>1, <4>2, <4>5
      <4>6. CASE i > m /\ j > m
        <5>1. i - m = j - m
          BY <3>6, <3>8, <4>1, <4>2, <4>6
        <5>. QED
          BY <3>2, <5>1
      <4>. QED
        BY <3>2, <4>3, <4>4, <4>5, <4>6
    <3>. QED
      BY <3>1, <3>3, <3>4, <3>8 DEF IsInjective
  <2>4. ASSUME NEW x \in TCP, NEW i \in 1..Len(served[x]), NEW j \in Before(served[x][i])
        PROVE  connPc[j] = "served"
    <3>1. x \in All
      BY ConstantsOK DEF ConstantsOK
    <3>2. PICK k : k = served[x][i]
      OBVIOUS
    <3>3. k \in ToSet(served[x])
      BY <2>1, <3>1, <3>2 DEF ConnTypes, ToSet
    <3>4. k \in Conns /\ Via[k] = x /\ connPc[k] = "served"
      BY <2>1, <3>1, <3>3 DEF ClientInv
    <3>. QED
      BY <2>1, <3>2, <3>4 DEF OrderInv
  <2>5. \A x \in All :
          /\ ToSet(connChan[x]) = {k \in Conns : Via[k] = x /\ connPc[k] = "queued"}
          /\ ToSet(served[x]) = {k \in Conns : Via[k] = x /\ connPc[k] = "served"}
    BY <2>1 DEF ClientInv
  <2>. QED
    BY <2>2, <2>3, <2>4, <2>5 DEF ServedInOrder
<1>. QED
  BY <1>1, Invariance, PTL

LEMMA DueAt ==
  ASSUME NEW n \in Nat, NEW cs, NEW i \in 1..n
  PROVE  /\ Due(n, cs, i) = <<"Init", cs[i]>>
         /\ Due(n, cs, n + i) = <<"OnAfterInit", cs[i]>>
         /\ Due(n, cs, 3 * n + 1 - i) = <<"OnBeforeStop", cs[i]>>
         /\ Due(n, cs, 4 * n + 1 - i) = <<"OnStop", cs[i]>>
<1>1. ASSUME NEW k \in Int, k = n + i
      PROVE  Due(n, cs, k) = <<"OnAfterInit", cs[i]>>
  <2>1. ~(k <= n) /\ k <= 2 * n /\ k - n = i
    BY <1>1
  <2>. QED
    BY <2>1 DEF Due
<1>2. ASSUME NEW k \in Int, k = 3 * n + 1 - i
      PROVE  Due(n, cs, k) = <<"OnBeforeStop", cs[i]>>
  <2>1. ~(k <= n) /\ ~(k <= 2 * n) /\ k <= 3 * n /\ 3 * n + 1 - k = i
    BY <1>2
  <2>. QED
    BY <2>1 DEF Due
<1>3. ASSUME NEW k \in Int, k = 4 * n + 1 - i
      PROVE  Due(n, cs, k) = <<"OnStop", cs[i]>>
  <2>1. ~(k <= n) /\ ~(k <= 2 * n) /\ ~(k <= 3 * n) /\ 4 * n + 1 - k = i
    BY <1>3
  <2>. QED
    BY <2>1 DEF Due
<1>4. Due(n, cs, i) = <<"Init", cs[i]>>
  BY DEF Due
<1>. QED
  BY <1>1, <1>2, <1>3, <1>4

(* Startup ends only after every component has got each call once, in the  *)
(* order and its reverse, with NATS and the components' listeners closed.  *)
THEOREM LifeIsComplete == Spec => []StopIsTotal
<1>1. ASSUME Inv
      PROVE  StopIsTotal
  <2>1. CallInv /\ NatsInv /\ ListenInv
    BY <1>1 DEF Inv
  <2>2. ASSUME phase = "ended"
        PROVE  FullLife
    <3>1. PICK n, m \in Nat : n = Len(components) /\ m = Len(calls) /\ m = 4 * n
      BY <2>1, <2>2 DEF CallInv, Position
    <3>2. \A i \in 1..(4 * n) : calls[i] = Due(n, components, i)
      BY <2>1, <3>1 DEF CallInv
    <3>3. ASSUME NEW i \in 1..n
          PROVE  /\ calls[i] = <<"Init", components[i]>>
                 /\ calls[n + i] = <<"OnAfterInit", components[i]>>
                 /\ calls[3 * n + 1 - i] = <<"OnBeforeStop", components[i]>>
                 /\ calls[4 * n + 1 - i] = <<"OnStop", components[i]>>
      <4>1. /\ i \in 1..(4 * n) /\ n + i \in 1..(4 * n)
            /\ 3 * n + 1 - i \in 1..(4 * n) /\ 4 * n + 1 - i \in 1..(4 * n)
        BY <3>3
      <4>. QED
        BY <3>2, <3>3, <4>1, DueAt
    <3>. QED
      BY <3>1, <3>3 DEF FullLife
  <2>3. ASSUME phase = "ended"
        PROVE  ~connected /\ recvPc # "receiving"
    BY <2>1, <2>3 DEF NatsInv, Stopped
  <2>4. ASSUME phase = "ended", NEW c \in ToSet(components), NEW x \in ConnectorOf(c)
        PROVE  listener[x] = "closed" \/ x \in overtaken
    <3>1. PICK i \in 1..Len(components) : c = components[i]
      BY <2>1 DEF ToSet, CallInv
    <3>. QED
      BY <2>1, <2>4, <3>1 DEF ListenInv, Stopped
  <2>. QED
    BY <2>1, <2>2, <2>3, <2>4 DEF StopIsTotal
<1>. QED
  BY <1>1, Invariance, PTL
===============================================================================
