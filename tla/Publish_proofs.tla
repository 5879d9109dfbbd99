---------------------------- MODULE Publish_proofs ----------------------------
(***************************************************************************)
(* Proofs about the registry of buses and of their credentials, for any    *)
(* number of workers, rows and requests, and about the requests to publish *)
(* that go on next to it.                                                  *)
(***************************************************************************)
EXTENDS AvroReference, SequenceTheorems, WellFoundedInduction, TLAPS

(* What clients ask for has the fields of their payloads.                  *)
LEMMA Payloads ==
  /\ \A p \in BusPayload : /\ p.host \in Host /\ p.port \in Port
                           /\ p.auth \in Kind /\ p.registry \in Setting
  /\ \A p \in AuthPayload : p.kind \in Kind /\ p.host \in Host /\ p.credentials \in Credentials
BY DEF Host, Port, Kind, Setting, Credentials

(* The tables are empty at the start.                                      *)
LEMMA RegistryTypeInit == RegistryInit => RegistryTypeOK
BY BusesAssumption DEF RegistryInit, RegistryTypeOK, Task, Idle

(* The request of a worker is replaced by another.                         *)
LEMMA GoesTyped ==
  ASSUME NEW w \in Worker, NEW t \in Task, task \in [Worker -> Task], Goes(w, t)
  PROVE  task' \in [Worker -> Task]
BY DEF Goes

(* A table takes a row.                                                    *)
LEMMA TakesTyped ==
  ASSUME NEW table \in {"registry", "bus", "info", "auth"}, RegistryTypeOK, Takes(table)
  PROVE  /\ next' \in [{"registry", "bus", "info", "auth"} -> Nat]
         /\ next[table] \in Nat
         /\ next'[table] = next[table] + 1
         /\ \A k \in {"registry", "bus", "info", "auth"} : next[k] <= next'[k]
BY DEF RegistryTypeOK, Takes

(* No request in progress.                                                 *)
LEMMA IdleTyped == Idle \in Task
BY DEF Task

(* Every step of a request about a bus keeps the types.                    *)
LEMMA BusStepTyped ==
  ASSUME RegistryTypeOK, NEW w \in Worker, BusStep(w)
  PROVE  RegistryTypeOK'
<1> DEFINE T == {"registry", "bus", "info", "auth"}
<1>0. task[w] \in Task
  BY DEF RegistryTypeOK
<1>1. ASSUME NEW p \in BusPayload, NewRegistry(p)
      PROVE  /\ registries' \in SUBSET Registry
             /\ next' \in [T -> Nat]
             /\ next["registry"] \in Nat
  <2>1. next["registry"] \in Nat /\ next' \in [T -> Nat]
    BY <1>1, TakesTyped DEF NewRegistry
  <2>2. [id |-> next["registry"], settings |-> p.registry] \in Registry
    BY <2>1, Payloads DEF Registry
  <2> QED BY <1>1, <2>1, <2>2 DEF NewRegistry, RegistryTypeOK
<1>2. ASSUME NEW p \in BusPayload, NEW r \in Nat, NewBus(p, r)
      PROVE  /\ buses' \in SUBSET Bus
             /\ next' \in [T -> Nat]
             /\ busAsked' \in SUBSET (Nat \X BusPayload)
  <2>1. next["bus"] \in Nat /\ next' \in [T -> Nat]
    BY <1>2, TakesTyped DEF NewBus
  <2>2. [id |-> next["bus"], host |-> p.host, port |-> p.port,
         auth |-> p.auth, registry |-> r] \in Bus
    BY <2>1, Payloads DEF Bus
  <2> QED BY <1>2, <2>1, <2>2 DEF NewBus, RegistryTypeOK
<1>3. CASE CreateBus(w)
  <2>1. PICK p \in BusPayload :
          \/ /\ p.registry = None
             /\ Receive(w, Idle)
             /\ NewBus(p, 0)
          \/ /\ p.registry # None
             /\ Receive(w, [pc |-> "addBus", asked |-> p, registry |-> next["registry"]])
             /\ NewRegistry(p)
             /\ UNCHANGED <<buses, busSeen>>
    BY <1>3 DEF CreateBus
  <2>2. UNCHANGED <<authVars, authSeen>>
    BY <1>3 DEF CreateBus
  <2>3. CASE Receive(w, Idle) /\ NewBus(p, 0)
    <3>1. task' \in [Worker -> Task] /\ received' \in Nat
      BY <2>3, GoesTyped, IdleTyped DEF Receive, RegistryTypeOK
    <3>2. /\ buses' \in SUBSET Bus
          /\ next' \in [T -> Nat]
          /\ busAsked' \in SUBSET (Nat \X BusPayload)
      BY <2>3, <1>2
    <3>3. UNCHANGED <<registries, overlapped>>
      BY <2>3 DEF NewBus
    <3> QED BY <2>2, <3>1, <3>2, <3>3 DEF RegistryTypeOK, authVars, authSeen
  <2>4. CASE /\ Receive(w, [pc |-> "addBus", asked |-> p, registry |-> next["registry"]])
             /\ NewRegistry(p)
             /\ UNCHANGED <<buses, busSeen>>
    <3>1. /\ registries' \in SUBSET Registry
          /\ next' \in [T -> Nat]
          /\ next["registry"] \in Nat
      BY <2>4, <1>1
    <3>2. [pc |-> "addBus", asked |-> p, registry |-> next["registry"]] \in Task
      BY <3>1 DEF Task
    <3>3. task' \in [Worker -> Task] /\ received' \in Nat
      BY <2>4, <3>2, GoesTyped DEF Receive, RegistryTypeOK
    <3> QED BY <2>2, <2>4, <3>1, <3>3 DEF RegistryTypeOK, authVars, authSeen, busSeen
  <2> QED BY <2>1, <2>3, <2>4
<1>4. CASE AddBus(w)
  <2>1. task[w].asked \in BusPayload /\ task[w].registry \in Nat
    BY <1>0, <1>4 DEF AddBus, Is, Task, Idle
  <2>2. /\ buses' \in SUBSET Bus
        /\ next' \in [T -> Nat]
        /\ busAsked' \in SUBSET (Nat \X BusPayload)
    BY <2>1, <1>2, <1>4 DEF AddBus
  <2>3. task' \in [Worker -> Task]
    BY <1>4, GoesTyped, IdleTyped DEF AddBus, RegistryTypeOK
  <2>4. UNCHANGED <<registries, overlapped, authVars, received, authSeen>>
    BY <1>4 DEF AddBus, NewBus
  <2> QED BY <2>2, <2>3, <2>4 DEF RegistryTypeOK, authVars, authSeen
<1>5. CASE LoadBus(w)
  <2>1. PICK p \in BusPayload, b \in buses :
          \E f \in IF p.registry = None THEN {b.registry} ELSE FirstRegistry(p.registry) :
            Receive(w, [pc |-> "editBus", asked |-> p, row |-> b, found |-> f])
    BY <1>5 DEF LoadBus
  <2>2. PICK f \in IF p.registry = None THEN {b.registry} ELSE FirstRegistry(p.registry) :
          Receive(w, [pc |-> "editBus", asked |-> p, row |-> b, found |-> f])
    BY <2>1
  <2>3. b \in Bus /\ f \in Nat
    BY <2>2 DEF FirstRegistry, RegistryTypeOK, Registry, Bus
  <2>4. [pc |-> "editBus", asked |-> p, row |-> b, found |-> f] \in Task
    BY <2>3 DEF Task
  <2>5. task' \in [Worker -> Task] /\ received' \in Nat
    BY <2>2, <2>4, GoesTyped DEF Receive, RegistryTypeOK
  <2> QED
    BY <1>5, <2>5 DEF LoadBus, RegistryTypeOK, busVars, authVars, busSeen, authSeen
<1>6. ASSUME NEW i \in Nat, Commit(w, i), task[w].asked \in BusPayload
      PROVE  /\ task' \in [Worker -> Task]
             /\ busAsked' \in SUBSET (Nat \X BusPayload)
             /\ overlapped' \in SUBSET Nat
  <2>1. Goes(w, Idle)
    BY <1>6 DEF Commit
  <2>2. task' \in [Worker -> Task]
    BY <2>1, GoesTyped, IdleTyped DEF RegistryTypeOK
  <2>3. busAsked' \in SUBSET (Nat \X BusPayload)
    BY <1>6 DEF Commit, RegistryTypeOK
  <2>4. overlapped' \subseteq overlapped \cup {i}
    BY <1>6 DEF Commit
  <2>5. overlapped' \in SUBSET Nat
    BY <2>4 DEF RegistryTypeOK
  <2> QED BY <2>2, <2>3, <2>5
<1>7. CASE EditBus(w)
  <2>1. /\ task[w].asked \in BusPayload /\ task[w].row \in Bus /\ task[w].found \in Nat
    BY <1>0, <1>7 DEF EditBus, Is, Task, Idle
  <2>2. task[w].row.id \in Nat
    BY <2>1 DEF Bus
  <2>3. \A b \in buses : Edited(b, task[w]) \in Bus
    BY <2>1, Payloads DEF Edited, Column, RegistryTypeOK, Bus
  <2>4. buses' \in SUBSET Bus
    BY <2>3, <1>7 DEF EditBus, RegistryTypeOK
  <2> QED
    BY <2>1, <2>2, <2>4, <1>6, <1>7 DEF EditBus, RegistryTypeOK, authVars, authSeen
<1>8. CASE AddRegistry(w)
  <2>1. task[w].asked \in BusPayload /\ task[w].row \in Bus
    BY <1>0, <1>8 DEF AddRegistry, Is, Task, Idle
  <2>2. /\ registries' \in SUBSET Registry
        /\ next' \in [T -> Nat]
        /\ next["registry"] \in Nat
    BY <2>1, <1>1, <1>8 DEF AddRegistry
  <2>3. [pc |-> "rewriteBus", asked |-> task[w].asked, id |-> task[w].row.id,
         registry |-> next["registry"]] \in Task
    BY <2>1, <2>2 DEF Task, Bus
  <2>4. task' \in [Worker -> Task]
    BY <2>3, <1>8, GoesTyped DEF AddRegistry, RegistryTypeOK
  <2> QED
    BY <2>2, <2>4, <1>8 DEF AddRegistry, RegistryTypeOK, authVars, busSeen, authSeen
<1>9. CASE RewriteBus(w)
  <2>1. task[w].asked \in BusPayload /\ task[w].id \in Nat /\ task[w].registry \in Nat
    BY <1>0, <1>9 DEF RewriteBus, Is, Task, Idle
  <2>2. \A b \in buses :
          [id |-> b.id, host |-> task[w].asked.host, port |-> task[w].asked.port,
           auth |-> task[w].asked.auth, registry |-> task[w].registry] \in Bus
    BY <2>1, Payloads DEF RegistryTypeOK, Bus
  <2>3. buses' \in SUBSET Bus
    BY <2>2, <1>9 DEF RewriteBus, RegistryTypeOK
  <2> QED
    BY <2>1, <2>3, <1>6, <1>9 DEF RewriteBus, RegistryTypeOK, authVars, authSeen
<1> QED
  BY <1>3, <1>4, <1>5, <1>7, <1>8, <1>9 DEF BusStep

(* Every step of a request about an auth_type keeps the types.             *)
LEMMA AuthStepTyped ==
  ASSUME RegistryTypeOK, NEW w \in Worker, AuthStep(w)
  PROVE  RegistryTypeOK'
<1> DEFINE T == {"registry", "bus", "info", "auth"}
<1>0. task[w] \in Task
  BY DEF RegistryTypeOK
<1>1. CASE CheckAuth(w)
  <2>1. PICK p \in AuthPayload :
          /\ Receive(w, [pc |-> "addInfo", asked |-> p])
          /\ given' = given \cup {<<p.host, p.credentials>>}
    BY <1>1 DEF CheckAuth
  <2>2. [pc |-> "addInfo", asked |-> p] \in Task
    BY DEF Task
  <2>3. task' \in [Worker -> Task] /\ received' \in Nat
    BY <2>1, <2>2, GoesTyped DEF Receive, RegistryTypeOK
  <2>4. given' \in SUBSET (Host \X Credentials)
    BY <2>1, Payloads DEF RegistryTypeOK
  <2> QED
    BY <1>1, <2>3, <2>4 DEF CheckAuth, RegistryTypeOK, busVars, authVars, busSeen
<1>2. CASE AddInfo(w)
  <2>1. task[w].asked \in AuthPayload
    BY <1>0, <1>2 DEF AddInfo, Is, Task, Idle
  <2>2. next["info"] \in Nat /\ next' \in [T -> Nat]
    BY <1>2, TakesTyped DEF AddInfo
  <2>3. [id |-> next["info"], kind |-> task[w].asked.kind,
         credentials |-> task[w].asked.credentials] \in Info
    BY <2>1, <2>2, Payloads DEF Info
  <2>4. infos' \in SUBSET Info
    BY <1>2, <2>3 DEF AddInfo, RegistryTypeOK
  <2>5. [pc |-> "addAuth", asked |-> task[w].asked, info |-> next["info"]] \in Task
    BY <2>1, <2>2 DEF Task
  <2>6. task' \in [Worker -> Task]
    BY <2>5, <1>2, GoesTyped DEF AddInfo, RegistryTypeOK
  <2> QED
    BY <1>2, <2>2, <2>4, <2>6 DEF AddInfo, RegistryTypeOK, busVars, busSeen, authSeen
<1>3. CASE AddAuth(w)
  <2>1. task[w].asked \in AuthPayload /\ task[w].info \in Nat
    BY <1>0, <1>3 DEF AddAuth, Is, Task, Idle
  <2>2. next["auth"] \in Nat /\ next' \in [T -> Nat]
    BY <1>3, TakesTyped DEF AddAuth
  <2>3. [id |-> next["auth"], kind |-> task[w].asked.kind, host |-> task[w].asked.host,
         info |-> task[w].info] \in Auth
    BY <2>1, <2>2, Payloads DEF Auth
  <2>4. auths' \in SUBSET Auth
    BY <1>3, <2>3 DEF AddAuth, RegistryTypeOK
  <2>5. task' \in [Worker -> Task]
    BY <1>3, GoesTyped, IdleTyped DEF AddAuth, RegistryTypeOK
  <2> QED
    BY <1>3, <2>2, <2>4, <2>5 DEF AddAuth, RegistryTypeOK, busVars, busSeen, authSeen
<1>4. CASE LoadAuth(w)
  <2>1. PICK p \in AuthPayload, a \in auths, i \in infos :
          /\ Receive(w, [pc |-> "editInfo", asked |-> p, row |-> a,
                         loaded |-> i.credentials])
          /\ given' = given \cup {<<p.host, p.credentials>>}
          /\ moved' = IF p.host = a.host THEN moved ELSE moved \cup {a.host, p.host}
    BY <1>4 DEF LoadAuth, InfoOf
  <2>2. a \in Auth /\ i.credentials \in Credentials
    BY DEF RegistryTypeOK, Info
  <2>3. [pc |-> "editInfo", asked |-> p, row |-> a, loaded |-> i.credentials] \in Task
    BY <2>2 DEF Task
  <2>4. task' \in [Worker -> Task] /\ received' \in Nat
    BY <2>1, <2>3, GoesTyped DEF Receive, RegistryTypeOK
  <2>5. given' \in SUBSET (Host \X Credentials)
    BY <2>1, Payloads DEF RegistryTypeOK
  <2>6. moved' \in SUBSET Host
    BY <2>1, <2>2, Payloads DEF RegistryTypeOK, Auth
  <2> QED
    BY <1>4, <2>4, <2>5, <2>6 DEF LoadAuth, RegistryTypeOK, busVars, authVars, busSeen
<1>5. CASE EditInfo(w)
  <2>1. /\ task[w].asked \in AuthPayload /\ task[w].row \in Auth
    BY <1>0, <1>5 DEF EditInfo, Is, Task, Idle
  <2>2. \A i \in infos :
          [i EXCEPT !.credentials = Column(task[w].loaded, task[w].asked.credentials, @)]
            \in Info
    BY <2>1, Payloads DEF Column, RegistryTypeOK, Info
  <2>3. infos' \in SUBSET Info
    BY <1>5, <2>2 DEF EditInfo, RegistryTypeOK
  <2>4. [pc |-> "rewriteAuth", asked |-> task[w].asked, id |-> task[w].row.id] \in Task
    BY <2>1 DEF Task, Auth
  <2>5. task' \in [Worker -> Task]
    BY <2>4, <1>5, GoesTyped DEF EditInfo, RegistryTypeOK
  <2> QED
    BY <1>5, <2>3, <2>5 DEF EditInfo, RegistryTypeOK, busVars, busSeen, authSeen
<1>6. CASE RewriteAuth(w)
  <2>0. task[w].pc = "rewriteAuth"
    BY <1>6 DEF RewriteAuth, Is
  <2>1. task[w].asked \in AuthPayload
    BY <1>0, <2>0 DEF Task, Idle
  <2>2. \A a \in auths :
          [a EXCEPT !.kind = task[w].asked.kind, !.host = task[w].asked.host] \in Auth
    BY <2>1, Payloads DEF RegistryTypeOK, Auth
  <2>3. auths' \in SUBSET Auth
    BY <1>6, <2>2 DEF RewriteAuth, RegistryTypeOK
  <2>4. task' \in [Worker -> Task]
    BY <1>6, GoesTyped, IdleTyped DEF RewriteAuth, RegistryTypeOK
  <2> QED
    BY <1>6, <2>3, <2>4 DEF RewriteAuth, RegistryTypeOK, busVars, busSeen, authSeen
<1>7. CASE DeleteAuth(w)
  <2>1. task' \in [Worker -> Task] /\ received' \in Nat
    BY <1>7, GoesTyped, IdleTyped DEF DeleteAuth, Receive, RegistryTypeOK
  <2>2. auths' \in SUBSET Auth /\ abandoned' \in SUBSET Nat
    BY <1>7 DEF DeleteAuth, RegistryTypeOK, Auth
  <2> QED
    BY <1>7, <2>1, <2>2 DEF DeleteAuth, RegistryTypeOK, busVars, busSeen
<1> QED
  BY <1>1, <1>2, <1>3, <1>4, <1>5, <1>6, <1>7 DEF AuthStep

(* A request that fails keeps the types.                                   *)
LEMMA FailTyped ==
  ASSUME RegistryTypeOK, NEW w \in Worker, Fail(w)
  PROVE  RegistryTypeOK'
<1>1. task[w] \in Task
  BY DEF RegistryTypeOK
<1>2. Is(w, "addAuth") => task[w].info \in Nat
  BY <1>1 DEF Is, Task, Idle
<1>3. abandoned' \in SUBSET Nat
  BY <1>2 DEF Fail, RegistryTypeOK
<1>4. task' \in [Worker -> Task]
  BY GoesTyped, IdleTyped DEF Fail, RegistryTypeOK
<1> QED
  BY <1>3, <1>4 DEF Fail, RegistryTypeOK, busVars, authVars, busSeen

(* Every step keeps the types.                                             *)
LEMMA RegistryTypeStep == RegistryTypeOK /\ [RegistryNext]_registryVars => RegistryTypeOK'
<1> SUFFICES ASSUME RegistryTypeOK, [RegistryNext]_registryVars PROVE RegistryTypeOK'
  OBVIOUS
<1>1. CASE UNCHANGED registryVars
  BY <1>1 DEF registryVars, busVars, authVars, busSeen, authSeen, RegistryTypeOK
<1> QED
  BY <1>1, BusStepTyped, AuthStepTyped, FailTyped DEF RegistryNext

(* The tables of buses, registries and credentials and the requests in     *)
(* progress are type correct, for any number of workers and any payloads.  *)
THEOREM RegistryTyped == RegistrySpec => []RegistryTypeOK
<1>1. RegistryInit => RegistryTypeOK BY RegistryTypeInit
<1>2. RegistryTypeOK /\ [RegistryNext]_registryVars => RegistryTypeOK' BY RegistryTypeStep
<1> QED BY <1>1, <1>2, PTL DEF RegistrySpec
-----------------------------------------------------------------------------
(* A worker goes on to t, the others stay where they are.                  *)
LEMMA OtherTasks ==
  ASSUME NEW w \in Worker, NEW t, task \in [Worker -> Task], Goes(w, t)
  PROVE  /\ task'[w] = t
         /\ \A u \in Worker : u # w => task'[u] = task[u]
BY DEF Goes

(* Registry rows are only added.                                           *)
LEMMA HasStays ==
  ASSUME registries \subseteq registries', NEW i, NEW settings, Has(registries, i, settings)
  PROVE  Has(registries', i, settings)
BY DEF Has

(* A new registry row has the settings asked for.                          *)
LEMMA NewRegistryHas ==
  ASSUME NEW p, NewRegistry(p)
  PROVE  /\ registries \subseteq registries'
         /\ Has(registries', next["registry"], p.registry)
<1> DEFINE r == [id |-> next["registry"], settings |-> p.registry]
<1>1. r \in registries' /\ registries \subseteq registries'
  BY DEF NewRegistry
<1>2. r.id = next["registry"] /\ r.settings = p.registry
  OBVIOUS
<1> QED BY <1>1, <1>2 DEF Has

(* What keeps a bus as asked: it is not written, and what is known of it    *)
(* stays known.                                                            *)
LEMMA UnwrittenAsAsked ==
  ASSUME BusAsAsked, registries \subseteq registries', busAsked \subseteq busAsked',
         overlapped \subseteq overlapped',
         NEW b \in buses, b.id \notin overlapped'
  PROVE  AsAsked(b, registries', busAsked')
<1>1. PICK p \in BusPayload :
        /\ <<b.id, p>> \in busAsked
        /\ b.host = p.host /\ b.port = p.port /\ b.auth = p.auth
        /\ b.registry # 0 =>
             \E r \in registries, q \in BusPayload :
               /\ r.id = b.registry /\ r.settings = q.registry
               /\ <<b.id, q>> \in busAsked
  BY DEF BusAsAsked, AsAsked
<1>2. b.registry # 0 =>
        \E r \in registries', q \in BusPayload :
          /\ r.id = b.registry /\ r.settings = q.registry
          /\ <<b.id, q>> \in busAsked'
  BY <1>1
<1> QED BY <1>1, <1>2 DEF AsAsked

(* A bus written with all that one request asks for is as asked.           *)
LEMMA WrittenAsAsked ==
  ASSUME NEW b, NEW p \in BusPayload, <<b.id, p>> \in busAsked',
         b.host = p.host, b.port = p.port, b.auth = p.auth,
         b.registry # 0 => Has(registries', b.registry, p.registry)
  PROVE  AsAsked(b, registries', busAsked')
<1>1. b.registry # 0 =>
        \E r \in registries' : r.id = b.registry /\ r.settings = p.registry
  BY DEF Has
<1> QED BY <1>1 DEF AsAsked

(* A new bus row, committed by a worker that is then idle.                 *)
LEMMA NewBusInv ==
  ASSUME RegistryTypeOK, BusInv, NEW w \in Worker, NEW p \in BusPayload, NEW i \in Nat,
         i # 0 => Has(registries, i, p.registry),
         NewBus(p, i), Goes(w, Idle)
  PROVE  BusInv'
<1> DEFINE new == [id |-> next["bus"], host |-> p.host, port |-> p.port,
                   auth |-> p.auth, registry |-> i]
<1>1. /\ next["bus"] \in Nat
      /\ next'["bus"] = next["bus"] + 1
  BY TakesTyped DEF NewBus
<1>2. /\ buses' = buses \cup {new}
      /\ busAsked' = busAsked \cup {<<next["bus"], p>>}
      /\ UNCHANGED <<registries, overlapped>>
  BY DEF NewBus
<1>3. /\ ~Is(w, "addBus")' /\ ~Is(w, "rewriteBus")' /\ ~Is(w, "editBus")'
      /\ \A u \in Worker : u # w => task'[u] = task[u]
  BY OtherTasks DEF Is, Idle, RegistryTypeOK
<1>4. \A b \in buses : b.id \in Nat /\ b.id < next["bus"]
  BY DEF BusInv, BusIds, RegistryTypeOK, Bus
<1>5. new.id = next["bus"]
  OBVIOUS
<1>6. BusAsAsked'
  <2>1. ASSUME NEW b \in buses', b.id \notin overlapped'
        PROVE  AsAsked(b, registries', busAsked')
    <3>1. CASE b \in buses
      BY <1>2, <2>1, <3>1, UnwrittenAsAsked DEF BusInv
    <3>2. CASE b = new
      <4>1. i # 0 => Has(registries', i, p.registry)
        BY <1>2, HasStays
      <4>2. /\ <<new.id, p>> \in busAsked' /\ new.host = p.host /\ new.port = p.port
            /\ new.auth = p.auth /\ new.registry = i
        BY <1>2
      <4> QED BY <3>2, <4>1, <4>2, WrittenAsAsked
    <3> QED BY <1>2, <3>1, <3>2
  <2> QED BY <2>1 DEF BusAsAsked
<1>7. BusIds'
  <2>1. \A b, q \in buses : b.id = q.id => b = q
    BY DEF BusInv, BusIds
  <2>2. \A b \in buses' : b \in buses \/ b = new
    BY <1>2
  <2>3. \A b \in buses' : b.id < next'["bus"]
    BY <1>1, <1>4, <1>5, <2>2
  <2>4. \A b, q \in buses' : b.id = q.id => b = q
    BY <1>1, <1>4, <1>5, <2>1, <2>2
  <2> QED BY <2>3, <2>4 DEF BusIds
<1>8. OwnRegistry'
  BY <1>2, <1>3, HasStays DEF BusInv, OwnRegistry, Is
<1>9. LoadedBus'
  <2>1. SUFFICES ASSUME NEW u \in Worker, Is(u, "editBus")'
                 PROVE  /\ task'[u].row.id < next'["bus"]
                        /\ IF task'[u].asked.registry = None
                           THEN task'[u].found = task'[u].row.registry
                           ELSE task'[u].found # 0 =>
                                  Has(registries', task'[u].found, task'[u].asked.registry)
                        /\ \A b \in buses' :
                             b.id = task'[u].row.id /\ b.id \notin overlapped'
                               => b = task'[u].row
    BY DEF LoadedBus
  <2>2. task'[u] = task[u] /\ Is(u, "editBus")
    BY <1>3, <2>1 DEF Is
  <2>3. task[u].row.id \in Nat
    <3>1. task[u] \in Task /\ task[u].pc = "editBus"
      BY <2>2 DEF RegistryTypeOK, Is
    <3>2. task[u].row \in Bus
      BY <3>1 DEF Task, Idle
    <3> QED BY <3>2 DEF Bus
  <2>4. /\ task[u].row.id < next["bus"]
        /\ IF task[u].asked.registry = None THEN task[u].found = task[u].row.registry
           ELSE task[u].found # 0 => Has(registries, task[u].found, task[u].asked.registry)
        /\ \A b \in buses : b.id = task[u].row.id /\ b.id \notin overlapped => b = task[u].row
    BY <2>2 DEF BusInv, LoadedBus
  <2>5. registries' = registries /\ overlapped' = overlapped
    BY <1>2
  <2>6. \A b \in buses' : b.id = task[u].row.id => b \in buses
    BY <1>2, <1>5, <2>3, <2>4, <1>1
  <2> QED BY <1>1, <2>2, <2>3, <2>4, <2>5, <2>6
<1> QED BY <1>6, <1>7, <1>8, <1>9 DEF BusInv

(* The request of w goes on, and the buses stay as they are.               *)
LEMMA BusesStay ==
  ASSUME RegistryTypeOK, BusInv, NEW w \in Worker, NEW t, Goes(w, t),
         UNCHANGED <<buses, busSeen>>, registries \subseteq registries',
         next["bus"] \in Nat, next'["bus"] = next["bus"],
         t.pc \in {"addBus", "rewriteBus"} =>
           Has(registries', t.registry, t.asked.registry),
         t.pc = "editBus" =>
           /\ t.row.id < next["bus"]
           /\ IF t.asked.registry = None THEN t.found = t.row.registry
              ELSE t.found # 0 => Has(registries', t.found, t.asked.registry)
           /\ \A b \in buses : b.id = t.row.id /\ b.id \notin overlapped => b = t.row
  PROVE  BusInv'
<1>1. /\ task'[w] = t
      /\ \A u \in Worker : u # w => task'[u] = task[u]
  BY OtherTasks DEF RegistryTypeOK
<1>2. buses' = buses /\ busAsked' = busAsked /\ overlapped' = overlapped
  BY DEF busSeen
<1>3. BusAsAsked'
  BY <1>2, UnwrittenAsAsked DEF BusInv, BusAsAsked
<1>4. BusIds'
  BY <1>2 DEF BusInv, BusIds
<1>5. OwnRegistry'
  <2>1. ASSUME NEW u \in Worker, task'[u].pc \in {"addBus", "rewriteBus"}
        PROVE  Has(registries', task'[u].registry, task'[u].asked.registry)
    <3>1. CASE u = w
      BY <1>1, <2>1, <3>1
    <3>2. CASE u # w
      <4>1. Has(registries, task[u].registry, task[u].asked.registry)
        BY <1>1, <2>1, <3>2 DEF BusInv, OwnRegistry, Is
      <4> QED BY <1>1, <3>2, <4>1, HasStays
    <3> QED BY <3>1, <3>2
  <2> QED BY <2>1 DEF OwnRegistry, Is
<1>6. LoadedBus'
  <2>1. ASSUME NEW u \in Worker, task'[u].pc = "editBus"
        PROVE  /\ task'[u].row.id < next'["bus"]
               /\ IF task'[u].asked.registry = None
                  THEN task'[u].found = task'[u].row.registry
                  ELSE task'[u].found # 0 =>
                         Has(registries', task'[u].found, task'[u].asked.registry)
               /\ \A b \in buses' :
                    b.id = task'[u].row.id /\ b.id \notin overlapped' => b = task'[u].row
    <3>1. CASE u = w
      BY <1>1, <1>2, <2>1, <3>1
    <3>2. CASE u # w
      <4>1. /\ task[u].row.id < next["bus"]
            /\ IF task[u].asked.registry = None THEN task[u].found = task[u].row.registry
               ELSE task[u].found # 0 => Has(registries, task[u].found, task[u].asked.registry)
            /\ \A b \in buses :
                 b.id = task[u].row.id /\ b.id \notin overlapped => b = task[u].row
        BY <1>1, <2>1, <3>2 DEF BusInv, LoadedBus, Is
      <4> QED BY <1>1, <1>2, <3>2, <4>1, HasStays
    <3> QED BY <3>1, <3>2
  <2> QED BY <2>1 DEF LoadedBus, Is
<1> QED BY <1>3, <1>4, <1>5, <1>6 DEF BusInv

(* The request of w commits bus i, which is as asked unless it overlapped, *)
(* and the other buses stay as they are.                                   *)
LEMMA BusCommitted ==
  ASSUME RegistryTypeOK, BusInv, NEW w \in Worker, NEW i, Commit(w, i),
         UNCHANGED <<registries, next>>,
         \A b \in buses' :
           \/ b \in buses /\ b.id # i
           \/ /\ b.id = i /\ (\E q \in buses : q.id = i)
              /\ i \notin overlapped' => AsAsked(b, registries', busAsked'),
         \A b, q \in buses' : b.id = q.id => b = q
  PROVE  BusInv'
<1>1. /\ task'[w] = Idle
      /\ \A u \in Worker : u # w => task'[u] = task[u]
  BY OtherTasks DEF RegistryTypeOK, Commit
<1>2. busAsked \subseteq busAsked' /\ overlapped \subseteq overlapped'
  BY DEF Commit
<1>3. \A u \in Worker : u # w /\ task[u].pc = "editBus" /\ task[u].row.id = i => i \in overlapped'
  BY DEF Commit, Is
<1>4. BusAsAsked'
  <2>1. ASSUME NEW b \in buses', b.id \notin overlapped'
        PROVE  AsAsked(b, registries', busAsked')
    <3>1. CASE b \in buses /\ b.id # i
      BY <1>2, <2>1, <3>1, UnwrittenAsAsked DEF BusInv
    <3> QED BY <2>1, <3>1
  <2> QED BY <2>1 DEF BusAsAsked
<1>5. BusIds'
  BY DEF BusInv, BusIds
<1>6. OwnRegistry'
  BY <1>1 DEF BusInv, OwnRegistry, Is, Idle
<1>7. LoadedBus'
  <2>1. ASSUME NEW u \in Worker, task'[u].pc = "editBus"
        PROVE  /\ task'[u].row.id < next'["bus"]
               /\ IF task'[u].asked.registry = None
                  THEN task'[u].found = task'[u].row.registry
                  ELSE task'[u].found # 0 =>
                         Has(registries', task'[u].found, task'[u].asked.registry)
               /\ \A b \in buses' :
                    b.id = task'[u].row.id /\ b.id \notin overlapped' => b = task'[u].row
    <3>1. u # w /\ task'[u] = task[u]
      BY <1>1, <2>1 DEF Idle
    <3>2. /\ task[u].row.id < next["bus"]
          /\ IF task[u].asked.registry = None THEN task[u].found = task[u].row.registry
             ELSE task[u].found # 0 => Has(registries, task[u].found, task[u].asked.registry)
          /\ \A b \in buses :
               b.id = task[u].row.id /\ b.id \notin overlapped => b = task[u].row
      BY <2>1, <3>1 DEF BusInv, LoadedBus, Is
    <3>3. ASSUME NEW b \in buses', b.id = task[u].row.id, b.id \notin overlapped'
          PROVE  b = task[u].row
      <4>1. b.id # i
        BY <1>3, <2>1, <3>1, <3>3
      <4> QED BY <1>2, <3>2, <3>3, <4>1
    <3> QED BY <3>1, <3>2, <3>3
  <2> QED BY <2>1 DEF LoadedBus, Is
<1> QED BY <1>4, <1>5, <1>6, <1>7 DEF BusInv

(* Every step of a request about a bus keeps the buses as asked.           *)
LEMMA BusInvBusStep ==
  ASSUME RegistryTypeOK, BusInv, NEW w \in Worker, BusStep(w)
  PROVE  BusInv'
<1>0. task[w] \in Task /\ next["bus"] \in Nat /\ next["registry"] \in Nat
  BY DEF RegistryTypeOK
<1>1. ASSUME NEW p, NewRegistry(p)
      PROVE  next'["bus"] = next["bus"]
  BY <1>1 DEF NewRegistry, Takes, RegistryTypeOK
<1>2. CASE CreateBus(w)
  <2>1. PICK p \in BusPayload :
          \/ /\ p.registry = None
             /\ Receive(w, Idle)
             /\ NewBus(p, 0)
          \/ /\ p.registry # None
             /\ Receive(w, [pc |-> "addBus", asked |-> p, registry |-> next["registry"]])
             /\ NewRegistry(p)
             /\ UNCHANGED <<buses, busSeen>>
    BY <1>2 DEF CreateBus
  <2>2. CASE Receive(w, Idle) /\ NewBus(p, 0)
    BY <2>2, NewBusInv DEF Receive
  <2>3. CASE /\ Receive(w, [pc |-> "addBus", asked |-> p, registry |-> next["registry"]])
             /\ NewRegistry(p)
             /\ UNCHANGED <<buses, busSeen>>
    <3> DEFINE t == [pc |-> "addBus", asked |-> p, registry |-> next["registry"]]
    <3>1. Goes(w, t)
      BY <2>3 DEF Receive
    <3>2. registries \subseteq registries' /\ Has(registries', t.registry, t.asked.registry)
      BY <2>3, NewRegistryHas
    <3>3. t.pc # "editBus"
      OBVIOUS
    <3> HIDE DEF t
    <3> QED BY <1>0, <1>1, <2>3, <3>1, <3>2, <3>3, BusesStay
  <2> QED BY <2>1, <2>2, <2>3
<1>3. CASE AddBus(w)
  <2>1. task[w].pc = "addBus"
    BY <1>3 DEF AddBus, Is
  <2>2. task[w].asked \in BusPayload /\ task[w].registry \in Nat
    BY <1>0, <2>1 DEF Task, Idle
  <2>3. Has(registries, task[w].registry, task[w].asked.registry)
    BY <2>1 DEF BusInv, OwnRegistry, Is
  <2> QED BY <1>3, <2>2, <2>3, NewBusInv DEF AddBus
<1>4. CASE LoadBus(w)
  <2>1. PICK p \in BusPayload, b \in buses :
          \E f \in IF p.registry = None THEN {b.registry} ELSE FirstRegistry(p.registry) :
            Receive(w, [pc |-> "editBus", asked |-> p, row |-> b, found |-> f])
    BY <1>4 DEF LoadBus
  <2>2. PICK f \in IF p.registry = None THEN {b.registry} ELSE FirstRegistry(p.registry) :
          Receive(w, [pc |-> "editBus", asked |-> p, row |-> b, found |-> f])
    BY <2>1
  <2> DEFINE t == [pc |-> "editBus", asked |-> p, row |-> b, found |-> f]
  <2>3. Goes(w, t)
    BY <2>2 DEF Receive
  <2>4. /\ UNCHANGED <<buses, busSeen>> /\ registries' = registries
        /\ next' = next
    BY <1>4 DEF LoadBus, busVars
  <2>5. IF p.registry = None THEN f = b.registry
        ELSE f # 0 => Has(registries, f, p.registry)
    <3>1. CASE p.registry = None
      BY <3>1
    <3>2. CASE p.registry # None
      <4>1. f \in FirstRegistry(p.registry)
        BY <3>2
      <4>2. f # 0 => \E r \in registries : r.settings = p.registry /\ f = r.id
        BY <4>1 DEF FirstRegistry
      <4> QED BY <3>2, <4>2 DEF Has
    <3> QED BY <3>1, <3>2
  <2>6. b.id < next["bus"] /\ \A q \in buses : q.id = b.id => q = b
    BY DEF BusInv, BusIds
  <2>7. /\ t.pc = "editBus" /\ t.row = b /\ t.found = f /\ t.asked = p
    OBVIOUS
  <2> HIDE DEF t
  <2> QED BY <1>0, <2>3, <2>4, <2>5, <2>6, <2>7, BusesStay
<1>5. CASE EditBus(w)
  <2> DEFINE t == task[w]
  <2>1. /\ t.pc = "editBus"
        /\ t.asked.registry = None \/ t.found # 0
        /\ buses' = {IF b.id = t.row.id THEN Edited(b, t) ELSE b : b \in buses}
        /\ Commit(w, t.row.id)
        /\ UNCHANGED <<registries, next>>
    BY <1>5 DEF EditBus, Is
  <2>2. t.asked \in BusPayload /\ t.row \in Bus /\ t.found \in Nat
    BY <1>0, <2>1 DEF Task, Idle
  <2>3. \A b \in buses : b \in Bus /\ Edited(b, t).id = b.id
    BY DEF RegistryTypeOK, Bus, Edited
  <2>4. \A b, q \in buses' : b.id = q.id => b = q
    BY <2>1, <2>3 DEF BusInv, BusIds
  <2>5. /\ IF t.asked.registry = None THEN t.found = t.row.registry
           ELSE t.found # 0 => Has(registries, t.found, t.asked.registry)
        /\ \A b \in buses : b.id = t.row.id /\ b.id \notin overlapped => b = t.row
    BY <2>1 DEF BusInv, LoadedBus, Is
  <2>6. overlapped \subseteq overlapped' /\ <<t.row.id, t.asked>> \in busAsked'
        /\ busAsked \subseteq busAsked'
    BY <2>1 DEF Commit
  <2>7. ASSUME NEW b \in buses, b.id = t.row.id, b.id \notin overlapped'
        PROVE  AsAsked(Edited(b, t), registries', busAsked')
    <3>1. b = t.row
      BY <2>5, <2>6, <2>7
    <3> DEFINE e == Edited(b, t)
    <3>2. /\ e.id = t.row.id /\ e.host = t.asked.host /\ e.port = t.asked.port
          /\ e.auth = t.asked.auth /\ e.registry = t.found
      BY <2>2, <3>1 DEF Edited, Column, Bus
    <3> HIDE DEF e
    <3> SUFFICES AsAsked(e, registries', busAsked')
      BY DEF e
    <3>3. CASE t.asked.registry = None
      <4>1. AsAsked(b, registries, busAsked)
        BY <2>6, <2>7 DEF BusInv, BusAsAsked
      <4>2. e.registry = b.registry /\ e.id = b.id
        BY <2>5, <3>1, <3>2, <3>3
      <4>3. e.registry # 0 =>
              \E r \in registries', q \in BusPayload :
                r.id = e.registry /\ r.settings = q.registry /\ <<e.id, q>> \in busAsked'
        BY <2>1, <2>6, <4>1, <4>2 DEF AsAsked
      <4> QED BY <2>2, <2>6, <3>2, <4>3 DEF AsAsked
    <3>4. CASE t.asked.registry # None
      <4>1. Has(registries', e.registry, t.asked.registry)
        BY <2>1, <2>5, <3>2, <3>4
      <4> QED BY <2>2, <2>6, <3>2, <4>1, WrittenAsAsked
    <3> QED BY <3>3, <3>4
  <2>8. \A b \in buses' :
          \/ b \in buses /\ b.id # t.row.id
          \/ /\ b.id = t.row.id /\ (\E q \in buses : q.id = t.row.id)
             /\ t.row.id \notin overlapped' => AsAsked(b, registries', busAsked')
    BY <2>1, <2>3, <2>7
  <2> QED BY <2>1, <2>4, <2>8, BusCommitted
<1>6. CASE AddRegistry(w)
  <2> DEFINE t == [pc |-> "rewriteBus", asked |-> task[w].asked, id |-> task[w].row.id,
                   registry |-> next["registry"]]
  <2>1. /\ NewRegistry(task[w].asked) /\ Goes(w, t) /\ UNCHANGED <<buses, busSeen>>
    BY <1>6 DEF AddRegistry
  <2>2. registries \subseteq registries' /\ Has(registries', t.registry, t.asked.registry)
    BY <2>1, NewRegistryHas
  <2>3. t.pc # "editBus"
    OBVIOUS
  <2> HIDE DEF t
  <2> QED BY <1>0, <1>1, <2>1, <2>2, <2>3, BusesStay
<1>7. CASE RewriteBus(w)
  <2> DEFINE t == task[w]
             R(b) == [id |-> b.id, host |-> t.asked.host, port |-> t.asked.port,
                      auth |-> t.asked.auth, registry |-> t.registry]
  <2>1. /\ t.pc = "rewriteBus"
        /\ buses' = {IF b.id = t.id THEN R(b) ELSE b : b \in buses}
        /\ Commit(w, t.id)
        /\ UNCHANGED <<registries, next>>
    BY <1>7 DEF RewriteBus, Is
  <2>2. t.asked \in BusPayload
    BY <1>0, <2>1 DEF Task, Idle
  <2>3. Has(registries', t.registry, t.asked.registry)
    BY <2>1 DEF BusInv, OwnRegistry, Is
  <2>4. <<t.id, t.asked>> \in busAsked'
    BY <2>1 DEF Commit
  <2>5. ASSUME NEW b \in buses, b.id = t.id
        PROVE  AsAsked(R(b), registries', busAsked')
    <3>1. /\ R(b).id = t.id /\ R(b).host = t.asked.host /\ R(b).port = t.asked.port
          /\ R(b).auth = t.asked.auth /\ R(b).registry = t.registry
      BY <2>5
    <3> HIDE DEF R
    <3> QED BY <2>2, <2>3, <2>4, <3>1, WrittenAsAsked
  <2>6. \A b \in buses : R(b).id = b.id
    OBVIOUS
  <2> HIDE DEF R
  <2>7. \A b, q \in buses' : b.id = q.id => b = q
    BY <2>1, <2>6 DEF BusInv, BusIds
  <2>8. \A b \in buses' :
          \/ b \in buses /\ b.id # t.id
          \/ /\ b.id = t.id /\ (\E q \in buses : q.id = t.id)
             /\ t.id \notin overlapped' => AsAsked(b, registries', busAsked')
    BY <2>1, <2>5, <2>6
  <2> QED BY <2>1, <2>7, <2>8, BusCommitted
<1> QED
  BY <1>2, <1>3, <1>4, <1>5, <1>6, <1>7 DEF BusStep

(* A request about an auth_type, or a failure, leaves the buses alone.     *)
LEMMA BusInvOtherStep ==
  ASSUME RegistryTypeOK, BusInv, NEW w \in Worker, AuthStep(w) \/ Fail(w)
  PROVE  BusInv'
<1>1. PICK t : Goes(w, t) /\ t.pc \notin {"addBus", "rewriteBus", "editBus"}
  <2>1. CASE CheckAuth(w)
    BY <2>1 DEF CheckAuth, Receive
  <2>2. CASE AddInfo(w)
    <3>1. Goes(w, [pc |-> "addAuth", asked |-> task[w].asked, info |-> next["info"]])
      BY <2>2 DEF AddInfo
    <3> QED BY <3>1
  <2>3. CASE AddAuth(w) \/ RewriteAuth(w) \/ DeleteAuth(w) \/ Fail(w)
    <3>1. Goes(w, Idle)
      BY <2>3 DEF AddAuth, RewriteAuth, DeleteAuth, Fail, Receive
    <3> QED BY <3>1 DEF Idle
  <2>4. CASE LoadAuth(w)
    BY <2>4 DEF LoadAuth, Receive
  <2>5. CASE EditInfo(w)
    <3>1. Goes(w, [pc |-> "rewriteAuth", asked |-> task[w].asked, id |-> task[w].row.id])
      BY <2>5 DEF EditInfo
    <3> QED BY <3>1
  <2> QED BY <2>1, <2>2, <2>3, <2>4, <2>5 DEF AuthStep
<1>2. UNCHANGED <<registries, buses, busSeen>>
  BY DEF AuthStep, CheckAuth, AddInfo, AddAuth, LoadAuth, EditInfo, RewriteAuth, DeleteAuth,
         Fail, busVars
<1>3. next["bus"] \in Nat /\ next'["bus"] = next["bus"]
  BY DEF AuthStep, CheckAuth, AddInfo, AddAuth, LoadAuth, EditInfo, RewriteAuth, DeleteAuth,
         Fail, Takes, RegistryTypeOK
<1> QED BY <1>1, <1>2, <1>3, BusesStay

(* An empty table is as asked.                                             *)
LEMMA BusInvInit == RegistryInit => BusInv
BY DEF RegistryInit, BusInv, BusAsAsked, BusIds, OwnRegistry, LoadedBus, Is, Idle

(* Every step keeps the buses as asked.                                    *)
LEMMA BusInvStep == RegistryTypeOK /\ BusInv /\ [RegistryNext]_registryVars => BusInv'
<1> SUFFICES ASSUME RegistryTypeOK, BusInv, [RegistryNext]_registryVars PROVE BusInv'
  OBVIOUS
<1>1. CASE UNCHANGED registryVars
  BY <1>1 DEF registryVars, busVars, authVars, busSeen, authSeen,
              BusInv, BusAsAsked, BusIds, OwnRegistry, LoadedBus, Is
<1> QED
  BY <1>1, BusInvBusStep, BusInvOtherStep DEF RegistryNext

(* A bus whose updates did not overlap has the columns one request asked   *)
(* for, for any number of workers, buses and requests.                     *)
THEOREM BusesAsAsked == RegistrySpec => []BusAsAsked
<1>1. RegistryInit => RegistryTypeOK /\ BusInv BY RegistryTypeInit, BusInvInit
<1>2. RegistryTypeOK /\ BusInv /\ [RegistryNext]_registryVars => (RegistryTypeOK /\ BusInv)'
  BY RegistryTypeStep, BusInvStep
<1>3. RegistryTypeOK /\ BusInv => BusAsAsked BY DEF BusInv
<1> QED BY <1>1, <1>2, <1>3, PTL DEF RegistrySpec
-----------------------------------------------------------------------------
(* What a step of a bus request leaves alone.                              *)
LEMMA BusStepLeaves ==
  ASSUME RegistryTypeOK, NEW w \in Worker, BusStep(w)
  PROVE  /\ UNCHANGED <<infos, auths, authSeen>>
         /\ next'["info"] = next["info"] /\ next'["auth"] = next["auth"]
         /\ \E t : Goes(w, t) /\ t.pc \notin {"addInfo", "addAuth", "editInfo", "rewriteAuth"}
<1>1. UNCHANGED <<infos, auths, authSeen>>
  BY DEF BusStep, CreateBus, AddBus, LoadBus, EditBus, AddRegistry, RewriteBus, authVars
<1>2. next'["info"] = next["info"] /\ next'["auth"] = next["auth"]
  BY DEF BusStep, CreateBus, AddBus, LoadBus, EditBus, AddRegistry, RewriteBus,
         NewBus, NewRegistry, Takes, RegistryTypeOK
<1>3. \E t : Goes(w, t) /\ t.pc \notin {"addInfo", "addAuth", "editInfo", "rewriteAuth"}
  <2>1. CASE CreateBus(w)
    <3>1. \E p \in BusPayload :
            \/ Goes(w, Idle)
            \/ Goes(w, [pc |-> "addBus", asked |-> p, registry |-> next["registry"]])
      BY <2>1 DEF CreateBus, Receive
    <3> QED BY <3>1 DEF Idle
  <2>2. CASE AddBus(w) \/ EditBus(w) \/ RewriteBus(w)
    <3>1. Goes(w, Idle)
      BY <2>2 DEF AddBus, EditBus, RewriteBus, Commit
    <3> QED BY <3>1 DEF Idle
  <2>3. CASE LoadBus(w)
    BY <2>3 DEF LoadBus, Receive
  <2>4. CASE AddRegistry(w)
    <3>1. Goes(w, [pc |-> "rewriteBus", asked |-> task[w].asked, id |-> task[w].row.id,
                   registry |-> next["registry"]])
      BY <2>4 DEF AddRegistry
    <3> QED BY <3>1
  <2> QED BY <2>1, <2>2, <2>3, <2>4 DEF BusStep
<1> QED BY <1>1, <1>2, <1>3

(* A step that neither inserts nor deletes keeps the owners apart.         *)
LEMMA OwnersStay ==
  ASSUME RegistryTypeOK, OwnerInv, NEW w \in Worker, NEW t, Goes(w, t),
         t.pc # "addAuth",
         UNCHANGED <<infos, auths, abandoned>>,
         next'["info"] = next["info"], next'["auth"] = next["auth"]
  PROVE  OwnerInv'
<1>1. /\ task'[w] = t
      /\ \A u \in Worker : u # w => task'[u] = task[u]
  BY OtherTasks DEF RegistryTypeOK
<1>2. OneOwner' /\ AuthIds'
  BY DEF OwnerInv, OneOwner, AuthIds
<1>3. PendingInfo'
  BY <1>1 DEF OwnerInv, PendingInfo, Is
<1> QED BY <1>2, <1>3 DEF OwnerInv

(* Every step keeps the owners of credentials apart.                       *)
LEMMA OwnerInvAuthStep ==
  ASSUME RegistryTypeOK, OwnerInv, NEW w \in Worker, AuthStep(w) \/ Fail(w)
  PROVE  OwnerInv'
<1>0. /\ task[w] \in Task /\ next["info"] \in Nat /\ next["auth"] \in Nat
      /\ task \in [Worker -> Task]
  BY DEF RegistryTypeOK
<1>1. CASE CheckAuth(w) \/ LoadAuth(w)
  <2>1. UNCHANGED <<infos, auths, next, abandoned>>
    BY <1>1 DEF CheckAuth, LoadAuth, authVars
  <2>2. PICK t : Goes(w, t) /\ t.pc # "addAuth"
    <3>1. CASE CheckAuth(w)
      BY <3>1 DEF CheckAuth, Receive
    <3>2. CASE LoadAuth(w)
      BY <3>2 DEF LoadAuth, Receive
    <3> QED BY <1>1, <3>1, <3>2
  <2> QED BY <2>1, <2>2, OwnersStay
<1>2. CASE AddInfo(w)
  <2> DEFINE t == [pc |-> "addAuth", asked |-> task[w].asked, info |-> next["info"]]
  <2>1. /\ task'[w] = t
        /\ \A u \in Worker : u # w => task'[u] = task[u]
    BY <1>0, <1>2, OtherTasks DEF AddInfo
  <2>2. /\ auths' = auths /\ abandoned' = abandoned
        /\ next'["info"] = next["info"] + 1 /\ next'["auth"] = next["auth"]
        /\ \A i \in infos' : i \in infos \/ i.id = next["info"]
    BY <1>0, <1>2 DEF AddInfo, Takes, authSeen, RegistryTypeOK
  <2>3. OneOwner'
    BY <2>2 DEF OwnerInv, OneOwner
  <2>4. AuthIds'
    BY <1>0, <2>2 DEF OwnerInv, AuthIds, RegistryTypeOK, Auth, Info
  <2>5. t.pc = "addAuth" /\ t.info = next["info"]
    OBVIOUS
  <2> HIDE DEF t
  <2>6. PendingInfo'
    <3>1. /\ \A i \in abandoned : i < next["info"] /\ i \in Nat
          /\ \A a \in auths : a.info < next["info"] /\ a.info \in Nat
          /\ \A u \in Worker : Is(u, "addAuth") =>
               /\ task[u].info < next["info"] /\ task[u].info \notin abandoned
               /\ \A a \in auths : a.info # task[u].info
      BY DEF OwnerInv, AuthIds, PendingInfo, RegistryTypeOK, Auth
    <3>2. \A u \in Worker : Is(u, "addAuth") => task[u].info \in Nat
      BY <1>0 DEF Is, Task, Idle
    <3>3. ASSUME NEW u \in Worker, task'[u].pc = "addAuth"
          PROVE  /\ task'[u].info < next'["info"] /\ task'[u].info \notin abandoned'
                 /\ \A a \in auths' : a.info # task'[u].info
      <4>1. CASE u = w
        BY <1>0, <2>1, <2>2, <2>5, <3>1, <4>1
      <4>2. CASE u # w
        BY <1>0, <2>1, <2>2, <3>1, <3>2, <3>3, <4>2 DEF Is
      <4> QED BY <4>1, <4>2
    <3>4. ASSUME NEW u \in Worker, NEW v \in Worker, task'[u].pc = "addAuth",
                 task'[v].pc = "addAuth", task'[v].info = task'[u].info
          PROVE  v = u
      <4>1. CASE u # w /\ v # w
        BY <2>1, <3>4, <4>1 DEF OwnerInv, PendingInfo, Is
      <4>2. CASE u = w \/ v = w
        BY <1>0, <2>1, <2>5, <3>1, <3>2, <3>4, <4>2 DEF Is
      <4> QED BY <4>1, <4>2
    <3> QED BY <3>3, <3>4 DEF PendingInfo, Is
  <2> QED BY <2>3, <2>4, <2>6 DEF OwnerInv
<1>3. CASE AddAuth(w)
  <2> DEFINE n == [id |-> next["auth"], kind |-> task[w].asked.kind,
                   host |-> task[w].asked.host, info |-> task[w].info]
  <2>1. /\ task'[w] = Idle
        /\ \A u \in Worker : u # w => task'[u] = task[u]
    BY <1>0, <1>3, OtherTasks DEF AddAuth
  <2>2. /\ auths' = auths \cup {n} /\ abandoned' = abandoned /\ infos' = infos
        /\ next'["info"] = next["info"] /\ next'["auth"] = next["auth"] + 1
        /\ Is(w, "addAuth")
    BY <1>0, <1>3 DEF AddAuth, Takes, authSeen, RegistryTypeOK
  <2>3. n.id = next["auth"] /\ n.info = task[w].info
    OBVIOUS
  <2> HIDE DEF n
  <2>4. /\ task[w].info < next["info"] /\ task[w].info \notin abandoned
        /\ \A a \in auths : a.info # task[w].info
        /\ \A u \in Worker : Is(u, "addAuth") /\ task[u].info = task[w].info => u = w
    BY <2>2 DEF OwnerInv, PendingInfo
  <2>5. OneOwner'
    BY <2>2, <2>3, <2>4 DEF OwnerInv, OneOwner
  <2>6. AuthIds'
    BY <1>0, <2>2, <2>3, <2>4 DEF OwnerInv, AuthIds, RegistryTypeOK, Auth
  <2>7. PendingInfo'
    BY <2>1, <2>2, <2>3, <2>4 DEF OwnerInv, PendingInfo, Is, Idle
  <2> QED BY <2>5, <2>6, <2>7 DEF OwnerInv
<1>4. CASE EditInfo(w)
  <2>1. Goes(w, [pc |-> "rewriteAuth", asked |-> task[w].asked, id |-> task[w].row.id])
    BY <1>4 DEF EditInfo
  <2>2. /\ task'[w].pc = "rewriteAuth"
        /\ \A u \in Worker : u # w => task'[u] = task[u]
    BY <1>0, <2>1, OtherTasks
  <2>3. auths' = auths /\ next' = next /\ abandoned' = abandoned
    BY <1>4 DEF EditInfo, authSeen
  <2>4. \A i \in infos' : \E k \in infos : k.id = i.id
    BY <1>4 DEF EditInfo, RegistryTypeOK, Info
  <2>5. OneOwner' /\ AuthIds'
    BY <2>3, <2>4 DEF OwnerInv, OneOwner, AuthIds
  <2>6. PendingInfo'
    BY <2>2, <2>3 DEF OwnerInv, PendingInfo, Is
  <2> QED BY <2>5, <2>6 DEF OwnerInv
<1>5. CASE RewriteAuth(w)
  <2> DEFINE t == task[w]
             R(a) == IF a.id = t.id THEN [a EXCEPT !.kind = t.asked.kind, !.host = t.asked.host]
                     ELSE a
  <2>1. /\ task'[w] = Idle
        /\ \A u \in Worker : u # w => task'[u] = task[u]
    BY <1>0, <1>5, OtherTasks DEF RewriteAuth
  <2>2. /\ infos' = infos /\ next' = next /\ abandoned' = abandoned
        /\ auths' = {R(a) : a \in auths}
    BY <1>5 DEF RewriteAuth, authSeen
  <2>3. \A a \in auths : R(a).id = a.id /\ R(a).info = a.info
    BY DEF RegistryTypeOK, Auth
  <2> HIDE DEF R
  <2>4. OneOwner'
    BY <2>2, <2>3 DEF OwnerInv, OneOwner
  <2>5. AuthIds'
    BY <2>2, <2>3 DEF OwnerInv, AuthIds
  <2>6. PendingInfo'
    BY <2>1, <2>2, <2>3 DEF OwnerInv, PendingInfo, Is, Idle
  <2> QED BY <2>4, <2>5, <2>6 DEF OwnerInv
<1>6. CASE DeleteAuth(w)
  <2>1. PICK a \in auths : auths' = auths \ {a} /\ abandoned' = abandoned \cup {a.info}
    BY <1>6 DEF DeleteAuth
  <2>2. /\ task'[w] = Idle
        /\ \A u \in Worker : u # w => task'[u] = task[u]
    BY <1>0, <1>6, OtherTasks DEF DeleteAuth, Receive
  <2>3. infos' = infos /\ next' = next
    BY <1>6 DEF DeleteAuth
  <2>4. OneOwner'
    BY <2>1 DEF OwnerInv, OneOwner
  <2>5. AuthIds'
    BY <2>1, <2>3 DEF OwnerInv, AuthIds
  <2>6. PendingInfo'
    BY <2>1, <2>2, <2>3 DEF OwnerInv, PendingInfo, Is, Idle
  <2> QED BY <2>4, <2>5, <2>6 DEF OwnerInv
<1>7. CASE Fail(w)
  <2>1. /\ task'[w] = Idle
        /\ \A u \in Worker : u # w => task'[u] = task[u]
    BY <1>0, <1>7, OtherTasks DEF Fail
  <2>2. /\ infos' = infos /\ auths' = auths /\ next' = next
        /\ \A i \in abandoned' : i \in abandoned \/ (Is(w, "addAuth") /\ i = task[w].info)
    BY <1>7 DEF Fail, authVars
  <2>3. OneOwner'
    BY <2>2 DEF OwnerInv, OneOwner, PendingInfo
  <2>4. AuthIds'
    BY <2>2 DEF OwnerInv, AuthIds, PendingInfo
  <2>5. PendingInfo'
    BY <2>1, <2>2 DEF OwnerInv, PendingInfo, Is, Idle
  <2> QED BY <2>3, <2>4, <2>5 DEF OwnerInv
<1> QED
  BY <1>1, <1>2, <1>3, <1>4, <1>5, <1>6, <1>7 DEF AuthStep

(* The owners of credentials stay apart.                                   *)
LEMMA OwnerInvStep == RegistryTypeOK /\ OwnerInv /\ [RegistryNext]_registryVars => OwnerInv'
<1> SUFFICES ASSUME RegistryTypeOK, OwnerInv, [RegistryNext]_registryVars PROVE OwnerInv'
  OBVIOUS
<1>1. CASE UNCHANGED registryVars
  BY <1>1 DEF registryVars, authVars, authSeen, OwnerInv, OneOwner, AuthIds, PendingInfo, Is
<1>2. ASSUME NEW w \in Worker, BusStep(w) PROVE OwnerInv'
  <2>1. PICK t : Goes(w, t) /\ t.pc # "addAuth"
    BY <1>2, BusStepLeaves
  <2>2. UNCHANGED <<infos, auths, abandoned>>
    BY <1>2, BusStepLeaves DEF authSeen
  <2> QED BY <1>2, <2>1, <2>2, BusStepLeaves, OwnersStay
<1> QED
  BY <1>1, <1>2, OwnerInvAuthStep DEF RegistryNext

(* Credentials belong to one auth_type row at most and never come back     *)
(* into use, for any number of workers, mechanisms and requests.           *)
THEOREM OnlyOwner == RegistrySpec => []OneOwner
<1>1. RegistryInit => RegistryTypeOK /\ OwnerInv
  BY RegistryTypeInit DEF RegistryInit, OwnerInv, OneOwner, AuthIds, PendingInfo, Is, Idle
<1>2. RegistryTypeOK /\ OwnerInv /\ [RegistryNext]_registryVars => (RegistryTypeOK /\ OwnerInv)'
  BY RegistryTypeStep, OwnerInvStep
<1>3. OwnerInv => OneOwner BY DEF OwnerInv
<1> QED BY <1>1, <1>2, <1>3, PTL DEF RegistrySpec
-----------------------------------------------------------------------------
(* The request of w goes on to t, whose facts hold, and the rows stay.     *)
LEMMA AuthsStay ==
  ASSUME RegistryTypeOK, OwnerInv, AuthInv, NEW w \in Worker, NEW t, Goes(w, t),
         UNCHANGED <<infos, auths>>,
         next'["info"] = next["info"], next'["auth"] = next["auth"],
         given \subseteq given', moved \subseteq moved',
         t.pc \notin {"addAuth", "rewriteAuth"},
         t.pc \in {"addInfo", "editInfo"} => <<t.asked.host, t.asked.credentials>> \in given',
         t.pc = "editInfo" =>
           /\ t.row \in auths
           /\ t.row.host = t.asked.host \/ {t.row.host, t.asked.host} \subseteq moved'
  PROVE  AuthInv'
<1>1. /\ task'[w] = t
      /\ \A u \in Worker : u # w => task'[u] = task[u]
  BY OtherTasks DEF RegistryTypeOK
<1>2. CredentialsStay'
  BY DEF AuthInv, CredentialsStay
<1>3. PendingCredentials'
  BY <1>1 DEF AuthInv, PendingCredentials, Is
<1>4. ASSUME NEW u \in Worker, task'[u].pc = "addAuth"
      PROVE  u # w /\ task[u].pc = "addAuth" /\ task'[u].info = task[u].info
  BY <1>1, <1>4
<1>5. ASSUME t.pc = "editInfo"
      PROVE  /\ t.row.info < next["info"] /\ t.row.id < next["auth"]
             /\ \A a \in auths : a.info = t.row.info => a.id = t.row.id
             /\ \A a \in auths : a.id = t.row.id => a = t.row
             /\ \A u \in Worker : Is(u, "addAuth") => task[u].info # t.row.info
  BY <1>5 DEF OwnerInv, OneOwner, AuthIds, PendingInfo
<1>6. LoadedInfo'
  <2>1. ASSUME NEW u \in Worker, task'[u].pc = "editInfo"
        PROVE  /\ task'[u].row.info < next["info"]
               /\ <<task'[u].asked.host, task'[u].asked.credentials>> \in given'
               /\ \A a \in auths : a.info = task'[u].row.info => a.id = task'[u].row.id
               /\ \A v \in Worker : Is(v, "addAuth") => task[v].info # task'[u].row.info
    <3>1. CASE u = w
      BY <1>1, <1>5, <2>1, <3>1
    <3>2. CASE u # w
      BY <1>1, <2>1, <3>2 DEF AuthInv, LoadedInfo, Is
    <3> QED BY <3>1, <3>2
  <2> QED BY <1>4, <2>1 DEF LoadedInfo, Is
<1>7. LoadedAuth'
  <2>1. ASSUME NEW u \in Worker, NEW i,
               \/ task'[u].pc = "editInfo" /\ i = task'[u].row.id
               \/ task'[u].pc = "rewriteAuth" /\ i = task'[u].id
        PROVE  Renames(u, i)'
    <3>1. CASE u = w
      BY <1>1, <1>5, <2>1, <3>1 DEF Renames
    <3>2. CASE u # w
      <4>1. Renames(u, i)
        BY <1>1, <2>1, <3>2 DEF AuthInv, LoadedAuth, Is
      <4> QED BY <1>1, <3>2, <4>1 DEF Renames
    <3> QED BY <3>1, <3>2
  <2> QED BY <2>1 DEF LoadedAuth, Is
<1> QED BY <1>2, <1>3, <1>6, <1>7 DEF AuthInv

(* A request that ends with none of its facts left to hold.                *)
LEMMA AuthsStayIdle ==
  ASSUME RegistryTypeOK, OwnerInv, AuthInv, NEW w \in Worker, Goes(w, Idle),
         UNCHANGED <<infos, auths, given, moved>>,
         next'["info"] = next["info"], next'["auth"] = next["auth"]
  PROVE  AuthInv'
<1> DEFINE t == Idle
<1>1. t.pc = "idle"
  BY DEF Idle
<1> HIDE DEF t
<1>2. Goes(w, t)
  BY DEF t
<1> QED BY <1>1, <1>2, AuthsStay

(* A create or update of an auth_type begins.                              *)
LEMMA AuthInvBegin ==
  ASSUME RegistryTypeOK, OwnerInv, AuthInv, NEW w \in Worker, CheckAuth(w) \/ LoadAuth(w)
  PROVE  AuthInv'
<1>1. CASE CheckAuth(w)
  <2>1. PICK p \in AuthPayload :
          /\ Receive(w, [pc |-> "addInfo", asked |-> p])
          /\ given' = given \cup {<<p.host, p.credentials>>}
    BY <1>1 DEF CheckAuth
  <2> DEFINE t == [pc |-> "addInfo", asked |-> p]
  <2>2. Goes(w, t) /\ t.pc = "addInfo" /\ <<t.asked.host, t.asked.credentials>> \in given'
    BY <2>1 DEF Receive
  <2> HIDE DEF t
  <2>3. UNCHANGED <<infos, auths, next, moved>> /\ given \subseteq given'
    BY <1>1, <2>1 DEF CheckAuth, authVars
  <2> QED BY <2>2, <2>3, AuthsStay
<1>2. CASE LoadAuth(w)
  <2>1. PICK p \in AuthPayload, a \in auths : \E i \in InfoOf(a) :
          /\ a.kind \notin Broken
          /\ Receive(w, [pc |-> "editInfo", asked |-> p, row |-> a,
                         loaded |-> i.credentials])
          /\ given' = given \cup {<<p.host, p.credentials>>}
          /\ moved' = IF p.host = a.host THEN moved ELSE moved \cup {a.host, p.host}
    BY <1>2 DEF LoadAuth
  <2>2. PICK i : Receive(w, [pc |-> "editInfo", asked |-> p, row |-> a,
                             loaded |-> i.credentials])
    BY <2>1
  <2> DEFINE t == [pc |-> "editInfo", asked |-> p, row |-> a, loaded |-> i.credentials]
  <2>3. Goes(w, t) /\ t.pc = "editInfo" /\ t.row = a /\ t.asked = p
    BY <2>2 DEF Receive
  <2> HIDE DEF t
  <2>4. /\ UNCHANGED <<infos, auths, next>>
        /\ given \subseteq given' /\ <<p.host, p.credentials>> \in given'
        /\ moved \subseteq moved' /\ (p.host = a.host \/ {a.host, p.host} \subseteq moved')
    BY <1>2, <2>1 DEF LoadAuth, authVars
  <2> QED BY <2>3, <2>4, AuthsStay
<1> QED BY <1>1, <1>2

(* The steps of a create: the credentials, then the row that gets them.    *)
LEMMA AuthInvAddInfo ==
  ASSUME RegistryTypeOK, OwnerInv, AuthInv, NEW w \in Worker, AddInfo(w)
  PROVE  AuthInv'
<1> DEFINE p == task[w].asked
           t == [pc |-> "addAuth", asked |-> p, info |-> next["info"]]
           n == [id |-> next["info"], kind |-> p.kind, credentials |-> p.credentials]
<1>1. /\ task'[w] = t
      /\ \A u \in Worker : u # w => task'[u] = task[u]
  BY OtherTasks DEF AddInfo, RegistryTypeOK
<1>2. /\ infos' = infos \cup {n} /\ auths' = auths /\ given' = given /\ moved' = moved
      /\ next["info"] \in Nat /\ next'["info"] = next["info"] + 1
      /\ next'["auth"] = next["auth"]
  BY DEF AddInfo, Takes, authSeen, RegistryTypeOK
<1>3. /\ t.pc = "addAuth" /\ t.asked = p /\ t.info = next["info"]
      /\ n.id = next["info"] /\ n.credentials = p.credentials
  OBVIOUS
<1>4. <<p.host, p.credentials>> \in given
  BY DEF AddInfo, AuthInv, PendingCredentials
<1> HIDE DEF p, t, n
<1>5. /\ \A a \in auths : a.info < next["info"] /\ a.info \in Nat
      /\ \A i \in infos : i.id < next["info"] /\ i.id \in Nat
      /\ \A u \in Worker : Is(u, "addAuth") => task[u].info < next["info"]
  BY DEF OwnerInv, AuthIds, PendingInfo, RegistryTypeOK, Auth, Info
<1>6. \A u \in Worker : task[u] \in Task
  BY DEF RegistryTypeOK
<1>7. CredentialsStay'
  BY <1>2, <1>3, <1>5 DEF AuthInv, CredentialsStay
<1>8. PendingCredentials'
  <2>1. ASSUME NEW u \in Worker
        PROVE  /\ task'[u].pc = "addInfo" =>
                    <<task'[u].asked.host, task'[u].asked.credentials>> \in given'
               /\ task'[u].pc = "addAuth" =>
                    \A i \in infos' : i.id = task'[u].info =>
                      <<task'[u].asked.host, i.credentials>> \in given'
    <3>1. CASE u = w
      BY <1>1, <1>2, <1>3, <1>4, <1>5, <3>1
    <3>2. CASE u # w
      <4>1. task'[u] = task[u]
        BY <1>1, <3>2
      <4>2. /\ task[u].pc = "addInfo" =>
                 <<task[u].asked.host, task[u].asked.credentials>> \in given
            /\ task[u].pc = "addAuth" =>
                 \A i \in infos : i.id = task[u].info =>
                   <<task[u].asked.host, i.credentials>> \in given
        BY DEF AuthInv, PendingCredentials, Is
      <4>3. task[u].pc = "addAuth" => task[u].info # n.id
        BY <1>2, <1>3, <1>5 DEF Is
      <4> QED BY <1>2, <4>1, <4>2, <4>3
    <3> QED BY <3>1, <3>2
  <2> QED BY <2>1 DEF PendingCredentials, Is
<1>9. LoadedInfo'
  <2>1. ASSUME NEW u \in Worker, task'[u].pc = "editInfo"
        PROVE  /\ task'[u].row.info < next'["info"]
               /\ <<task'[u].asked.host, task'[u].asked.credentials>> \in given'
               /\ \A a \in auths' : a.info = task'[u].row.info => a.id = task'[u].row.id
               /\ \A v \in Worker : task'[v].pc = "addAuth" => task'[v].info # task'[u].row.info
    <3>1. task'[u] = task[u] /\ task[u].pc = "editInfo"
      BY <1>1, <1>3, <2>1
    <3>2. /\ task[u].row.info < next["info"]
          /\ <<task[u].asked.host, task[u].asked.credentials>> \in given
          /\ \A a \in auths : a.info = task[u].row.info => a.id = task[u].row.id
          /\ \A v \in Worker : task[v].pc = "addAuth" => task[v].info # task[u].row.info
      BY <3>1 DEF AuthInv, LoadedInfo, Is
    <3>3. task[u].row.info \in Nat
      BY <1>6, <3>1 DEF Task, Idle, Auth
    <3>4. ASSUME NEW v \in Worker, task'[v].pc = "addAuth"
          PROVE  task'[v].info # task'[u].row.info
      <4>1. CASE v = w
        BY <1>1, <1>2, <1>3, <3>1, <3>2, <3>3, <4>1
      <4>2. CASE v # w
        BY <1>1, <3>1, <3>2, <3>4, <4>2
      <4> QED BY <4>1, <4>2
    <3> QED BY <1>2, <3>1, <3>2, <3>3, <3>4
  <2> QED BY <2>1 DEF LoadedInfo, Is
<1>10. LoadedAuth'
  BY <1>1, <1>2, <1>3 DEF AuthInv, LoadedAuth, Renames, Is
<1> QED BY <1>7, <1>8, <1>9, <1>10 DEF AuthInv

LEMMA AuthInvAddAuth ==
  ASSUME RegistryTypeOK, OwnerInv, AuthInv, NEW w \in Worker, AddAuth(w)
  PROVE  AuthInv'
<1> DEFINE t == task[w]
           n == [id |-> next["auth"], kind |-> t.asked.kind, host |-> t.asked.host,
                 info |-> t.info]
<1>1. /\ task'[w].pc = "idle"
      /\ \A u \in Worker : u # w => task'[u] = task[u]
  BY OtherTasks DEF AddAuth, RegistryTypeOK, Idle
<1>2. /\ auths' = auths \cup {n} /\ infos' = infos /\ given' = given /\ moved' = moved
      /\ next'["info"] = next["info"]
      /\ next["auth"] \in Nat /\ next'["auth"] = next["auth"] + 1
      /\ t.pc = "addAuth"
  BY DEF AddAuth, Takes, authSeen, RegistryTypeOK, Is
<1>3. n.id = next["auth"] /\ n.host = t.asked.host /\ n.info = t.info
  OBVIOUS
<1> HIDE DEF n
<1>4. \A u \in Worker : task[u] \in Task
  BY DEF RegistryTypeOK
<1>5. CredentialsStay'
  <2>1. \A i \in infos : i.id = t.info => <<t.asked.host, i.credentials>> \in given
    BY <1>2 DEF AuthInv, PendingCredentials, Is
  <2> QED BY <1>2, <1>3, <2>1 DEF AuthInv, CredentialsStay
<1>6. PendingCredentials'
  BY <1>1, <1>2 DEF AuthInv, PendingCredentials, Is
<1>7. LoadedInfo'
  <2>1. ASSUME NEW u \in Worker, task'[u].pc = "editInfo"
        PROVE  /\ task'[u].row.info < next'["info"]
               /\ <<task'[u].asked.host, task'[u].asked.credentials>> \in given'
               /\ \A a \in auths' : a.info = task'[u].row.info => a.id = task'[u].row.id
               /\ \A v \in Worker : task'[v].pc = "addAuth" => task'[v].info # task'[u].row.info
    <3>1. task'[u] = task[u] /\ task[u].pc = "editInfo"
      BY <1>1, <2>1
    <3>2. /\ task[u].row.info < next["info"]
          /\ <<task[u].asked.host, task[u].asked.credentials>> \in given
          /\ \A a \in auths : a.info = task[u].row.info => a.id = task[u].row.id
          /\ \A v \in Worker : task[v].pc = "addAuth" => task[v].info # task[u].row.info
      BY <3>1 DEF AuthInv, LoadedInfo, Is
    <3> QED BY <1>1, <1>2, <1>3, <3>1, <3>2
  <2> QED BY <2>1 DEF LoadedInfo, Is
<1>8. LoadedAuth'
  <2>1. ASSUME NEW u \in Worker, task'[u].pc = "editInfo"
        PROVE  Renames(u, task[u].row.id)' /\ task'[u] = task[u]
    <3>1. u # w /\ task'[u] = task[u] /\ task[u].row.id \in Nat
      BY <1>1, <1>4, <2>1 DEF Task, Idle, Auth
    <3>2. Renames(u, task[u].row.id)
      BY <2>1, <3>1 DEF AuthInv, LoadedAuth, Is
    <3> QED BY <1>1, <1>2, <1>3, <3>1, <3>2 DEF Renames
  <2>2. ASSUME NEW u \in Worker, task'[u].pc = "rewriteAuth"
        PROVE  Renames(u, task[u].id)' /\ task'[u] = task[u]
    <3>1. u # w /\ task'[u] = task[u] /\ task[u].id \in Nat
      BY <1>1, <1>4, <2>2 DEF Task, Idle
    <3>2. Renames(u, task[u].id)
      BY <2>2, <3>1 DEF AuthInv, LoadedAuth, Is
    <3> QED BY <1>1, <1>2, <1>3, <3>1, <3>2 DEF Renames
  <2> QED BY <2>1, <2>2 DEF LoadedAuth, Is
<1> QED BY <1>5, <1>6, <1>7, <1>8 DEF AuthInv

(* The steps of an update: the credentials, then the name of their bus.    *)
LEMMA AuthInvEditInfo ==
  ASSUME RegistryTypeOK, OwnerInv, AuthInv, NEW w \in Worker, EditInfo(w)
  PROVE  AuthInv'
<1> DEFINE t == task[w]
           r == [pc |-> "rewriteAuth", asked |-> t.asked, id |-> t.row.id]
<1>1. /\ task'[w] = r
      /\ \A u \in Worker : u # w => task'[u] = task[u]
  BY OtherTasks DEF EditInfo, RegistryTypeOK
<1>2. r.pc = "rewriteAuth" /\ r.asked = t.asked /\ r.id = t.row.id
  OBVIOUS
<1> HIDE DEF r
<1>3. auths' = auths /\ given' = given /\ moved' = moved /\ next' = next /\ t.pc = "editInfo"
  BY DEF EditInfo, authSeen, Is
<1>4. \A i \in infos' :
        \/ \E k \in infos : i.id = k.id /\ i.credentials = k.credentials
        \/ i.id = t.row.info /\ i.credentials = t.asked.credentials
  BY DEF EditInfo, Column, RegistryTypeOK, Info
<1>5. /\ <<t.asked.host, t.asked.credentials>> \in given
      /\ \A a \in auths : a.info = t.row.info => a.id = t.row.id
      /\ \A u \in Worker : task[u].pc = "addAuth" => task[u].info # t.row.info
  BY <1>3 DEF AuthInv, LoadedInfo, Is
<1>6. Renames(w, t.row.id)
  BY <1>3 DEF AuthInv, LoadedAuth, Is
<1>7. CredentialsStay'
  <2>1. ASSUME NEW a \in auths, NEW i \in infos', i.id = a.info, a.host \notin moved
        PROVE  <<a.host, i.credentials>> \in given
    <3>1. CASE \E k \in infos : i.id = k.id /\ i.credentials = k.credentials
      BY <2>1, <3>1 DEF AuthInv, CredentialsStay
    <3>2. CASE i.id = t.row.info /\ i.credentials = t.asked.credentials
      <4>1. a.host = t.asked.host
        BY <1>5, <1>6, <2>1, <3>2 DEF Renames
      <4> QED BY <1>5, <3>2, <4>1
    <3> QED BY <1>4, <3>1, <3>2
  <2> QED BY <1>3, <2>1 DEF CredentialsStay
<1>8. PendingCredentials'
  <2>1. ASSUME NEW u \in Worker, task'[u].pc = "addInfo"
        PROVE  <<task'[u].asked.host, task'[u].asked.credentials>> \in given'
    BY <1>1, <1>2, <1>3, <2>1 DEF AuthInv, PendingCredentials, Is
  <2>2. ASSUME NEW u \in Worker, task'[u].pc = "addAuth", NEW i \in infos',
               i.id = task'[u].info
        PROVE  <<task'[u].asked.host, i.credentials>> \in given'
    <3>1. task'[u] = task[u] /\ task[u].pc = "addAuth"
      BY <1>1, <1>2, <2>2
    <3>2. PICK k \in infos : i.id = k.id /\ i.credentials = k.credentials
      BY <1>4, <1>5, <2>2, <3>1
    <3> QED BY <1>3, <2>2, <3>1, <3>2 DEF AuthInv, PendingCredentials, Is
  <2> QED BY <2>1, <2>2 DEF PendingCredentials, Is
<1>9. LoadedInfo'
  BY <1>1, <1>2, <1>3 DEF AuthInv, LoadedInfo, Is
<1>10. LoadedAuth'
  <2>1. ASSUME NEW u \in Worker, NEW i,
               \/ task'[u].pc = "editInfo" /\ i = task'[u].row.id
               \/ task'[u].pc = "rewriteAuth" /\ i = task'[u].id
        PROVE  Renames(u, i)'
    <3>1. CASE u = w
      BY <1>1, <1>2, <1>3, <1>6, <2>1, <3>1 DEF Renames
    <3>2. CASE u # w
      <4>1. Renames(u, i)
        BY <1>1, <2>1, <3>2 DEF AuthInv, LoadedAuth, Is
      <4> QED BY <1>1, <1>3, <3>2, <4>1 DEF Renames
    <3> QED BY <3>1, <3>2
  <2> QED BY <2>1 DEF LoadedAuth, Is
<1> QED BY <1>7, <1>8, <1>9, <1>10 DEF AuthInv

LEMMA AuthInvRewriteAuth ==
  ASSUME RegistryTypeOK, OwnerInv, AuthInv, NEW w \in Worker, RewriteAuth(w)
  PROVE  AuthInv'
<1> DEFINE t == task[w]
           R(a) == IF a.id = t.id THEN [a EXCEPT !.kind = t.asked.kind, !.host = t.asked.host]
                   ELSE a
<1>1. /\ task'[w].pc = "idle"
      /\ \A u \in Worker : u # w => task'[u] = task[u]
  <2>1. Goes(w, Idle) /\ task \in [Worker -> Task]
    BY DEF RewriteAuth, RegistryTypeOK
  <2> QED BY <2>1, OtherTasks DEF Idle
<1>2. /\ infos' = infos /\ given' = given /\ moved' = moved /\ next' = next
      /\ auths' = {R(a) : a \in auths} /\ t.pc = "rewriteAuth"
  BY DEF RewriteAuth, authSeen, Is
<1>3. Renames(w, t.id)
  BY <1>2 DEF AuthInv, LoadedAuth, Is
<1>4. ASSUME NEW a \in auths
      PROVE  /\ R(a).id = a.id /\ R(a).info = a.info
             /\ \/ R(a).host = a.host
                \/ R(a).host = t.asked.host /\ {a.host, t.asked.host} \subseteq moved
  BY <1>3 DEF RegistryTypeOK, Auth, Renames
<1> HIDE DEF R
<1>5. CredentialsStay'
  BY <1>2, <1>4 DEF AuthInv, CredentialsStay
<1>6. PendingCredentials'
  BY <1>1, <1>2 DEF AuthInv, PendingCredentials, Is
<1>7. LoadedInfo'
  BY <1>1, <1>2, <1>4 DEF AuthInv, LoadedInfo, Is
<1>8. LoadedAuth'
  <2>1. ASSUME NEW u \in Worker, NEW i,
               \/ task'[u].pc = "editInfo" /\ i = task'[u].row.id
               \/ task'[u].pc = "rewriteAuth" /\ i = task'[u].id
        PROVE  Renames(u, i)'
    <3>1. u # w /\ task'[u] = task[u]
      BY <1>1, <2>1
    <3>2. Renames(u, i)
      BY <2>1, <3>1 DEF AuthInv, LoadedAuth, Is
    <3> QED BY <1>2, <1>4, <3>1, <3>2 DEF Renames
  <2> QED BY <2>1 DEF LoadedAuth, Is
<1> QED BY <1>5, <1>6, <1>7, <1>8 DEF AuthInv

(* A row is deleted.                                                       *)
LEMMA AuthInvDeleteAuth ==
  ASSUME RegistryTypeOK, OwnerInv, AuthInv, NEW w \in Worker, DeleteAuth(w)
  PROVE  AuthInv'
<1>1. /\ task'[w].pc = "idle"
      /\ \A u \in Worker : u # w => task'[u] = task[u]
  BY OtherTasks DEF DeleteAuth, Receive, RegistryTypeOK, Idle
<1>2. /\ infos' = infos /\ given' = given /\ moved' = moved /\ next' = next
      /\ auths' \subseteq auths
  BY DEF DeleteAuth
<1>3. CredentialsStay'
  BY <1>2 DEF AuthInv, CredentialsStay
<1>4. PendingCredentials'
  BY <1>1, <1>2 DEF AuthInv, PendingCredentials, Is
<1>5. LoadedInfo'
  BY <1>1, <1>2 DEF AuthInv, LoadedInfo, Is
<1>6. LoadedAuth'
  BY <1>1, <1>2 DEF AuthInv, LoadedAuth, Renames, Is
<1> QED BY <1>3, <1>4, <1>5, <1>6 DEF AuthInv

(* Every step keeps the credentials where they were given.                 *)
LEMMA AuthInvStep ==
  RegistryTypeOK /\ OwnerInv /\ AuthInv /\ [RegistryNext]_registryVars => AuthInv'
<1> SUFFICES ASSUME RegistryTypeOK, OwnerInv, AuthInv, [RegistryNext]_registryVars
             PROVE  AuthInv'
  OBVIOUS
<1>1. CASE UNCHANGED registryVars
  BY <1>1 DEF registryVars, authVars, authSeen, AuthInv, CredentialsStay,
              PendingCredentials, LoadedInfo, LoadedAuth, Renames, Is
<1>2. ASSUME NEW w \in Worker, BusStep(w) PROVE AuthInv'
  <2>1. PICK t : Goes(w, t) /\ t.pc \notin {"addInfo", "addAuth", "editInfo", "rewriteAuth"}
    BY <1>2, BusStepLeaves
  <2>2. /\ UNCHANGED <<infos, auths, given, moved>>
        /\ next'["info"] = next["info"] /\ next'["auth"] = next["auth"]
    BY <1>2, BusStepLeaves DEF authSeen
  <2> QED BY <2>1, <2>2, AuthsStay
<1>3. ASSUME NEW w \in Worker, Fail(w) PROVE AuthInv'
  BY <1>3, AuthsStayIdle DEF Fail, authVars
<1> QED
  BY <1>1, <1>2, <1>3, AuthInvBegin, AuthInvAddInfo, AuthInvAddAuth, AuthInvEditInfo,
     AuthInvRewriteAuth, AuthInvDeleteAuth DEF RegistryNext, AuthStep

(* On a host that no update has moved a row from or to, credentials are    *)
(* those given for that host, for any number of workers and requests.      *)
THEOREM CredentialsStayWithHost == RegistrySpec => []CredentialsStay
<1>1. RegistryInit => RegistryTypeOK /\ OwnerInv /\ AuthInv
  BY RegistryTypeInit DEF RegistryInit, OwnerInv, OneOwner, AuthIds, PendingInfo, AuthInv,
     CredentialsStay, PendingCredentials, LoadedInfo, LoadedAuth, Is, Idle
<1>2. RegistryTypeOK /\ OwnerInv /\ AuthInv /\ [RegistryNext]_registryVars
        => (RegistryTypeOK /\ OwnerInv /\ AuthInv)'
  BY RegistryTypeStep, OwnerInvStep, AuthInvStep
<1>3. AuthInv => CredentialsStay BY DEF AuthInv
<1> QED BY <1>1, <1>2, <1>3, PTL DEF RegistrySpec

(***************************************************************************)
(* The requests to publish.                                                *)
(***************************************************************************)

\* What a request has produced was found valid, all of it, before.
Valid(r) ==
  pub[r] # NotReceived /\ (pub[r].pc = "producing" \/ report[r] # <<>>) =>
    Validation(pub[r].topic, pub[r].batch) = "valid"

\* No more messages are queued than the batch has.
Counted(r) ==
  IF pub[r] = NotReceived THEN report[r] = <<>> ELSE Len(report[r]) <= Len(pub[r].batch)

\* What is in the log was queued.
Logged == \A e \in log : \E r \in Publisher : \E i \in DOMAIN report[r] : e = <<r, i>>

PubInv ==
  /\ PublishTypeOK
  /\ \A r \in Publisher : Valid(r) /\ Counted(r)
  /\ Logged
(***************************************************************************)
(* Validation.                                                             *)
(***************************************************************************)

\* Only a value of a scalar kind is inferred to have a primitive type, and it is an
\* instance of it.
LEMMA PrimitiveInstance ==
  ASSUME NEW m \in Json, NEW t \in Primitive, ToAvro(m) = [type |-> t]
  PROVE  IsInstance(m, t)
<1>1. m.kind \in {"dict", "list", "str", "bool", "int", "float", "null"}
  BY JsonAssumption
<1>2. PICK s : ToAvro(m) = Infer(m, s)
  BY DEF ToAvro
<1>3. Infer(m, s).type = t
  BY <1>2
<1>4. m.kind # "dict"
  <2> SUFFICES ASSUME m.kind = "dict" PROVE FALSE
    OBVIOUS
  <2>1. Infer(m, s).type = "record"
    BY DEF Infer
  <2> QED BY <1>3, <2>1 DEF Primitive
<1>5. m.kind # "list"
  <2> SUFFICES ASSUME m.kind = "list" PROVE FALSE
    OBVIOUS
  <2>1. Infer(m, s).type = "array" \/ Infer(m, s) = NoSchema
    BY DEF Infer
  <2> QED BY <1>3, <2>1 DEF Primitive, NoSchema
<1>6. Infer(m, s) = InferScalar(m.kind)
  BY <1>4, <1>5 DEF Infer
<1> QED BY <1>1, <1>3, <1>4, <1>5, <1>6 DEF InferScalar, IsInstance

\* A batch that is valid has no more messages than are allowed, and each of them is an
\* instance of the definition, if there is one.
LEMMA ValidBatch ==
  ASSUME NEW t \in Topic \cup {NoTopic}, NEW b \in Batch, Validation(t, b) = "valid"
  PROVE  /\ Len(b) <= MaxMessages
         /\ t.definition # NoDefinition =>
              \A i \in DOMAIN b : b[i] \in Json /\ IsInstance(b[i], t.definition.type)
<1>1. /\ t # NoTopic /\ ~(Len(b) > MaxMessages)
      /\ \A i \in DOMAIN b : b[i] # NotEncoded
      /\ t.definition # NoDefinition => Verdict(b, t.definition) = "valid"
  BY DEF Validation
<1>2. b \in Seq(Message) /\ MaxMessages \in Nat
  BY PublishAssumption
<1>3. Len(b) <= MaxMessages
  BY <1>1, <1>2
<1>4. ASSUME t.definition # NoDefinition, NEW i \in DOMAIN b
      PROVE  b[i] \in Json /\ IsInstance(b[i], t.definition.type)
  <2>1. t.definition \in Definition
    BY <1>1, PublishAssumption
  <2>2. Check(b[i], t.definition) = "valid"
    BY <1>1, <1>4 DEF Verdict
  <2>3. b[i] # NotJson /\ t.definition # SomeText /\ ToAvro(b[i]) = t.definition
    BY <2>2 DEF Check
  <2>4. b[i] \in Json
    BY <1>1, <1>2, <1>4, <2>3 DEF Message
  <2>5. PICK p \in Primitive : t.definition = [type |-> p]
    BY <1>4, <2>1, <2>3 DEF Definition
  <2> QED BY <2>3, <2>4, <2>5, PrimitiveInstance
<1> QED BY <1>3, <1>4

(***************************************************************************)
(* The steps of a request.                                                 *)
(***************************************************************************)

LEMMA BatchLength == \A b \in Batch : b \in Seq(Message) /\ Len(b) \in Nat
BY PublishAssumption

\* A request is not touched by the others.
LEMMA OthersKept ==
  ASSUME NEW q, Valid(q), Counted(q),
         pub'[q] = pub[q], report'[q] = report[q], log \subseteq log'
  PROVE  Valid(q)' /\ Counted(q)'
<1>1. Valid(q)'
  BY DEF Valid
<1>2. Counted(q)'
  BY DEF Counted
<1> QED BY <1>1, <1>2

\* The log stays within the batches: a fact about the state after a step.
LEMMA LogTyped ==
  ASSUME Logged',
         pub' \in [Publisher -> Request \cup {NotReceived}],
         report' \in [Publisher -> Seq({"none", "written", "failed"})],
         \A r \in Publisher : Valid(r)' /\ Counted(r)'
  PROVE  log' \subseteq Publisher \X (1 .. MaxMessages)
<1> SUFFICES ASSUME NEW e \in log' PROVE e \in Publisher \X (1 .. MaxMessages)
  OBVIOUS
<1>1. PICK r \in Publisher : \E i \in DOMAIN report'[r] : e = <<r, i>>
  BY DEF Logged
<1>2. PICK i \in DOMAIN report'[r] : e = <<r, i>>
  BY <1>1
<1>3. report'[r] \in Seq({"none", "written", "failed"}) /\ report'[r] # <<>>
  BY <1>2
<1>4. pub'[r] \in Request /\ Len(report'[r]) <= Len(pub'[r].batch)
  BY <1>3 DEF Counted
<1>5. pub'[r].topic \in Topic \cup {NoTopic} /\ pub'[r].batch \in Batch
  BY <1>4 DEF Request
<1>6. pub'[r] # NotReceived
  BY <1>3 DEF Counted
<1>7. Len(pub'[r].batch) <= MaxMessages
  BY <1>3, <1>5, <1>6, ValidBatch DEF Valid
<1>8. i \in Nat /\ 1 <= i /\ i <= Len(report'[r]) /\ Len(report'[r]) \in Nat
  BY <1>2, <1>3
<1>9. Len(pub'[r].batch) \in Nat /\ MaxMessages \in Nat
  BY <1>5, BatchLength, PublishAssumption
<1>10. i \in 1 .. MaxMessages
  BY <1>4, <1>7, <1>8, <1>9
<1> QED BY <1>2, <1>10

\* A step of request r, which leaves the others alone.
LEMMA RequestStep ==
  ASSUME PubInv, NEW r \in Publisher, NEW p \in Request \cup {NotReceived},
         NEW s \in Seq({"none", "written", "failed"}),
         pub' = [pub EXCEPT ![r] = p], report' = [report EXCEPT ![r] = s],
         log \subseteq log', Logged',
         Valid(r)' /\ Counted(r)'
  PROVE  PubInv'
<1>1. /\ pub' \in [Publisher -> Request \cup {NotReceived}]
      /\ report' \in [Publisher -> Seq({"none", "written", "failed"})]
      /\ \A q \in Publisher \ {r} : pub'[q] = pub[q] /\ report'[q] = report[q]
  BY DEF PubInv, PublishTypeOK
<1>2. \A q \in Publisher : Valid(q)' /\ Counted(q)'
  BY <1>1, OthersKept DEF PubInv
<1>3. log' \subseteq Publisher \X (1 .. MaxMessages)
  BY <1>1, <1>2, LogTyped
<1> QED BY <1>1, <1>2, <1>3 DEF PubInv, PublishTypeOK

\* What is logged stays logged as long as reports are not shortened.
LEMMA LoggedKept ==
  ASSUME Logged, log' = log, \A r \in Publisher : DOMAIN report[r] \subseteq DOMAIN report'[r]
  PROVE  Logged'
BY DEF Logged

\* The two steps that take a request.
LEMMA ReceiveInv ==
  ASSUME PubInv, NEW r \in Publisher, Refuse(r) \/ Start(r), RegistryTypeOK
  PROVE  PubInv'
<1>0. /\ pub[r] = NotReceived /\ report' = report /\ log' = log
      /\ pub \in [Publisher -> Request \cup {NotReceived}]
      /\ report \in [Publisher -> Seq({"none", "written", "failed"})]
  BY DEF Refuse, Start, PubInv, PublishTypeOK
<1>1. report[r] = <<>>
  BY <1>0 DEF PubInv, Counted
<1>2. \E p \in Request :
        /\ pub' = [pub EXCEPT ![r] = p]
        /\ p.pc = "producing" => Validation(p.topic, p.batch) = "valid"
  <2>1. CASE Refuse(r)
    <3>1. PICK t \in Topic \cup {NoTopic}, b \in Batch :
            pub' = [pub EXCEPT ![r] =
              [pc |-> "answered", topic |-> t, batch |-> b, conf |-> {},
               answer |-> IF Validation(t, b) = "400" THEN Validation(t, b) ELSE "500"]]
      BY <2>1 DEF Refuse
    <3> DEFINE a == IF Validation(t, b) = "400" THEN Validation(t, b) ELSE "500"
               p == [pc |-> "answered", topic |-> t, batch |-> b, conf |-> {}, answer |-> a]
    <3>2. a \in {"400", "500"}
      OBVIOUS
    <3>3. p \in Request /\ p.pc = "answered"
      BY <3>2 DEF Request
    <3> QED BY <3>1, <3>3
  <2>2. CASE Start(r)
    <3>1. PICK t \in Topic, b \in Batch : \E c \in Confs(t) :
            /\ Validation(t, b) = "valid"
            /\ pub' = [pub EXCEPT ![r] =
                 [pc |-> "producing", topic |-> t, batch |-> b, conf |-> {c}, answer |-> ""]]
      BY <2>2 DEF Start
    <3>2. PICK c \in Confs(t) :
            /\ Validation(t, b) = "valid"
            /\ pub' = [pub EXCEPT ![r] =
                 [pc |-> "producing", topic |-> t, batch |-> b, conf |-> {c}, answer |-> ""]]
      BY <3>1
    <3> DEFINE p == [pc |-> "producing", topic |-> t, batch |-> b, conf |-> {c}, answer |-> ""]
    <3>3. c \in Conf
      <4>1. \A x \in FirstBus(t.host) : x.host \in Host /\ x.port \in Port
        BY DEF FirstBus, RegistryTypeOK, Bus
      <4>2. \A i \in infos : i.credentials \in Credentials
        BY DEF RegistryTypeOK, Info
      <4> QED BY <4>1, <4>2 DEF Confs, CredentialsOf, Conf
    <3>4. p \in Request
      BY <3>3 DEF Request
    <3> QED BY <3>2, <3>4
  <2> QED BY <2>1, <2>2
<1>3. PICK p \in Request :
        /\ pub' = [pub EXCEPT ![r] = p]
        /\ p.pc = "producing" => Validation(p.topic, p.batch) = "valid"
  BY <1>2
<1>4. pub'[r] = p /\ report'[r] = <<>>
  BY <1>0, <1>1, <1>3
<1>5. p.batch \in Seq(Message) /\ Len(p.batch) \in Nat
  BY BatchLength DEF Request
<1>6. Valid(r)'
  BY <1>3, <1>4 DEF Valid
<1>7. Counted(r)'
  BY <1>4, <1>5 DEF Counted
<1>8. Logged'
  BY <1>0, LoggedKept DEF PubInv
<1>9. report' = [report EXCEPT ![r] = report[r]] /\ report[r] \in Seq({"none", "written", "failed"})
  BY <1>0
<1> QED BY <1>0, <1>3, <1>6, <1>7, <1>8, <1>9, RequestStep

LEMMA ProduceInv ==
  ASSUME PubInv, NEW r \in Publisher, Produce(r)
  PROVE  PubInv'
<1> DEFINE s == Append(report[r], "none")
<1>0. /\ pub[r].pc = "producing" /\ Len(report[r]) < Len(pub[r].batch)
      /\ report' = [report EXCEPT ![r] = s] /\ pub' = pub /\ log' = log
      /\ pub \in [Publisher -> Request \cup {NotReceived}]
      /\ report \in [Publisher -> Seq({"none", "written", "failed"})]
  BY DEF Produce, PubInv, PublishTypeOK
<1>1. pub[r] \in Request /\ pub[r] # NotReceived
  BY <1>0 DEF NotReceived
<1>2. Len(pub[r].batch) \in Nat
  BY <1>1, BatchLength DEF Request
<1>3. /\ s \in Seq({"none", "written", "failed"})
      /\ Len(s) = Len(report[r]) + 1
      /\ \A i \in DOMAIN report[r] : i \in DOMAIN s /\ s[i] = report[r][i]
      /\ \A i \in DOMAIN s : i \in DOMAIN report[r] \/ s[i] = "none"
  BY <1>0
<1> HIDE DEF s
<1>4. pub'[r] = pub[r] /\ report'[r] = s
  BY <1>0
<1>5. Valid(r) /\ Counted(r)
  BY DEF PubInv
<1>6. Valid(r)'
  BY <1>0, <1>4, <1>5 DEF Valid
<1>7. Counted(r)'
  <2>1. Len(report[r]) \in Nat
    BY <1>0
  <2> QED BY <1>0, <1>1, <1>2, <1>3, <1>4, <2>1 DEF Counted
<1>8. Logged'
  BY <1>0, <1>3, LoggedKept DEF PubInv
<1>9. pub' = [pub EXCEPT ![r] = pub[r]]
  BY <1>0
<1> QED BY <1>0, <1>1, <1>3, <1>6, <1>7, <1>8, <1>9, RequestStep

LEMMA WriteInv ==
  ASSUME PubInv, NEW r \in Publisher, NEW i \in DOMAIN report[r], Write(r, i)
  PROVE  PubInv'
<1>0. /\ pub' = pub /\ report' = report /\ log' = log \cup {<<r, i>>}
      /\ pub \in [Publisher -> Request \cup {NotReceived}]
      /\ report \in [Publisher -> Seq({"none", "written", "failed"})]
  BY DEF Write, PubInv, PublishTypeOK
<1>1. Valid(r)' /\ Counted(r)'
  BY <1>0, OthersKept DEF PubInv
<1>2. Logged'
  BY <1>0 DEF PubInv, Logged
<1>3. /\ pub' = [pub EXCEPT ![r] = pub[r]] /\ report' = [report EXCEPT ![r] = report[r]]
      /\ pub[r] \in Request \cup {NotReceived}
      /\ report[r] \in Seq({"none", "written", "failed"})
  BY <1>0
<1>4. log \subseteq log'
  BY <1>0
<1> QED BY <1>1, <1>2, <1>3, <1>4, RequestStep

LEMMA ReportInv ==
  ASSUME PubInv, NEW r \in Publisher, NEW i \in DOMAIN report[r], Report(r, i)
  PROVE  PubInv'
<1>0. /\ pub[r].pc = "producing" /\ pub' = pub /\ log' = log
      /\ pub \in [Publisher -> Request \cup {NotReceived}]
      /\ report \in [Publisher -> Seq({"none", "written", "failed"})]
  BY DEF Report, PubInv, PublishTypeOK
<1>1. PICK word \in {"written", "failed"} :
        /\ word = "written" => <<r, i>> \in log
        /\ report' = [report EXCEPT ![r][i] = word]
  BY DEF Report
<1> DEFINE s == [report[r] EXCEPT ![i] = word]
<1>2. /\ s \in Seq({"none", "written", "failed"})
      /\ Len(s) = Len(report[r]) /\ DOMAIN s = DOMAIN report[r]
      /\ s[i] = word
      /\ \A k \in DOMAIN s : k # i => s[k] = report[r][k]
  BY <1>0
<1>3. report' = [report EXCEPT ![r] = s]
  BY <1>1
<1> HIDE DEF s
<1>4. pub'[r] = pub[r] /\ report'[r] = s
  BY <1>0, <1>3
<1>5. Valid(r) /\ Counted(r)
  BY DEF PubInv
<1>6. pub[r] \in Request /\ pub[r] # NotReceived
  BY <1>0 DEF NotReceived
<1>7. Valid(r)'
  BY <1>0, <1>4, <1>5 DEF Valid
<1>8. Counted(r)'
  BY <1>2, <1>4, <1>5, <1>6 DEF Counted
<1>9. Logged'
  BY <1>0, <1>2, <1>3, LoggedKept DEF PubInv
<1>10. pub' = [pub EXCEPT ![r] = pub[r]] /\ log \subseteq log'
  BY <1>0
<1> QED BY <1>2, <1>3, <1>6, <1>7, <1>8, <1>9, <1>10, RequestStep

LEMMA AnswerInv ==
  ASSUME PubInv, NEW r \in Publisher, Succeed(r) \/ Error(r)
  PROVE  PubInv'
<1>0. PICK code \in {"200", "500"} :
        /\ pub' = [pub EXCEPT ![r].pc = "answered", ![r].answer = code]
        /\ pub[r].pc = "producing" /\ report' = report /\ log' = log
  BY DEF Succeed, Error, Answer
<1> DEFINE p == [pub[r] EXCEPT !.pc = "answered", !.answer = code]
<1>1. /\ pub \in [Publisher -> Request \cup {NotReceived}]
      /\ report \in [Publisher -> Seq({"none", "written", "failed"})]
  BY DEF PubInv, PublishTypeOK
<1>2. pub[r] \in Request /\ pub[r] # NotReceived
  BY <1>0, <1>1 DEF NotReceived
<1>3. /\ p \in Request /\ p.pc = "answered" /\ p.answer = code
      /\ p.topic = pub[r].topic /\ p.batch = pub[r].batch
  BY <1>2 DEF Request
<1>4. pub' = [pub EXCEPT ![r] = p]
  BY <1>0, <1>1
<1> HIDE DEF p
<1>5. pub'[r] = p /\ report'[r] = report[r]
  BY <1>0, <1>1, <1>4
<1>6. Valid(r) /\ Counted(r)
  BY DEF PubInv
<1>7. Valid(r)'
  BY <1>0, <1>2, <1>3, <1>5, <1>6 DEF Valid
<1>8. Counted(r)'
  BY <1>2, <1>3, <1>5, <1>6 DEF Counted, NotReceived
<1>9. Logged'
  BY <1>0, LoggedKept DEF PubInv
<1>10. /\ report' = [report EXCEPT ![r] = report[r]] /\ log \subseteq log'
       /\ report[r] \in Seq({"none", "written", "failed"})
  BY <1>0, <1>1
<1> QED BY <1>3, <1>4, <1>7, <1>8, <1>9, <1>10, RequestStep

LEMMA UntouchedInv == PubInv /\ UNCHANGED pubVars => PubInv'
<1> SUFFICES ASSUME PubInv, UNCHANGED pubVars PROVE PubInv'
  OBVIOUS
<1>1. pub' = pub /\ report' = report /\ log' = log
  BY DEF pubVars
<1>2. \A r \in Publisher : Valid(r)' /\ Counted(r)'
  BY <1>1, OthersKept DEF PubInv
<1> QED BY <1>1, <1>2 DEF PubInv, PublishTypeOK, Logged

LEMMA PubStep == RegistryTypeOK /\ PubInv /\ [PublishNext]_publishVars => PubInv'
<1> SUFFICES ASSUME RegistryTypeOK, PubInv, [PublishNext]_publishVars PROVE PubInv'
  OBVIOUS
<1>1. ASSUME NEW r \in Publisher, PublishStep(r) PROVE PubInv'
  BY <1>1, ReceiveInv, ProduceInv, WriteInv, ReportInv, AnswerInv DEF PublishStep
<1>2. CASE UNCHANGED pubVars
  BY <1>2, UntouchedInv
<1> QED BY <1>1, <1>2 DEF PublishNext, publishVars

LEMMA PubInit == PublishInit => PubInv
<1> SUFFICES ASSUME PublishInit PROVE PubInv
  OBVIOUS
<1>1. /\ pub = [r \in Publisher |-> NotReceived] /\ report = [r \in Publisher |-> <<>>]
      /\ log = {}
  BY DEF PublishInit
<1>2. PublishTypeOK /\ Logged
  BY <1>1 DEF PublishTypeOK, Logged
<1>3. \A r \in Publisher : Valid(r) /\ Counted(r)
  BY <1>1 DEF Valid, Counted
<1> QED BY <1>2, <1>3 DEF PubInv

(***************************************************************************)
(* Next to the requests to publish, the registry goes on as it does alone. *)
(***************************************************************************)

LEMMA RegistryGoesOn == [PublishNext]_publishVars => [RegistryNext]_registryVars
BY DEF PublishNext, PublishStep, Refuse, Start, Produce, Write, Report, Succeed, Error,
       Answer, publishVars

LEMMA RegistryStarts == PublishInit => RegistryInit
BY DEF PublishInit

\* The tables of buses and credentials behave as if nobody published, so that what is
\* true of them alone, of any number of workers and requests, is true here.
THEOREM RegistryAlone == PublishSpec => RegistrySpec
BY RegistryGoesOn, RegistryStarts, PTL DEF PublishSpec, RegistrySpec

LEMMA PublishTypes == PublishSpec => [](RegistryTypeOK /\ PubInv)
<1>1. RegistryTypeOK /\ PubInv /\ [PublishNext]_publishVars => (RegistryTypeOK /\ PubInv)'
  BY RegistryGoesOn, RegistryTypeStep, PubStep
<1>2. PublishInit => RegistryTypeOK /\ PubInv
  BY RegistryStarts, RegistryTypeInit, PubInit
<1> QED BY <1>1, <1>2, PTL DEF PublishSpec

\* Requests, reports and the log stay type correct, and nothing beyond the allowed
\* number of messages gets into the log, for any number of requests.
THEOREM PublishTyped == PublishSpec => []PublishTypeOK
<1>1. PubInv => PublishTypeOK
  BY DEF PubInv
<1> QED BY <1>1, PublishTypes, PTL

\* When one message of a batch is in the log, every message of the batch is an instance
\* of the topic's definition, whichever requests fail, for all topics, definitions and
\* messages.
THEOREM WholeBatchConforms == PublishSpec => []BatchConforms
<1>1. PubInv => BatchConforms
  <2> SUFFICES ASSUME PubInv, NEW e \in log, pub[e[1]].topic.definition # NoDefinition
               PROVE  \A i \in DOMAIN pub[e[1]].batch :
                        /\ pub[e[1]].batch[i] \in Json
                        /\ IsInstance(pub[e[1]].batch[i], pub[e[1]].topic.definition.type)
    BY DEF BatchConforms
  <2>1. PICK r \in Publisher : \E i \in DOMAIN report[r] : e = <<r, i>>
    BY DEF PubInv, Logged
  <2>2. e[1] = r /\ report[r] # <<>>
    BY <2>1
  <2>3. pub[r] # NotReceived /\ Valid(r)
    BY <2>2 DEF PubInv, Counted
  <2>4. pub[r] \in Request
    BY <2>3 DEF PubInv, PublishTypeOK
  <2>5. pub[r].topic \in Topic \cup {NoTopic} /\ pub[r].batch \in Batch
    BY <2>4 DEF Request
  <2>6. Validation(pub[r].topic, pub[r].batch) = "valid"
    BY <2>2, <2>3 DEF Valid
  <2> QED BY <2>2, <2>5, <2>6, ValidBatch
<1> QED BY <1>1, PublishTypes, PTL

(***************************************************************************)
(* The credentials.                                                        *)
(***************************************************************************)

\* What was given and what was moved is remembered.
LEMMA SeenGrows == [RegistryNext]_registryVars => given \subseteq given' /\ moved \subseteq moved'
BY DEF RegistryNext, BusStep, AuthStep, CreateBus, AddBus, LoadBus, EditBus, AddRegistry,
       RewriteBus, CheckAuth, AddInfo, AddAuth, LoadAuth, EditInfo, RewriteAuth, DeleteAuth,
       Fail, registryVars, authSeen

\* A producer is configured from the first bus row of its topic's host and, if that has
\* credentials, from those of an auth_type row of the same host.
LEMMA StartTrusted ==
  ASSUME CredentialsStay, NEW t, NEW c \in Confs(t)
  PROVE  /\ c.host = t.host
         /\ c.credentials # None /\ c.host \notin moved => <<c.host, c.credentials>> \in given
<1>1. \A b \in FirstBus(t.host) : b.host = t.host
  BY DEF FirstBus
<1>2. CASE \E b \in FirstBus(t.host) :
             c = [host |-> b.host, port |-> b.port, credentials |-> None]
  BY <1>1, <1>2
<1>3. CASE \E b \in FirstBus(t.host), i \in infos :
             /\ c = [host |-> b.host, port |-> b.port, credentials |-> i.credentials]
             /\ \E a \in FirstAuth(OAuth, t.host) : i \in InfoOf(a)
  <2>1. PICK b \in FirstBus(t.host), i \in infos :
             /\ c = [host |-> b.host, port |-> b.port, credentials |-> i.credentials]
             /\ \E a \in FirstAuth(OAuth, t.host) : i \in InfoOf(a)
    BY <1>3
  <2>2. PICK a \in FirstAuth(OAuth, t.host) : i \in InfoOf(a)
    BY <2>1
  <2>3. a \in auths /\ a.host = t.host /\ i.id = a.info
    BY <2>2 DEF FirstAuth, InfoOf
  <2>4. a.host \notin moved => <<a.host, i.credentials>> \in given
    BY <2>3 DEF CredentialsStay
  <2> QED BY <1>1, <2>1, <2>3, <2>4
<1> QED BY <1>2, <1>3 DEF Confs, CredentialsOf

LEMMA CredentialsStep ==
  ASSUME PublishTypeOK, CredentialsStay, PublishesWithOwnCredentials, [PublishNext]_publishVars
  PROVE  PublishesWithOwnCredentials'
<1>1. given \subseteq given' /\ moved \subseteq moved'
  BY RegistryGoesOn, SeenGrows
<1> SUFFICES ASSUME NEW r \in Publisher, pub'[r] # NotReceived, NEW c \in pub'[r].conf
             PROVE  /\ c.host = pub'[r].topic.host
                    /\ c.credentials # None /\ c.host \notin moved' =>
                         <<c.host, c.credentials>> \in given'
  BY DEF PublishesWithOwnCredentials
<1>2. CASE /\ pub[r] # NotReceived
           /\ pub'[r].conf = pub[r].conf /\ pub'[r].topic = pub[r].topic
  BY <1>1, <1>2 DEF PublishesWithOwnCredentials
<1>3. CASE pub'[r] = pub[r]
  BY <1>2, <1>3
<1>4. CASE Succeed(r) \/ Error(r)
  <2>1. PICK code : /\ pub[r].pc = "producing"
                    /\ pub' = [pub EXCEPT ![r].pc = "answered", ![r].answer = code]
    BY <1>4 DEF Succeed, Error, Answer
  <2>2. pub[r] \in Request /\ pub[r] # NotReceived
    BY <2>1 DEF NotReceived, PublishTypeOK
  <2>3. pub'[r] = [pub[r] EXCEPT !.pc = "answered", !.answer = code]
    BY <2>1 DEF PublishTypeOK
  <2>4. pub'[r].conf = pub[r].conf /\ pub'[r].topic = pub[r].topic
    BY <2>2, <2>3 DEF Request
  <2> QED BY <1>2, <2>2, <2>4
<1>5. CASE Refuse(r)
  <2>1. pub'[r].conf = {}
    BY <1>5 DEF Refuse, PublishTypeOK
  <2> QED BY <2>1
<1>6. CASE Start(r)
  <2>1. PICK t \in Topic, b \in Batch : \E d \in Confs(t) :
          pub' = [pub EXCEPT ![r] =
            [pc |-> "producing", topic |-> t, batch |-> b, conf |-> {d}, answer |-> ""]]
    BY <1>6 DEF Start
  <2>2. PICK d \in Confs(t) :
          pub' = [pub EXCEPT ![r] =
            [pc |-> "producing", topic |-> t, batch |-> b, conf |-> {d}, answer |-> ""]]
    BY <2>1
  <2>3. c = d /\ pub'[r].topic = t
    BY <2>2 DEF PublishTypeOK
  <2> QED BY <1>1, <2>3, StartTrusted
<1>7. ASSUME NEW q \in Publisher, q # r, PublishStep(q)
      PROVE  pub'[r] = pub[r]
  BY <1>7 DEF PublishStep, Refuse, Start, Produce, Write, Report, Succeed, Error, Answer,
              PublishTypeOK
<1>8. CASE Produce(r) \/ \E i \in DOMAIN report[r] : Write(r, i) \/ Report(r, i)
  <2>1. pub' = pub
    BY <1>8 DEF Produce, Write, Report
  <2> QED BY <1>3, <2>1
<1>9. CASE UNCHANGED pub
  BY <1>3, <1>9
<1> QED BY <1>3, <1>4, <1>5, <1>6, <1>7, <1>8, <1>9
        DEF PublishNext, PublishStep, publishVars, pubVars

\* A producer never gets credentials that were not given for the bus of its topic, on
\* hosts that no update has moved an auth_type row from or to, however publishing and
\* the changes to buses and credentials interleave or fail.
THEOREM OwnCredentials == PublishSpec => []PublishesWithOwnCredentials
<1>1. PublishInit => PublishesWithOwnCredentials
  BY DEF PublishInit, PublishesWithOwnCredentials
<1>2. PubInv => PublishTypeOK
  BY DEF PubInv
<1>3. PublishSpec => []CredentialsStay
  BY RegistryAlone, CredentialsStayWithHost, PTL
<1>4. PublishTypeOK /\ CredentialsStay /\ PublishesWithOwnCredentials /\ [PublishNext]_publishVars
        => PublishesWithOwnCredentials'
  BY CredentialsStep
<1> QED BY <1>1, <1>2, <1>3, <1>4, PublishTypes, PTL DEF PublishSpec

(***************************************************************************)
(* The inference on nested values.  ToAvro's recursive function is given   *)
(* by CHOOSE: that one exists which satisfies the recursion follows from   *)
(* the solutions for the values less than n deep, which agree.             *)
(***************************************************************************)

LEMMA LeastNumber ==
  ASSUME NEW T \in SUBSET Nat, T # {}
  PROVE  \E n \in T : \A k \in T : n <= k
<1>1. IsWellFoundedOn({ss \in Nat \X Nat : ss[1] < ss[2]}, Nat)
  BY NatLessThanWellFounded DEF OpToRel
<1>2. PICK n \in T : \A k \in T : <<k, n>> \notin {ss \in Nat \X Nat : ss[1] < ss[2]}
  BY <1>1, WFMin, Zenon
<1>3. ASSUME NEW k \in T PROVE n <= k
  <2>1. k \in Nat /\ n \in Nat
    OBVIOUS
  <2>2. ~(k < n)
    BY <1>2, <2>1
  <2> QED
    BY <2>1, <2>2
<1> QED
  BY <1>3

\* A set of values that is not empty has one of least depth.
LEMMA Shallowest ==
  ASSUME NEW B \in SUBSET Json, B # {}
  PROVE  \E v \in B : \A p \in Parts(v) : p \in Json /\ p \notin B
<1> DEFINE T == {Depth[v] : v \in B}
<1>1. T \in SUBSET Nat /\ T # {}
  BY JsonAssumption
<1>2. PICK n \in T : \A k \in T : n <= k
  BY <1>1, LeastNumber
<1>3. PICK v \in B : n = Depth[v]
  BY Zenon
<1>4. ASSUME NEW p \in Parts(v) PROVE p \in Json /\ p \notin B
  <2>1. p \in Json /\ Depth[p] < Depth[v] /\ Depth[p] \in Nat /\ Depth[v] \in Nat
    BY JsonAssumption
  <2>2. p \in B => Depth[p] \in T
    BY Zenon
  <2> HIDE DEF T
  <2> QED
    BY <1>2, <1>3, <2>1, <2>2
<1> QED
  BY <1>4

\* The inference looks at the schemas of the parts only.
LEMMA InferLocal ==
  ASSUME NEW v \in Json, NEW f, NEW g, \A p \in Parts(v) : f[p] = g[p]
  PROVE  Infer(v, f) = Infer(v, g)
<1>1. CASE v.kind = "dict"
  <2>1. \A k \in DOMAIN v.fields : f[v.fields[k]] = g[v.fields[k]]
    BY <1>1 DEF Parts
  <2> DEFINE D(s) == {k \in DOMAIN v.fields : s[v.fields[k]] # NoSchema}
             E(s) == [k \in D(s) |-> s[v.fields[k]]]
  <2>2. D(f) = D(g)
    BY <2>1
  <2>3. E(f) = E(g)
    <3>1. \A k \in D(f) : f[v.fields[k]] = g[v.fields[k]]
      BY <2>1
    <3> HIDE DEF D
    <3> QED
      BY <2>2, <3>1
  <2>4. /\ Infer(v, f) = [type |-> "record", fields |-> E(f)]
        /\ Infer(v, g) = [type |-> "record", fields |-> E(g)]
    BY <1>1, Zenon DEF Infer
  <2> QED
    BY <2>3, <2>4, Zenon
<1>2. CASE v.kind = "list"
  <2>1. \A k \in DOMAIN v.items : f[v.items[k]] = g[v.items[k]]
    BY <1>2 DEF Parts
  <2> DEFINE D(s) == {k \in DOMAIN v.items : s[v.items[k]] # NoSchema}
             first(s) == CHOOSE i \in D(s) : \A k \in D(s) : i <= k
             E(s) == IF D(s) = {} THEN NoSchema
                     ELSE [type |-> "array", items |-> s[v.items[first(s)]]]
  <2>2. D(f) = D(g)
    BY <2>1
  <2>3. first(f) = first(g)
    <3> HIDE DEF D
    <3> QED
      BY <2>2, Zenon
  <2>4. Infer(v, f) = E(f) /\ Infer(v, g) = E(g)
    BY <1>2 DEF Infer
  <2>5. CASE D(f) = {}
    BY <2>2, <2>4, <2>5, Zenon
  <2>6. CASE D(f) # {}
    <3>1. D(f) \subseteq Nat
      BY <1>2, JsonAssumption
    <3>2. first(f) \in D(f)
      <4> HIDE DEF D
      <4>1. \E i \in D(f) : \A k \in D(f) : i <= k
        BY <2>6, <3>1, LeastNumber
      <4> QED
        BY <4>1, Zenon
    <3>3. f[v.items[first(f)]] = g[v.items[first(f)]]
      <4> HIDE DEF first
      <4> QED
        BY <2>1, <3>2
    <3>4. /\ E(f) = [type |-> "array", items |-> f[v.items[first(f)]]]
          /\ E(g) = [type |-> "array", items |-> g[v.items[first(g)]]]
      <4> HIDE DEF D, first
      <4> QED
        BY <2>2, <2>6, Zenon
    <3> HIDE DEF D, first, E
    <3> QED
      BY <2>3, <2>4, <3>3, <3>4, Zenon
  <2> QED
    BY <2>5, <2>6
<1>3. CASE v.kind \notin {"dict", "list"}
  BY <1>3 DEF Infer
<1> QED
  BY <1>1, <1>2, <1>3

\* The values less than n deep, and the schemas of those.
Shallow(n) == {v \in Json : Depth[v] < n}
Solves(n, f) == f = [v \in Shallow(n) |-> Infer(v, f)]

LEMMA SolutionsAgree ==
  ASSUME NEW n \in Nat, NEW k \in Nat, NEW f, NEW g, Solves(n, f), Solves(k, g)
  PROVE  \A v \in Shallow(n) \cap Shallow(k) : f[v] = g[v]
<1> DEFINE B == {v \in Shallow(n) \cap Shallow(k) : f[v] # g[v]}
<1> SUFFICES ASSUME B # {} PROVE FALSE
  BY Zenon
<1>1. B \in SUBSET Json
  BY DEF Shallow
<1>2. PICK v \in B : \A p \in Parts(v) : p \in Json /\ p \notin B
  BY <1>1, Shallowest
<1>3. \A p \in Parts(v) : p \in Shallow(n) \cap Shallow(k)
  BY <1>2, JsonAssumption DEF Shallow
<1>4. \A p \in Parts(v) : f[p] = g[p]
  BY <1>2, <1>3, Zenon
<1>5. Infer(v, f) = Infer(v, g)
  BY <1>1, <1>4, InferLocal, Zenon
<1>6. f[v] = Infer(v, f) /\ g[v] = Infer(v, g)
  BY Zenon DEF Solves
<1> QED
  BY <1>5, <1>6

LEMMA SolutionExists == \A n \in Nat : \E f : Solves(n, f)
<1> DEFINE T == {n \in Nat : ~ \E f : Solves(n, f)}
<1> SUFFICES ASSUME T # {} PROVE FALSE
  BY Zenon
<1>1. PICK n \in T : \A k \in T : n <= k
  BY LeastNumber
<1>2. CASE n = 0
  <2> DEFINE f == [v \in {} |-> v]
  <2>1. Shallow(0) = {}
    BY JsonAssumption DEF Shallow
  <2>2. Solves(0, f)
    BY <2>1 DEF Solves
  <2> QED
    BY <1>2, <2>2, Zenon
<1>3. CASE n # 0
  <2>1. n - 1 \in Nat /\ ~(n <= n - 1) /\ n \in Nat
    BY <1>3
  <2>2. PICK f : Solves(n - 1, f)
    BY <1>1, <2>1, Zenon
  <2> DEFINE g == [v \in Shallow(n) |-> Infer(v, f)]
  <2>3. ASSUME NEW v \in Shallow(n) PROVE Infer(v, f) = Infer(v, g)
    <3>1. \A p \in Parts(v) : p \in Shallow(n - 1) /\ p \in Shallow(n)
      BY <2>1, JsonAssumption DEF Shallow
    <3>2. \A p \in Parts(v) : f[p] = Infer(p, f)
      BY <2>2, <3>1, Zenon DEF Solves
    <3>3. \A p \in Parts(v) : g[p] = Infer(p, f)
      BY <3>1, Zenon
    <3>4. v \in Json
      BY DEF Shallow
    <3> HIDE DEF g
    <3> QED
      BY <3>2, <3>3, <3>4, InferLocal
  <2>4. Solves(n, g)
    BY <2>3, Zenon DEF Solves
  <2> QED
    BY <2>4, Zenon
<1> QED
  BY <1>2, <1>3

LEMMA SchemaExists == \E f : f = [v \in Json |-> Infer(v, f)]
<1> DEFINE S(n) == CHOOSE f : Solves(n, f)
           F == [v \in Json |-> S(Depth[v] + 1)[v]]
<1>1. \A n \in Nat : Solves(n, S(n))
  BY SolutionExists, Zenon
<1>2. \A v \in Json : Depth[v] + 1 \in Nat /\ v \in Shallow(Depth[v] + 1)
  BY JsonAssumption DEF Shallow
<1>3. ASSUME NEW v \in Json PROVE S(Depth[v] + 1)[v] = Infer(v, F)
  <2> DEFINE f == S(Depth[v] + 1)
  <2>1. Solves(Depth[v] + 1, f)
    BY <1>1, <1>2, Zenon
  <2> HIDE DEF f, S
  <2>2. f[v] = Infer(v, f)
    BY <1>2, <2>1, Zenon DEF Solves
  <2>3. ASSUME NEW p \in Parts(v) PROVE f[p] = F[p]
    <3>1. p \in Json /\ p \in Shallow(Depth[v] + 1) /\ p \in Shallow(Depth[p] + 1)
      BY JsonAssumption DEF Shallow
    <3>2. Solves(Depth[p] + 1, S(Depth[p] + 1))
      BY <1>1, <1>2, <3>1, Zenon
    <3>3. f[p] = S(Depth[p] + 1)[p]
      <4>1. Depth[v] + 1 \in Nat /\ Depth[p] + 1 \in Nat
        BY <1>2, <3>1, Zenon
      <4>2. \A u \in Shallow(Depth[v] + 1) \cap Shallow(Depth[p] + 1) :
              f[u] = S(Depth[p] + 1)[u]
        <5> DEFINE n == Depth[v] + 1
                   k == Depth[p] + 1
                   g == S(k)
        <5>1. n \in Nat /\ k \in Nat /\ Solves(n, f) /\ Solves(k, g)
          BY <2>1, <3>2, <4>1
        <5> HIDE DEF n, k, g
        <5>2. \A u \in Shallow(n) \cap Shallow(k) : f[u] = g[u]
          BY <5>1, SolutionsAgree
        <5> QED
          BY <5>2 DEF n, k, g
      <4> QED
        BY <3>1, <4>2, Zenon
    <3> QED
      BY <3>1, <3>3, Zenon
  <2> HIDE DEF F
  <2>4. Infer(v, f) = Infer(v, F)
    BY <2>3, InferLocal
  <2> QED
    BY <2>2, <2>4 DEF f
<1>4. F = [v \in Json |-> Infer(v, F)]
  <2> HIDE DEF S
  <2> QED
    BY <1>3, Zenon
<1> QED
  BY <1>4, Zenon

\* What is inferred from a value follows from what is inferred from its parts.
Inferred == [v \in Json |-> ToAvro(v)]

LEMMA ToAvroIs == \A v \in Json : ToAvro(v) = Infer(v, Inferred)
<1> DEFINE R(f) == [v \in Json |-> Infer(v, f)]
           F == CHOOSE f : f = R(f)
<1>1. F = R(F)
  BY SchemaExists, Zenon
<1>2. \A v : ToAvro(v) = Infer(v, F)
  BY Zenon DEF ToAvro
<1> HIDE DEF F
<1>3. F = Inferred
  BY <1>1, <1>2, Zenon DEF Inferred
<1> QED
  BY <1>2, <1>3, Zenon

\* More conforming parts do no harm.
LEMMA FitsGrows ==
  ASSUME NEW v \in Json, NEW s, NEW C, NEW D, \A p \in Parts(v) : C[p] \subseteq D[p],
         Fits(v, s, C)
  PROVE  Fits(v, s, D)
<1>1. CASE s.type = "record"
  <2>1. /\ v.kind = "dict"
        /\ \A k \in DOMAIN s.fields : k \in DOMAIN v.fields /\ s.fields[k] \in C[v.fields[k]]
    BY <1>1, Zenon DEF Fits
  <2>2. \A k \in DOMAIN v.fields : v.fields[k] \in Parts(v)
    BY <2>1 DEF Parts
  <2>3. \A k \in DOMAIN s.fields : k \in DOMAIN v.fields /\ s.fields[k] \in D[v.fields[k]]
    BY <2>1, <2>2, Zenon
  <2> QED
    BY <1>1, <2>1, <2>3, Zenon DEF Fits
<1>2. CASE s.type = "array"
  <2>1. s.type # "record"
    BY <1>2
  <2>2. v.kind = "list" /\ \A i \in DOMAIN v.items : s.items \in C[v.items[i]]
    BY <1>2, <2>1, Zenon DEF Fits
  <2>3. \A i \in DOMAIN v.items : v.items[i] \in Parts(v)
    BY <2>2 DEF Parts
  <2>4. \A i \in DOMAIN v.items : s.items \in D[v.items[i]]
    BY <2>2, <2>3, Zenon
  <2> QED
    BY <1>2, <2>1, <2>2, <2>4, Zenon DEF Fits
<1>3. CASE s.type # "record" /\ s.type # "array"
  BY <1>3, Zenon DEF Fits
<1> QED
  BY <1>1, <1>2, <1>3

\* The recursion of Conforming has a solution: the largest relation that its own rules
\* support.
LEMMA ConformingIs == \A v \in Json : Conforming[v] = {s \in Schemas : Fits(v, s, Conforming)}
<1> DEFINE R(f) == [v \in Json |-> {s \in Schemas : Fits(v, s, f)}]
           Supported(f) == \A v \in Json : f[v] \subseteq R(f)[v]
           W == [v \in Json |-> {s \in Schemas :
                   \E f \in [Json -> SUBSET Schemas] : Supported(f) /\ s \in f[v]}]
<1>1. ASSUME NEW f, NEW g, \A v \in Json : f[v] \subseteq g[v], NEW v \in Json
      PROVE  R(f)[v] \subseteq R(g)[v]
  <2>1. \A p \in Parts(v) : f[p] \subseteq g[p]
    BY <1>1, JsonAssumption
  <2>2. \A s : Fits(v, s, f) => Fits(v, s, g)
    BY <2>1, FitsGrows
  <2> QED
    BY <2>2
<1>2. ASSUME NEW v \in Json PROVE W[v] \subseteq R(W)[v]
  <2> SUFFICES ASSUME NEW s \in W[v] PROVE s \in R(W)[v]
    OBVIOUS
  <2>1. PICK f \in [Json -> SUBSET Schemas] : Supported(f) /\ s \in f[v]
    BY Zenon
  <2>2. ASSUME NEW u \in Json PROVE f[u] \subseteq W[u]
    <3>1. f[u] \subseteq Schemas
      OBVIOUS
    <3> HIDE DEF Supported
    <3> QED
      BY <2>1, <3>1, Zenon
  <2>3. s \in R(f)[v]
    BY <2>1, Zenon
  <2> HIDE DEF W, R
  <2> QED
    BY <1>1, <2>2, <2>3
<1>3. ASSUME NEW v \in Json PROVE R(W)[v] \subseteq W[v]
  <2> SUFFICES ASSUME NEW s \in R(W)[v] PROVE s \in W[v]
    OBVIOUS
  <2> DEFINE f == R(W)
  <2>1. f \in [Json -> SUBSET Schemas]
    OBVIOUS
  <2>2. \A u \in Json : R(W)[u] \subseteq R(f)[u]
    <3> HIDE DEF R, W
    <3> QED
      BY <1>1, <1>2
  <2>3. Supported(f) /\ s \in f[v]
    BY <2>2, Zenon
  <2>4. s \in Schemas
    BY Zenon
  <2> HIDE DEF Supported, f
  <2> QED
    BY <2>1, <2>3, <2>4, Zenon
<1>4. W = R(W)
  <2>1. \A v \in Json : W[v] = R(W)[v]
    <3> HIDE DEF W, R
    <3> QED
      BY <1>2, <1>3
  <2> QED
    BY <2>1, Zenon
<1>5. Conforming = R(Conforming)
  <2> HIDE DEF W
  <2> QED
    BY <1>4, Zenon DEF Conforming
<1> QED
  BY <1>5, Zenon

\* infer_avro_schema, for every JSON value: when its lists are uniform, it is an instance
\* of the schema inferred from it.
LEMMA UniformInferred == UniformValues \subseteq WellInferred
<1> SUFFICES ASSUME NEW m \in UniformValues PROVE m \in WellInferred
  OBVIOUS
<1>1. PICK P \in SUBSET Json :
        /\ m \in P
        /\ \A v \in P : Parts(v) \subseteq P /\ (v.kind = "list" => UniformList(v))
  BY Zenon DEF UniformValues
<1> DEFINE B == {v \in P : v \notin WellInferred}
<1> SUFFICES ASSUME B # {} PROVE FALSE
  BY <1>1, Zenon
<1>2. PICK v \in B : \A p \in Parts(v) : p \in Json /\ p \notin B
  BY Shallowest
<1>3. /\ v \in Json /\ ToAvro(v) # NoSchema /\ ToAvro(v) \notin Conforming[v]
      /\ v.kind = "list" => UniformList(v)
  BY <1>1, Zenon DEF WellInferred
<1>4. \A p \in Parts(v) : p \in Json /\ Inferred[p] = ToAvro(p)
                          /\ (ToAvro(p) # NoSchema => ToAvro(p) \in Conforming[p])
  BY <1>1, <1>2 DEF WellInferred, Inferred
<1>5. ToAvro(v) = Infer(v, Inferred)
  BY <1>3, ToAvroIs, Zenon
<1>6. ~Fits(v, ToAvro(v), Conforming)
  BY <1>3, ConformingIs DEF Schemas
<1> DEFINE s == ToAvro(v)
<1>7. CASE v.kind = "dict"
  <2> DEFINE D == {k \in DOMAIN v.fields : Inferred[v.fields[k]] # NoSchema}
  <2>1. s = [type |-> "record", fields |-> [k \in D |-> Inferred[v.fields[k]]]]
    BY <1>5, <1>7, Zenon DEF Infer
  <2>2. s.type = "record" /\ DOMAIN s.fields = D
        /\ \A k \in D : s.fields[k] = Inferred[v.fields[k]]
    <3> HIDE DEF D
    <3> QED
      BY <2>1
  <2>3. ASSUME NEW k \in D PROVE s.fields[k] \in Conforming[v.fields[k]]
    <3>1. v.fields[k] \in Parts(v)
      BY <1>7 DEF Parts
    <3> QED
      BY <1>4, <2>2, <3>1, Zenon
  <2>4. D \subseteq DOMAIN v.fields
    OBVIOUS
  <2>5. Fits(v, s, Conforming)
    <3> HIDE DEF D, s
    <3> QED
      BY <1>7, <2>2, <2>3, <2>4 DEF Fits
  <2> QED
    BY <1>6, <2>5
<1>8. CASE v.kind = "list"
  <2> DEFINE D == {i \in DOMAIN v.items : Inferred[v.items[i]] # NoSchema}
             first == CHOOSE i \in D : \A k \in D : i <= k
  <2>1. s = IF D = {} THEN NoSchema
            ELSE [type |-> "array", items |-> Inferred[v.items[first]]]
    BY <1>5, <1>8 DEF Infer
  <2>2. D # {}
    BY <1>3, <2>1, Zenon
  <2>3. first \in D
    <3>1. D \subseteq Nat
      BY <1>3, <1>8, JsonAssumption
    <3> HIDE DEF D
    <3>2. \E i \in D : \A k \in D : i <= k
      BY <2>2, <3>1, LeastNumber
    <3> QED
      BY <3>2, Zenon
  <2> HIDE DEF first
  <2>4. s.type = "array" /\ s.items = Inferred[v.items[first]]
    <3> HIDE DEF D, s
    <3> QED
      BY <2>1, <2>2
  <2>5. ASSUME NEW i \in DOMAIN v.items PROVE s.items \in Conforming[v.items[i]]
    <3>1. first \in DOMAIN v.items /\ Inferred[v.items[first]] # NoSchema
      BY <2>3
    <3>2. v.items[i] \in Parts(v) /\ v.items[first] \in Parts(v)
      BY <1>8, <3>1 DEF Parts
    <3>3. ToAvro(v.items[i]) = ToAvro(v.items[first])
      BY <1>3, <1>8, <3>1, Zenon DEF UniformList
    <3> QED
      BY <1>4, <2>4, <3>1, <3>2, <3>3, Zenon
  <2>6. Fits(v, s, Conforming)
    <3> HIDE DEF D, s
    <3> QED
      BY <1>8, <2>4, <2>5 DEF Fits
  <2> QED
    BY <1>6, <2>6
<1>9. CASE v.kind \notin {"dict", "list"}
  <2>1. v.kind \in {"str", "bool", "int", "float", "null"} /\ s = InferScalar(v.kind)
    BY <1>3, <1>5, <1>9, JsonAssumption DEF Infer
  <2>2. IsInstance(v, s.type) /\ s.type \notin {"record", "array"}
    <3> HIDE DEF s
    <3> QED
      BY <2>1 DEF InferScalar, IsInstance
  <2>3. Fits(v, s, Conforming)
    <3> HIDE DEF s
    <3> QED
      BY <2>2 DEF Fits
  <2> QED
    BY <1>6, <2>3
<1> QED
  BY <1>7, <1>8, <1>9

\* infer_avro_schema: a message whose lists are uniform, at any depth, is an instance of
\* the schema that is inferred from it to be compared with the topic's definition.
THEOREM InferredConforms == PublishSpec => []InferenceConforms
<1>1. InferenceConforms
  BY UniformInferred DEF InferenceConforms
<1> QED
  BY <1>1, PTL
===============================================================================
