-------------------------------- MODULE Buses --------------------------------
(***************************************************************************)
(* The registry of Kafka buses: crud_fed_kafkabus.py (tables               *)
(* fed_kafka_buses and schema_registry) and crud_auth_type.py (table       *)
(* auth_type and, for each authentication mechanism, a table with the      *)
(* credentials, all of them "infos" here).                                 *)
(*                                                                         *)
(* A handler reads in one step and then commits once or twice; the         *)
(* requests of other workers come in between.  SQLAlchemy writes the       *)
(* columns that differ from the row it has loaded, and all of those that   *)
(* are assigned after a commit, which discards what was loaded.            *)
(*                                                                         *)
(* Credentials are one value: which of their columns differ is left out.   *)
(* A bus is never deleted: its endpoint calls a function the class does    *)
(* not have.                                                               *)
(***************************************************************************)
EXTENDS Naturals, FiniteSets

CONSTANTS
  Worker,       \* server threads
  BusPayload,   \* what clients ask for a bus: [host, port, auth, registry]
  AuthPayload,  \* what clients ask for an auth_type: [kind, host, credentials]
  Broken,       \* mechanisms whose branch of the handlers raises (KERBEROS)
  None,         \* no registry, or no authentication
  MaxRows,      \* bound on the rows ever inserted into a table
  MaxRequests   \* bound on the requests ever received

Host == {p.host : p \in BusPayload} \cup {p.host : p \in AuthPayload}
Port == {p.port : p \in BusPayload}
Kind == {p.kind : p \in AuthPayload} \cup {p.auth : p \in BusPayload}
Setting == {p.registry : p \in BusPayload}
Credentials == {p.credentials : p \in AuthPayload}

ASSUME BusesAssumption ==
  /\ BusPayload \subseteq [host : Host, port : Port, auth : Kind, registry : Setting]
  /\ AuthPayload \subseteq [kind : Kind, host : Host, credentials : Credentials]
  /\ MaxRows \in Nat
  /\ MaxRequests \in Nat

VARIABLES
  registries,  \* table schema_registry
  buses,       \* table fed_kafka_buses
  infos,       \* the tables with the credentials
  auths,       \* table auth_type
  next,        \* the AUTO_INCREMENT counters
  task,        \* task[w]: the request worker w is in the middle of
  received,    \* requests received so far
  \* what an observer knows
  busAsked,    \* <<id, payload>>: a create or update of bus id that was committed
  overlapped,  \* buses written while another update had loaded them
  given,       \* <<host, credentials>> of the auth_type requests
  moved,       \* hosts an update has taken an auth_type row from or to
  abandoned    \* infos whose auth_type row was deleted or never inserted

busVars  == <<registries, buses>>
authVars == <<infos, auths>>
busSeen  == <<busAsked, overlapped>>
authSeen == <<given, moved, abandoned>>
registryVars == <<busVars, authVars, next, task, received, busSeen, authSeen>>

Registry == [id : Nat, settings : Setting]

Bus == [id : Nat, host : Host, port : Port, auth : Kind, registry : Nat]

\* The row of a mechanism's table; the id is unique over all of these tables.
Info == [id : Nat, kind : Kind, credentials : Credentials]

\* info: the one foreign key that is set, at the creation, in the column of the
\* mechanism that infos says.
Auth == [id : Nat, kind : Kind, host : Host, info : Nat]

Idle == [pc |-> "idle"]

Task == {Idle}
  \cup [pc : {"addBus"}, asked : BusPayload, registry : Nat]
  \cup [pc : {"editBus"}, asked : BusPayload, row : Bus, found : Nat]
  \cup [pc : {"rewriteBus"}, asked : BusPayload, id : Nat, registry : Nat]
  \cup [pc : {"addInfo"}, asked : AuthPayload]
  \cup [pc : {"addAuth"}, asked : AuthPayload, info : Nat]
  \cup [pc : {"editInfo"}, asked : AuthPayload, row : Auth, loaded : Credentials]
  \cup [pc : {"rewriteAuth"}, asked : AuthPayload, id : Nat]

Is(w, pc) == task[w].pc = pc

Goes(w, t) == task' = [task EXCEPT ![w] = t]

\* A new request.
Receive(w, t) ==
  /\ Is(w, "idle")
  /\ received < MaxRequests
  /\ received' = received + 1
  /\ Goes(w, t)

\* The table named takes a row with the next id.
Takes(table) ==
  /\ next[table] <= MaxRows
  /\ next' = [next EXCEPT ![table] = @ + 1]

RegistryInit ==
  /\ registries = {} /\ buses = {} /\ infos = {} /\ auths = {}
  /\ next = [t \in {"registry", "bus", "info", "auth"} |-> 1]
  /\ task = [w \in Worker |-> Idle]
  /\ received = 0
  /\ busAsked = {} /\ overlapped = {}
  /\ given = {} /\ moved = {} /\ abandoned = {}
-----------------------------------------------------------------------------
(* Buses.                                                                  *)

NewRegistry(p) ==
  /\ Takes("registry")
  /\ registries' = registries \cup {[id |-> next["registry"], settings |-> p.registry]}

\* The bus row of a create, which ends the request.
NewBus(p, registry) ==
  /\ Takes("bus")
  /\ buses' = buses \cup {[id |-> next["bus"], host |-> p.host, port |-> p.port,
                           auth |-> p.auth, registry |-> registry]}
  /\ busAsked' = busAsked \cup {<<next["bus"], p>>}
  /\ UNCHANGED <<registries, overlapped>>

\* With a registry, its row is committed first.
CreateBus(w) ==
  /\ \E p \in BusPayload :
       \/ /\ p.registry = None
          /\ Receive(w, Idle)
          /\ NewBus(p, 0)
       \/ /\ p.registry # None
          /\ Receive(w, [pc |-> "addBus", asked |-> p, registry |-> next["registry"]])
          /\ NewRegistry(p)
          /\ UNCHANGED <<buses, busSeen>>
  /\ UNCHANGED <<authVars, authSeen>>

AddBus(w) ==
  /\ Is(w, "addBus")
  /\ NewBus(task[w].asked, task[w].registry)
  /\ Goes(w, Idle)
  /\ UNCHANGED <<authVars, received, authSeen>>

\* Mutant: nothing found is Python's None, and taken for an id.
MutantFirstRegistry(settings) ==
  LET same == {r \in registries : r.settings = settings}
  IN IF same = {} THEN {None} ELSE {r.id : r \in {q \in same : \A k \in same : q.id <= k.id}}

\* Mutant: the settings are not compared.
MutantAnyRegistry(settings) ==
  IF registries = {} THEN {0}
  ELSE {r.id : r \in {q \in registries : \A k \in registries : q.id <= k.id}}

\* The id of the first registry row with these settings, or 0.
FirstRegistry(settings) ==
  LET same == {r \in registries : r.settings = settings}
  IN IF same = {} THEN {0} ELSE {r.id : r \in {q \in same : \A k \in same : q.id <= k.id}}

\* An update loads the bus and looks for a registry row with the same settings.
LoadBus(w) ==
  /\ \E p \in BusPayload, b \in buses :
       \E f \in IF p.registry = None THEN {b.registry} ELSE FirstRegistry(p.registry) :
         Receive(w, [pc |-> "editBus", asked |-> p, row |-> b, found |-> f])
  /\ UNCHANGED <<busVars, authVars, next, busSeen, authSeen>>

\* A column that was assigned the value it had is not written.
Column(loaded, assigned, current) == IF assigned = loaded THEN current ELSE assigned

\* Row b after the update, of which only the columns that differ are written.
Edited(b, t) ==
  [b EXCEPT !.host = Column(t.row.host, t.asked.host, @),
            !.port = Column(t.row.port, t.asked.port, @),
            !.auth = Column(t.row.auth, t.asked.auth, @),
            !.registry = Column(t.row.registry, t.found, @)]

\* The commit of an update of bus i; others that have loaded it will write over it.
Commit(w, i) ==
  /\ busAsked' = busAsked \cup {<<i, task[w].asked>>}
  /\ overlapped' = overlapped \cup
       {k \in {i} : \E u \in Worker \ {w} : Is(u, "editBus") /\ task[u].row.id = k}
  /\ Goes(w, Idle)

\* The registry was found, or none was asked for: one commit.
EditBus(w) ==
  LET t == task[w] IN
  /\ Is(w, "editBus")
  /\ t.asked.registry = None \/ t.found # 0
  /\ buses' = {IF b.id = t.row.id THEN Edited(b, t) ELSE b : b \in buses}
  /\ Commit(w, t.row.id)
  /\ UNCHANGED <<registries, authVars, next, received, authSeen>>

\* It was not found: a row is committed for it, and what was loaded is discarded.
AddRegistry(w) ==
  LET t == task[w] IN
  /\ Is(w, "editBus")
  /\ t.asked.registry # None /\ t.found = 0
  /\ NewRegistry(t.asked)
  /\ Goes(w, [pc |-> "rewriteBus", asked |-> t.asked, id |-> t.row.id,
              registry |-> next["registry"]])
  /\ UNCHANGED <<buses, authVars, received, busSeen, authSeen>>

\* All columns of the bus are written.
RewriteBus(w) ==
  LET t == task[w] IN
  /\ Is(w, "rewriteBus")
  /\ buses' = {IF b.id = t.id
               THEN [id |-> b.id, host |-> t.asked.host, port |-> t.asked.port,
                     auth |-> t.asked.auth, registry |-> t.registry]
               ELSE b : b \in buses}
  /\ Commit(w, t.id)
  /\ UNCHANGED <<registries, authVars, next, received, authSeen>>
-----------------------------------------------------------------------------
(* Authentication types.                                                   *)

\* Of the rows of a mechanism and a bus, the first.
FirstAuth(kind, host) ==
  {a \in auths : /\ a.kind = kind /\ a.host = host
                 /\ \A q \in auths : q.kind = kind /\ q.host = host => a.id <= q.id}

\* The row an auth_type row's foreign key for its present mechanism points to.
InfoOf(a) == {i \in infos : i.id = a.info /\ i.kind = a.kind}

\* A create goes on when there is no row for the mechanism and the bus.
CheckAuth(w) ==
  /\ \E p \in AuthPayload :
       /\ p.kind \notin Broken
       /\ FirstAuth(p.kind, p.host) = {}
       /\ Receive(w, [pc |-> "addInfo", asked |-> p])
       /\ given' = given \cup {<<p.host, p.credentials>>}
  /\ UNCHANGED <<busVars, authVars, next, busSeen, moved, abandoned>>

AddInfo(w) ==
  LET p == task[w].asked IN
  /\ Is(w, "addInfo")
  /\ Takes("info")
  /\ infos' = infos \cup {[id |-> next["info"], kind |-> p.kind,
                           credentials |-> p.credentials]}
  /\ Goes(w, [pc |-> "addAuth", asked |-> p, info |-> next["info"]])
  /\ UNCHANGED <<busVars, auths, received, busSeen, authSeen>>

\* Mutant: the auth_type row gets the first info row of its mechanism.
MutantAddAuth(w) ==
  LET p == task[w].asked IN
  /\ Is(w, "addAuth")
  /\ Takes("auth")
  /\ \E i \in infos :
       /\ i.kind = p.kind
       /\ \A k \in infos : k.kind = p.kind => i.id <= k.id
       /\ auths' = auths \cup {[id |-> next["auth"], kind |-> p.kind, host |-> p.host,
                                info |-> i.id]}
  /\ Goes(w, Idle)
  /\ UNCHANGED <<busVars, infos, received, busSeen, authSeen>>

AddAuth(w) ==
  LET p == task[w].asked IN
  /\ Is(w, "addAuth")
  /\ Takes("auth")
  /\ auths' = auths \cup {[id |-> next["auth"], kind |-> p.kind, host |-> p.host,
                           info |-> task[w].info]}
  /\ Goes(w, Idle)
  /\ UNCHANGED <<busVars, infos, received, busSeen, authSeen>>

\* An update loads the row and its credentials, those of the mechanism the row has
\* now: there are none once an update has changed the mechanism.
LoadAuth(w) ==
  /\ \E p \in AuthPayload, a \in auths : \E i \in InfoOf(a) :
       /\ a.kind \notin Broken
       /\ Receive(w, [pc |-> "editInfo", asked |-> p, row |-> a,
                      loaded |-> i.credentials])
       /\ given' = given \cup {<<p.host, p.credentials>>}
       /\ moved' = IF p.host = a.host THEN moved ELSE moved \cup {a.host, p.host}
  /\ UNCHANGED <<busVars, authVars, next, busSeen, abandoned>>

\* Mutant: all rows of the mechanism are written.
MutantEditInfo(w) ==
  LET t == task[w] IN
  /\ Is(w, "editInfo")
  /\ infos' = {IF i.kind = t.row.kind
               THEN [i EXCEPT !.credentials = Column(t.loaded, t.asked.credentials, @)]
               ELSE i : i \in infos}
  /\ Goes(w, [pc |-> "rewriteAuth", asked |-> t.asked, id |-> t.row.id])
  /\ UNCHANGED <<busVars, auths, next, received, busSeen, authSeen>>

\* The credentials are committed first.
EditInfo(w) ==
  LET t == task[w] IN
  /\ Is(w, "editInfo")
  /\ infos' = {IF i.id = t.row.info
               THEN [i EXCEPT !.credentials = Column(t.loaded, t.asked.credentials, @)]
               ELSE i : i \in infos}
  /\ Goes(w, [pc |-> "rewriteAuth", asked |-> t.asked, id |-> t.row.id])
  /\ UNCHANGED <<busVars, auths, next, received, busSeen, authSeen>>

\* The mechanism and the bus of the row; the foreign key stays in its column.  A row
\* that has been deleted raises.
RewriteAuth(w) ==
  LET t == task[w] IN
  /\ Is(w, "rewriteAuth")
  /\ auths' = {IF a.id = t.id THEN [a EXCEPT !.kind = t.asked.kind, !.host = t.asked.host]
                              ELSE a : a \in auths}
  /\ Goes(w, Idle)
  /\ UNCHANGED <<busVars, infos, next, received, busSeen, authSeen>>

\* The auth_type row alone is deleted.
DeleteAuth(w) ==
  /\ Receive(w, Idle)
  /\ \E a \in auths :
       /\ auths' = auths \ {a}
       /\ abandoned' = abandoned \cup {a.info}
  /\ UNCHANGED <<busVars, infos, next, busSeen, given, moved>>
-----------------------------------------------------------------------------
\* A call of the handler raises, or the worker dies: what was committed stays.
Fail(w) ==
  /\ ~Is(w, "idle")
  /\ Goes(w, Idle)
  /\ abandoned' = IF Is(w, "addAuth") THEN abandoned \cup {task[w].info} ELSE abandoned
  /\ UNCHANGED <<busVars, authVars, next, received, busSeen, given, moved>>

BusStep(w) ==
  CreateBus(w) \/ AddBus(w) \/ LoadBus(w) \/ EditBus(w) \/ AddRegistry(w) \/ RewriteBus(w)

AuthStep(w) ==
  \/ CheckAuth(w) \/ AddInfo(w) \/ AddAuth(w)
  \/ LoadAuth(w) \/ EditInfo(w) \/ RewriteAuth(w)
  \/ DeleteAuth(w)

RegistryNext == \E w \in Worker : BusStep(w) \/ AuthStep(w) \/ Fail(w)

RegistrySpec == RegistryInit /\ [][RegistryNext]_registryVars
-----------------------------------------------------------------------------
(* Properties.                                                             *)

\* Every variable has its type.
RegistryTypeOK ==
  /\ registries \in SUBSET Registry
  /\ buses \in SUBSET Bus
  /\ infos \in SUBSET Info
  /\ auths \in SUBSET Auth
  /\ next \in [{"registry", "bus", "info", "auth"} -> Nat]
  /\ task \in [Worker -> Task]
  /\ received \in Nat
  /\ busAsked \in SUBSET (Nat \X BusPayload)
  /\ overlapped \in SUBSET Nat
  /\ given \in SUBSET (Host \X Credentials)
  /\ moved \in SUBSET Host
  /\ abandoned \in SUBSET Nat

\* Bus b has the address and the mechanism of one request for it; its registry, if it
\* has one, has the settings of some request for it.
AsAsked(b, rows, asked) ==
  \E p \in BusPayload :
    /\ <<b.id, p>> \in asked
    /\ b.host = p.host /\ b.port = p.port /\ b.auth = p.auth
    /\ b.registry # 0 =>
         \E r \in rows, q \in BusPayload :
           r.id = b.registry /\ r.settings = q.registry /\ <<b.id, q>> \in asked

\* update_fed_kafka_info: unless two updates of a bus overlapped, its columns are those
\* one single request asked for, and its registry, which other buses may share, is one
\* that was asked for this very bus.
BusAsAsked ==
  \A b \in buses : b.id \notin overlapped => AsAsked(b, registries, busAsked)

\* CrudAuthType: credentials belong to one auth_type row at most, and those left
\* behind by a failure or a delete never come back into use.
OneOwner ==
  /\ \A a, q \in auths : a.info = q.info => a = q
  /\ \A a \in auths : a.info \notin abandoned

\* update_auth_type_info commits the credentials before the name of their bus, so they
\* may be those of another bus for a while, or for good after a failure: but only on
\* hosts that some update has moved an auth_type row from or to, whatever requests
\* overlap or fail.
CredentialsStay ==
  \A a \in auths, i \in infos :
    i.id = a.info /\ a.host \notin moved => <<a.host, i.credentials>> \in given
-----------------------------------------------------------------------------
(* The strengthenings of these properties that every step preserves.       *)

\* Among these registry rows, row i has these settings.
Has(rows, i, settings) == \E r \in rows : r.id = i /\ r.settings = settings

\* Ids are given once.
BusIds ==
  /\ \A b \in buses : b.id < next["bus"]
  /\ \A b, q \in buses : b.id = q.id => b = q

\* The registry row that a request has committed is the one it was asked for.
OwnRegistry ==
  \A w \in Worker :
    Is(w, "addBus") \/ Is(w, "rewriteBus") => Has(registries, task[w].registry, task[w].asked.registry)

\* A bus that was loaded is still as it was, unless others have written it, and the
\* registry found for it has the settings asked for.
LoadedBus ==
  \A w \in Worker :
    Is(w, "editBus") =>
      LET t == task[w] IN
      /\ t.row.id < next["bus"]
      /\ IF t.asked.registry = None THEN t.found = t.row.registry
         ELSE t.found # 0 => Has(registries, t.found, t.asked.registry)
      /\ \A b \in buses : b.id = t.row.id /\ b.id \notin overlapped => b = t.row

BusInv == BusAsAsked /\ BusIds /\ OwnRegistry /\ LoadedBus

\* Ids are given once, and so are the rows with the credentials.
AuthIds ==
  /\ \A a \in auths : a.id < next["auth"] /\ a.info < next["info"]
  /\ \A a, q \in auths : a.id = q.id => a = q
  /\ \A i \in infos : i.id < next["info"]
  /\ \A i \in abandoned : i < next["info"]

\* The credentials that a create has committed are nobody else's as long as it has not
\* inserted its auth_type row.
PendingInfo ==
  \A w \in Worker :
    Is(w, "addAuth") =>
      LET t == task[w] IN
      /\ t.info < next["info"] /\ t.info \notin abandoned
      /\ \A a \in auths : a.info # t.info
      /\ \A u \in Worker : Is(u, "addAuth") /\ task[u].info = t.info => u = w

\* They are those it was asked for.
PendingCredentials ==
  \A w \in Worker :
    LET t == task[w] IN
    /\ Is(w, "addInfo") => <<t.asked.host, t.asked.credentials>> \in given
    /\ Is(w, "addAuth") =>
         \A i \in infos : i.id = t.info => <<t.asked.host, i.credentials>> \in given

\* An update writes the credentials of no other row than the one it has loaded.
LoadedInfo ==
  \A w \in Worker :
    Is(w, "editInfo") =>
      LET t == task[w] IN
      /\ t.row.info < next["info"]
      /\ <<t.asked.host, t.asked.credentials>> \in given
      /\ \A a \in auths : a.info = t.row.info => a.id = t.row.id
      /\ \A u \in Worker : Is(u, "addAuth") => task[u].info # t.row.info

\* The row an update will name a bus in has that bus already, or else both are moved.
Renames(w, id) ==
  LET h == task[w].asked.host IN
  /\ id < next["auth"]
  /\ \A a \in auths : a.id = id => a.host = h \/ {a.host, h} \subseteq moved

LoadedAuth ==
  \A w \in Worker :
    /\ Is(w, "editInfo") => Renames(w, task[w].row.id)
    /\ Is(w, "rewriteAuth") => Renames(w, task[w].id)

OwnerInv == OneOwner /\ AuthIds /\ PendingInfo

AuthInv == CredentialsStay /\ PendingCredentials /\ LoadedInfo /\ LoadedAuth
=============================================================================
