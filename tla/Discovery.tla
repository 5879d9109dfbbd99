------------------------------ MODULE Discovery ------------------------------
(***************************************************************************)
(* discovery_service of discovery_plugin_service.py, run by the plugin's   *)
(* jobs in threads of their own, over the catalogue that clients change at *)
(* the same time.  Each call of a job to the API is a step.                *)
(*                                                                         *)
(* A bus with a schema registry is discovered from the registry's schemas, *)
(* any other bus from a message of each of its topics, which also names    *)
(* the topic's schema.  An exception ends the turn of one topic, or all of *)
(* a bus with a registry.                                                  *)
(*                                                                         *)
(* A schema of a registry that is not found is never made: its type, which *)
(* is "record", "enum" or "fixed", is none that Creates_a_schema takes,    *)
(* and the answer without an id raises.  So only the other buses get as    *)
(* far as PUT topics and the association.                                  *)
(***************************************************************************)
EXTENDS Catalog

CONSTANTS
  Job,        \* the plugin's jobs
  Bus,        \* buses
  Registry,   \* the buses with a schema registry
  Items,      \* Items[b]: what is found on bus b
  BusesOfJob  \* the buses each job discovers

\* Nothing a schema can be inferred from: no message, or an error of the consumer.
NoMessage == [as |-> "nothing"]

Seen == {[shape |-> s] : s \in Shape} \cup {NoMessage}

\* The name of a topic, or of a registry's schema, and the schemas that the messages
\* or the registry may give for it.
Item == [name : Name, seen : SUBSET Seen]

ASSUME DiscoveryAssumption ==
  /\ Registry \subseteq Bus
  /\ Items \in [Bus -> SUBSET Item]
  /\ BusesOfJob \in [Job -> SUBSET Bus]

VARIABLES
  turn,       \* turn[j]: what job j is doing
  loose,      \* history: ids of schemas that clients made, or whose topic was not
              \* registered or associated because the job was stopped
  contested   \* history: names of schemas that more than one party made at a time

vars == <<catalogVars, turn, loose, contested>>

\* Between the topics of a bus, and in the middle of one of them.
Scan == [pc : {"scan"}, bus : Bus, todo : SUBSET Item]

Turn == [pc : {"update", "post", "topic", "link"}, bus : Bus, todo : SUBSET Item,
         item : Item, seen : Seen, schema : Nat, topic : Nat]

Idle == [pc |-> "idle"]

Init ==
  /\ CatalogInit
  /\ turn = [j \in Job |-> Idle]
  /\ loose = {}
  /\ contested = {}

WithRegistry(t) == t.bus \in Registry

\* The job goes on to the next of the bus's topics.
Ahead(t, x) == [pc |-> "scan", bus |-> t.bus, todo |-> t.todo \ {x}]

\* An exception: the next topic, or the end of a bus with a registry.
Raised(t, x) == IF WithRegistry(t) THEN Idle ELSE Ahead(t, x)

Goes(j, t) == turn' = [turn EXCEPT ![j] = t]

\* The jobs that have not found a schema of the name and have not yet made one.
Making(n) == {j \in Job : turn[j].pc = "post" /\ turn[j].item.name = n}
-----------------------------------------------------------------------------
\* A job starts with one of its buses; the topics or the registry's schemas are read.
Begin(j) ==
  /\ turn[j] = Idle
  /\ \E b \in BusesOfJob[j] : Goes(j, [pc |-> "scan", bus |-> b, todo |-> Items[b]])
  /\ UNCHANGED <<catalogVars, loose, contested>>

End(j) ==
  /\ turn[j].pc = "scan"
  /\ turn[j].todo = {}
  /\ Goes(j, Idle)
  /\ UNCHANGED <<catalogVars, loose, contested>>

\* The text in the database is read back: json.loads with messages, ast.literal_eval
\* with a registry.
Readable(t, d) == d.as \in IF WithRegistry(t) THEN {"json", "python"} ELSE {"json"}

\* Mutant: a schema without a definition does not count.
MutantAbsent(x) == ~\E s \in schemas : s.name = x.name /\ s.definition # Undiscovered

\* No schema of the name is found, not even one made for another bus.
Absent(x) == ~\E s \in schemas : s.name = x.name

\* The schema of a topic is looked up by name and compared with what was seen.
Look(j) ==
  /\ turn[j].pc = "scan"
  /\ \E x \in turn[j].todo : \E seen \in x.seen :
       LET t == turn[j]
           Busy(pc, i) == [pc |-> pc, bus |-> t.bus, todo |-> t.todo, item |-> x,
                           seen |-> seen, schema |-> i, topic |-> 0]
       IN
       \/ /\ Absent(x)
          /\ Goes(j, IF WithRegistry(t) THEN Idle ELSE Busy("post", 0))
          /\ contested' = IF ~WithRegistry(t) /\ Making(x.name) # {}
                          THEN contested \cup {x.name} ELSE contested
       \/ /\ ~Absent(x)
          /\ \E s \in First(x.name) :
               \/ /\ seen = NoMessage
                  /\ Goes(j, Ahead(t, x))
               \/ /\ seen # NoMessage /\ ~Readable(t, s.definition)
                  /\ Goes(j, Raised(t, x))
               \/ /\ seen # NoMessage /\ Readable(t, s.definition)
                  /\ Goes(j, IF s.definition.shape = seen.shape THEN Ahead(t, x)
                             ELSE Busy("update", s.id))
          /\ UNCHANGED contested
  /\ UNCHANGED <<catalogVars, loose>>

\* Mutant: json.dumps is left out.
MutantNewDefinition(seen) == IF seen = NoMessage THEN Undiscovered ELSE seen

\* What is written for the schema that was seen.
NewDefinition(seen) ==
  IF seen = NoMessage THEN Undiscovered ELSE [shape |-> seen.shape, as |-> "json"]

\* A definition that differs is replaced by the registry's; one that differs from the
\* message's is set to the empty string.
Update(j) ==
  LET t == turn[j] IN
  /\ t.pc = "update"
  /\ PutDefinition(t.schema, IF WithRegistry(t) THEN NewDefinition(t.seen) ELSE Undiscovered)
  /\ Goes(j, Ahead(t, t.item))
  /\ UNCHANGED <<deletion, loose, contested>>

\* The schema is made; the answer with its id may not arrive.
Post(j) ==
  LET t == turn[j] IN
  /\ t.pc = "post"
  /\ PostSchema(t.item.name, NewDefinition(t.seen))
  /\ \/ /\ Goes(j, [t EXCEPT !.pc = "topic", !.schema = nextSchema])
        /\ UNCHANGED loose
     \/ /\ Goes(j, Ahead(t, t.item))
        /\ loose' = loose \cup {nextSchema}
  /\ UNCHANGED <<deletion, contested>>

\* Mutant: a topic whose schema has no definition is left without an association.
MutantRegister(j) ==
  LET t == turn[j] IN
  /\ t.pc = "topic"
  /\ PutTopic(t.item.name)
  /\ Goes(j, IF t.seen = NoMessage THEN Ahead(t, t.item)
             ELSE [t EXCEPT !.pc = "link", !.topic = nextTopic])
  /\ UNCHANGED <<deletion, loose, contested>>

\* The topic is registered; the answer with its id may not arrive.
Register(j) ==
  LET t == turn[j] IN
  /\ t.pc = "topic"
  /\ PutTopic(t.item.name)
  /\ \/ /\ Goes(j, [t EXCEPT !.pc = "link", !.topic = nextTopic])
        /\ UNCHANGED loose
     \/ /\ Goes(j, Ahead(t, t.item))
        /\ loose' = loose \cup {t.schema}
  /\ UNCHANGED <<deletion, contested>>

\* Mutant: the ids are swapped in the payload.
MutantAssociate(j) ==
  LET t == turn[j] IN
  /\ t.pc = "link"
  /\ PostLink(t.topic, t.schema)
  /\ Goes(j, Ahead(t, t.item))
  /\ loose' = IF t.topic \in TopicIds THEN loose ELSE loose \cup {t.schema}
  /\ UNCHANGED <<deletion, contested>>

\* The association is made, unless a client has deleted a row under way.
Associate(j) ==
  LET t == turn[j] IN
  /\ t.pc = "link"
  /\ PostLink(t.schema, t.topic)
  /\ Goes(j, Ahead(t, t.item))
  /\ loose' = IF t.topic \in TopicIds THEN loose ELSE loose \cup {t.schema}
  /\ UNCHANGED <<deletion, contested>>

\* A call fails, an answer, message or definition cannot be read, or Kafka does not
\* answer.
Raise(j) ==
  LET t == turn[j] IN
  /\ t # Idle
  /\ \E x \in t.todo : /\ t.pc # "scan" => x = t.item
                      /\ Goes(j, Raised(t, x))
  /\ loose' = IF t.pc \in {"topic", "link"} THEN loose \cup {t.schema} ELSE loose
  /\ UNCHANGED <<catalogVars, contested>>

\* The plugin's process dies; its jobs are started anew.
Crash ==
  /\ turn # [j \in Job |-> Idle]
  /\ turn' = [j \in Job |-> Idle]
  /\ loose' = loose \cup {turn[j].schema : j \in {k \in Job : turn[k].pc \in {"topic", "link"}}}
  /\ UNCHANGED <<catalogVars, contested>>

JobStep(j) ==
  Begin(j) \/ End(j) \/ Look(j) \/ Update(j) \/ Post(j) \/ Register(j) \/ Associate(j)
-----------------------------------------------------------------------------
\* Clients make schemas and topics of their own.  (Definitions and associations are
\* the plugin's: their endpoints are kept out of the API's documentation.)
ClientStep ==
  /\ \/ \E n \in Name, d \in Definition :
          /\ PostSchema(n, d)
          /\ loose' = loose \cup {nextSchema}
          /\ contested' = contested \cup {n}
     \/ \E n \in Name :
          /\ PutTopic(n)
          /\ UNCHANGED <<loose, contested>>
  /\ UNCHANGED <<deletion, turn>>

Next ==
  \/ \E j \in Job : JobStep(j) \/ Raise(j)
  \/ Crash
  \/ ClientStep
  \/ \E w \in Worker : Delete(w) /\ UNCHANGED <<turn, loose, contested>>

Spec == Init /\ [][Next]_vars
-----------------------------------------------------------------------------
(* Properties.                                                             *)

\* Every variable has its type.
TypeOK ==
  /\ CatalogTypeOK
  /\ turn \in [Job -> Turn \cup Scan \cup {Idle}]
  /\ loose \in SUBSET Nat
  /\ contested \in SUBSET Name

\* An association always joins rows that exist, a topic and a schema of one name, the
\* name of a topic found on a bus without a registry, however jobs, clients and lost
\* answers interleave.
LinksAgree ==
  \A l \in links :
    \E t \in topics, s \in schemas, b \in Bus \ Registry :
      /\ t.id = l.topic /\ s.id = l.schema /\ t.name = s.name
      /\ \E x \in Items[b] : x.name = t.name

\* "Entry already exist for this topic-schema relation": a schema that is found, and
\* whose topic is therefore passed over, has its topic associated, is being
\* associated, or was left alone by a call that failed, a crash or a deletion, or
\* was made by a client.
FoundIsAssociated ==
  \A s \in schemas :
    \/ \E l \in links : l.schema = s.id
    \/ \E j \in Job : turn[j].pc \in {"topic", "link"} /\ turn[j].schema = s.id
    \/ s.id \in loose

\* "saving schema info table because no record existed": two schemas have one name
\* only when two jobs looked it up before either had made it, or a client made one.
OneSchemaPerName ==
  \A r, s \in schemas : r.name = s.name /\ r.id # s.id => r.name \in contested
=============================================================================
