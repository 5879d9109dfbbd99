------------------------------- MODULE Catalog -------------------------------
(***************************************************************************)
(* The catalogue of schema_info_service.py and kafka_topics_service.py:    *)
(* the tables schemas_info, fed_kafka_topics and topics_schemas_relation.  *)
(*                                                                         *)
(* The creates and updates commit once and are operators here, for clients *)
(* and for the discovery plugin alike.  The deletes read the rows of a     *)
(* name and then commit row by row, while other workers go on.  InnoDB     *)
(* checks the foreign keys of topics_schemas_relation.                     *)
(*                                                                         *)
(* A topic row is its name: the columns the patch endpoint changes (bus,   *)
(* retention, labels) take no part in any decision.                        *)
(***************************************************************************)
EXTENDS Naturals

CONSTANTS
  Worker,     \* server processes that take deletes (others serve the other calls)
  Name,       \* names of topics and of schemas
  Shape,      \* Avro schemas
  MaxRows     \* bound on the rows ever inserted into a table

ASSUME CatalogAssumption == MaxRows \in Nat

VARIABLES
  schemas,     \* table schemas_info
  topics,      \* table fed_kafka_topics
  links,       \* table topics_schemas_relation
  nextSchema,  \* AUTO_INCREMENT of schemas_info
  nextTopic,   \* AUTO_INCREMENT of fed_kafka_topics
  deletion     \* deletion[w]: the delete request worker w is in the middle of

tables == <<schemas, topics, links, nextSchema, nextTopic>>

catalogVars == <<tables, deletion>>

\* A definition is an Avro schema as JSON text or as the text of a Python
\* dictionary, or the empty string.
Written == [shape : Shape, as : {"json", "python"}]

Undiscovered == [as |-> "empty"]

Definition == Written \cup {Undiscovered}

Schema == [id : Nat, name : Name, definition : Definition]

Topic == [id : Nat, name : Name]

Link == [schema : Nat, topic : Nat]

Deletion == [table : {"schemas", "topics"}, todo : SUBSET Nat]

NoDeletion == [todo |-> {}]

CatalogInit ==
  /\ schemas = {} /\ topics = {} /\ links = {}
  /\ nextSchema = 1 /\ nextTopic = 1
  /\ deletion = [w \in Worker |-> NoDeletion]
-----------------------------------------------------------------------------
(* The calls that commit once.                                             *)

SchemaIds == {s.id : s \in schemas}
TopicIds == {t.id : t \in topics}

\* Creates_a_schema: the name need not be new.
PostSchema(n, d) ==
  /\ nextSchema <= MaxRows
  /\ schemas' = schemas \cup {[id |-> nextSchema, name |-> n, definition |-> d]}
  /\ nextSchema' = nextSchema + 1
  /\ UNCHANGED <<topics, links, nextTopic>>

\* Registers_a_topic_under_TINAA_pubsub (PUT) for a bus that is registered.
PutTopic(n) ==
  /\ nextTopic <= MaxRows
  /\ topics' = topics \cup {[id |-> nextTopic, name |-> n]}
  /\ nextTopic' = nextTopic + 1
  /\ UNCHANGED <<schemas, links, nextSchema>>

\* update_new_schema changes the row in place; a row that is gone makes the handler
\* answer with null.
PutDefinition(i, d) ==
  /\ schemas' = {IF s.id = i THEN [s EXCEPT !.definition = d] ELSE s : s \in schemas}
  /\ UNCHANGED <<topics, links, nextSchema, nextTopic>>

\* create_schema_topic_association: the foreign keys refuse rows that are gone, and
\* then the handler answers with null.
PostLink(i, k) ==
  /\ links' = IF i \in SchemaIds /\ k \in TopicIds
              THEN links \cup {[schema |-> i, topic |-> k]}
              ELSE links
  /\ UNCHANGED <<schemas, topics, nextSchema, nextTopic>>

\* Read_a_schema answers with the first row of the name: none or one.
First(n) == {s \in schemas : /\ s.name = n
                             /\ \A r \in schemas : r.name = n => s.id <= r.id}
-----------------------------------------------------------------------------
(* The deletes.                                                            *)

\* The ids in a table of the rows of a name.
Named(table, n) ==
  {r.id : r \in {q \in IF table = "schemas" THEN schemas ELSE topics : q.name = n}}

StartDelete(w) ==
  /\ deletion[w] = NoDeletion
  /\ \E table \in {"schemas", "topics"}, n \in Name :
       /\ Named(table, n) # {}
       /\ deletion' = [deletion EXCEPT ![w] = [table |-> table, todo |-> Named(table, n)]]
  /\ UNCHANGED tables

\* What refers to a row.
LinksOf(table, i) ==
  {l \in links : i = IF table = "schemas" THEN l.schema ELSE l.topic}

\* The next row.  Before the row and its association, the handler deletes the row at
\* the association's other end, which the association still refers to: the foreign
\* key stops the request, and nothing of this row is deleted.
DeleteRow(w) ==
  LET d == deletion[w] IN
  /\ d # NoDeletion
  /\ \E i \in d.todo :
       /\ \A k \in d.todo : i <= k
       /\ \/ /\ LinksOf(d.table, i) # {}
             /\ deletion' = [deletion EXCEPT ![w] = NoDeletion]
             /\ UNCHANGED tables
          \/ /\ LinksOf(d.table, i) = {}
             /\ deletion' = [deletion EXCEPT ![w] = IF d.todo = {i} THEN NoDeletion
                                                    ELSE [d EXCEPT !.todo = @ \ {i}]]
             /\ schemas' = IF d.table = "schemas" THEN {s \in schemas : s.id # i}
                                                  ELSE schemas
             /\ topics' = IF d.table = "topics" THEN {t \in topics : t.id # i}
                                                ELSE topics
             /\ UNCHANGED <<links, nextSchema, nextTopic>>

\* The worker dies, or a row that is gone raises: the rows deleted stay deleted.
StopDelete(w) ==
  /\ deletion[w] # NoDeletion
  /\ deletion' = [deletion EXCEPT ![w] = NoDeletion]
  /\ UNCHANGED tables

Delete(w) == StartDelete(w) \/ DeleteRow(w) \/ StopDelete(w)
-----------------------------------------------------------------------------
\* Every variable has its type.
CatalogTypeOK ==
  /\ schemas \in SUBSET Schema
  /\ topics \in SUBSET Topic
  /\ links \in SUBSET Link
  /\ nextSchema \in Nat
  /\ nextTopic \in Nat
  /\ deletion \in [Worker -> Deletion \cup {NoDeletion}]
=============================================================================
