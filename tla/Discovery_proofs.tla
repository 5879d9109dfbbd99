--------------------------- MODULE Discovery_proofs ---------------------------
(* Proofs about the catalogue and the discovery that fills it.             *)
EXTENDS Discovery, TLAPS

(***************************************************************************)
(* The calls to the catalogue keep the types of its tables.                *)
(***************************************************************************)

LEMMA PostSchemaTyped ==
  ASSUME CatalogTypeOK, NEW n \in Name, NEW d \in Definition,
         PostSchema(n, d), UNCHANGED deletion
  PROVE  CatalogTypeOK'
BY DEF CatalogTypeOK, PostSchema, Schema

LEMMA PutTopicTyped ==
  ASSUME CatalogTypeOK, NEW n \in Name, PutTopic(n), UNCHANGED deletion
  PROVE  CatalogTypeOK'
BY DEF CatalogTypeOK, PutTopic, Topic

LEMMA PutDefinitionTyped ==
  ASSUME CatalogTypeOK, NEW i \in Nat, NEW d \in Definition,
         PutDefinition(i, d), UNCHANGED deletion
  PROVE  CatalogTypeOK'
<1>1. \A s \in Schema : [s EXCEPT !.definition = d] \in Schema
  BY DEF Schema
<1>2. schemas' \in SUBSET Schema
  BY <1>1 DEF CatalogTypeOK, PutDefinition
<1> QED BY <1>2 DEF CatalogTypeOK, PutDefinition

LEMMA PostLinkTyped ==
  ASSUME CatalogTypeOK, NEW i \in Nat, NEW k \in Nat, PostLink(i, k), UNCHANGED deletion
  PROVE  CatalogTypeOK'
BY DEF CatalogTypeOK, PostLink, Link

LEMMA NamedTyped ==
  ASSUME CatalogTypeOK, NEW table \in {"schemas", "topics"}, NEW n \in Name
  PROVE  Named(table, n) \in SUBSET Nat
<1>1. CASE table = "schemas"
  BY <1>1 DEF CatalogTypeOK, Named, Schema
<1>2. CASE table = "topics"
  BY <1>2 DEF CatalogTypeOK, Named, Topic
<1> QED BY <1>1, <1>2

LEMMA DeleteTyped ==
  ASSUME CatalogTypeOK, NEW w \in Worker, Delete(w)
  PROVE  CatalogTypeOK'
<1> USE DEF CatalogTypeOK
<1>1. CASE StartDelete(w)
  <2>1. PICK table \in {"schemas", "topics"}, n \in Name :
          deletion' = [deletion EXCEPT ![w] = [table |-> table, todo |-> Named(table, n)]]
    BY <1>1 DEF StartDelete
  <2>2. [table |-> table, todo |-> Named(table, n)] \in Deletion
    BY NamedTyped DEF Deletion
  <2> QED BY <1>1, <2>1, <2>2 DEF StartDelete, tables
<1>2. CASE DeleteRow(w)
  <2>1. deletion[w] \in Deletion
    BY <1>2 DEF DeleteRow
  <2>2. PICK i \in deletion[w].todo :
          \/ deletion' = [deletion EXCEPT ![w] = NoDeletion]
          \/ deletion' = [deletion EXCEPT ![w] =
                            IF deletion[w].todo = {i} THEN NoDeletion
                            ELSE [deletion[w] EXCEPT !.todo = @ \ {i}]]
    BY <1>2 DEF DeleteRow
  <2>3. [deletion[w] EXCEPT !.todo = @ \ {i}] \in Deletion
    BY <2>1 DEF Deletion
  <2>4. deletion' \in [Worker -> Deletion \cup {NoDeletion}]
    BY <2>2, <2>3
  <2>5. /\ schemas' \subseteq schemas /\ topics' \subseteq topics /\ links' = links
        /\ nextSchema' = nextSchema /\ nextTopic' = nextTopic
    BY <1>2 DEF DeleteRow, tables
  <2> QED BY <2>4, <2>5
<1>3. CASE StopDelete(w)
  BY <1>3 DEF StopDelete, tables
<1> QED BY <1>1, <1>2, <1>3 DEF Delete

(***************************************************************************)
(* Rows and associations.                                                  *)
(***************************************************************************)

\* A delete takes no row away that an association refers to.
LEMMA DeleteSpares ==
  ASSUME NEW w \in Worker, Delete(w)
  PROVE  /\ schemas' \subseteq schemas /\ topics' \subseteq topics /\ links' = links
         /\ nextSchema' = nextSchema /\ nextTopic' = nextTopic
         /\ \A l \in links :
              /\ \A s \in schemas : s.id = l.schema => s \in schemas'
              /\ \A t \in topics : t.id = l.topic => t \in topics'
<1>1. CASE UNCHANGED tables
  BY <1>1 DEF tables
<1>2. CASE DeleteRow(w) /\ ~UNCHANGED tables
  <2>1. PICK i \in deletion[w].todo :
          /\ LinksOf(deletion[w].table, i) = {}
          /\ schemas' = IF deletion[w].table = "schemas"
                        THEN {s \in schemas : s.id # i} ELSE schemas
          /\ topics' = IF deletion[w].table = "topics"
                       THEN {t \in topics : t.id # i} ELSE topics
          /\ UNCHANGED <<links, nextSchema, nextTopic>>
    BY <1>2 DEF DeleteRow
  <2> QED BY <2>1 DEF LinksOf
<1> QED BY <1>1, <1>2 DEF Delete, StartDelete, StopDelete

LEMMA DefinitionKeepsRows ==
  ASSUME CatalogTypeOK, NEW i, NEW d, PutDefinition(i, d)
  PROVE  /\ \A s \in schemas : \E r \in schemas' : r.id = s.id /\ r.name = s.name
         /\ \A r \in schemas' : \E s \in schemas : r.id = s.id /\ r.name = s.name
<1> DEFINE new(s) == IF s.id = i THEN [s EXCEPT !.definition = d] ELSE s
<1>1. schemas' = {new(s) : s \in schemas}
  BY DEF PutDefinition
<1>2. \A s \in schemas : new(s).id = s.id /\ new(s).name = s.name
  BY DEF CatalogTypeOK, Schema
<1> QED BY <1>1, <1>2

(***************************************************************************)
(* Type correctness.                                                       *)
(***************************************************************************)

AnyTurn == Turn \cup Scan \cup {Idle}

LEMMA TurnKinds ==
  ASSUME NEW t \in AnyTurn
  PROVE  /\ t.pc = "scan" => t \in Scan
         /\ t.pc \in {"update", "post", "topic", "link"} => t \in Turn
         /\ t # Idle => t \in Turn \cup Scan
BY DEF AnyTurn, Turn, Scan, Idle

\* A job between topics, and one that has raised.
LEMMA AheadTyped ==
  ASSUME NEW t \in Turn \cup Scan, NEW x
  PROVE  Ahead(t, x) \in AnyTurn /\ Raised(t, x) \in AnyTurn
<1>1. t.bus \in Bus /\ t.todo \in SUBSET Item
  BY DEF Turn, Scan
<1>2. Ahead(t, x) \in Scan
  BY <1>1 DEF Ahead, Scan
<1> QED BY <1>2 DEF Raised, AnyTurn

\* What a job does when it goes on, and nobody else.
LEMMA GoesTyped ==
  ASSUME turn \in [Job -> AnyTurn], NEW j \in Job, NEW t \in AnyTurn, Goes(j, t)
  PROVE  /\ turn' \in [Job -> AnyTurn]
         /\ turn'[j] = t
         /\ \A k \in Job \ {j} : turn'[k] = turn[k]
BY DEF Goes

\* The ids that are added to loose.
LEMMA LooseTyped ==
  ASSUME TypeOK, NEW j \in Job, turn[j] \in Turn
  PROVE  loose \cup {turn[j].schema} \in SUBSET Nat
BY DEF TypeOK, Turn

LEMMA BeginTyped ==
  ASSUME NEW j \in Job, NEW b \in BusesOfJob[j]
  PROVE  /\ b \in Bus
         /\ [pc |-> "scan", bus |-> b, todo |-> Items[b]] \in Scan
<1>1. b \in Bus
  BY DiscoveryAssumption
<1>2. Items[b] \in SUBSET Item
  BY <1>1, DiscoveryAssumption
<1> QED BY <1>1, <1>2 DEF Scan

\* What Look makes of a topic.
Busied(t, x, seen, pc, i) ==
  [pc |-> pc, bus |-> t.bus, todo |-> t.todo, item |-> x,
   seen |-> seen, schema |-> i, topic |-> 0]

LEMMA BusiedTyped ==
  ASSUME NEW t \in Scan, NEW x \in t.todo, NEW seen \in x.seen,
         NEW pc \in {"update", "post"}, NEW i \in Nat
  PROVE  Busied(t, x, seen, pc, i) \in Turn
<1>1. t.bus \in Bus /\ t.todo \in SUBSET Item
  BY DEF Scan
<1>2. x \in Item
  BY <1>1
<1>3. seen \in Seen
  BY <1>2 DEF Item
<1> QED BY <1>1, <1>2, <1>3 DEF Busied, Turn

\* The outcomes of Look.
LEMMA LookCases ==
  ASSUME TypeOK, NEW j \in Job, Look(j)
  PROVE  /\ UNCHANGED <<catalogVars, loose>>
         /\ contested' \in SUBSET Name
         /\ turn[j] \in Scan
         /\ \E x \in turn[j].todo : \E seen \in x.seen :
              \/ Goes(j, Ahead(turn[j], x))
              \/ Goes(j, Idle)
              \/ /\ ~WithRegistry(turn[j])
                 /\ Goes(j, Busied(turn[j], x, seen, "post", 0))
              \/ \E i \in Nat : Goes(j, Busied(turn[j], x, seen, "update", i))
<1>1. turn[j] \in Scan
  BY TurnKinds DEF TypeOK, Look, AnyTurn
<1>2. UNCHANGED <<catalogVars, loose>>
  BY DEF Look
<1>3. \A x \in turn[j].todo : x.name \in Name
  BY <1>1 DEF Scan, Item
<1>4. contested' \in SUBSET Name
  BY <1>3 DEF Look, TypeOK
<1>5. \A n : \A s \in First(n) : s.id \in Nat
  BY DEF First, TypeOK, CatalogTypeOK, Schema
<1> QED BY <1>1, <1>2, <1>3, <1>4, <1>5 DEF Look, Absent, Busied, Raised

\* The definitions that jobs write.
LEMMA NewDefinitionTyped ==
  ASSUME NEW seen \in Seen
  PROVE  NewDefinition(seen) \in Definition /\ Undiscovered \in Definition
<1>1. CASE seen = NoMessage
  BY <1>1 DEF NewDefinition, Definition
<1>2. CASE \E s \in Shape : seen = [shape |-> s]
  <2>1. PICK s \in Shape : seen = [shape |-> s]
    BY <1>2
  <2>2. NewDefinition(seen) = [shape |-> s, as |-> "json"] \/ NewDefinition(seen) = Undiscovered
    BY <2>1 DEF NewDefinition
  <2> QED BY <2>2 DEF Definition, Written
<1> QED BY <1>1, <1>2 DEF Seen

LEMMA UpdateTyped ==
  ASSUME TypeOK, NEW j \in Job, Update(j)
  PROVE  TypeOK'
<1>1. turn[j] \in Turn
  BY TurnKinds DEF TypeOK, Update, AnyTurn
<1>2. Goes(j, Ahead(turn[j], turn[j].item)) /\ UNCHANGED <<deletion, loose, contested>>
  BY DEF Update
<1>3. turn' \in [Job -> AnyTurn]
  BY <1>1, <1>2, AheadTyped, GoesTyped DEF TypeOK, AnyTurn
<1>4. turn[j].schema \in Nat /\ turn[j].seen \in Seen
  BY <1>1 DEF Turn
<1>5. \E d \in Definition : PutDefinition(turn[j].schema, d)
  BY <1>4, NewDefinitionTyped DEF Update
<1>6. CatalogTypeOK'
  BY <1>2, <1>4, <1>5, PutDefinitionTyped DEF TypeOK
<1> QED BY <1>2, <1>3, <1>6 DEF TypeOK, AnyTurn

LEMMA PostTyped ==
  ASSUME TypeOK, NEW j \in Job, Post(j)
  PROVE  TypeOK'
<1>1. turn[j] \in Turn
  BY TurnKinds DEF TypeOK, Post, AnyTurn
<1>2. turn[j].item.name \in Name /\ turn[j].seen \in Seen
  BY <1>1 DEF Turn, Item
<1>3. CatalogTypeOK'
  BY <1>2, NewDefinitionTyped, PostSchemaTyped DEF Post, TypeOK
<1>4. nextSchema \in Nat
  BY DEF TypeOK, CatalogTypeOK
<1>5. [turn[j] EXCEPT !.pc = "topic", !.schema = nextSchema] \in AnyTurn
  BY <1>1, <1>4 DEF AnyTurn, Turn
<1>6. turn' \in [Job -> AnyTurn]
  BY <1>1, <1>5, AheadTyped, GoesTyped DEF TypeOK, AnyTurn, Post
<1>7. loose' \in SUBSET Nat /\ contested' \in SUBSET Name
  BY <1>4 DEF TypeOK, Post
<1> QED BY <1>3, <1>6, <1>7 DEF TypeOK, AnyTurn

LEMMA RegisterTyped ==
  ASSUME TypeOK, NEW j \in Job, Register(j)
  PROVE  TypeOK'
<1>1. turn[j] \in Turn
  BY TurnKinds DEF TypeOK, Register, AnyTurn
<1>2. turn[j].item.name \in Name
  BY <1>1 DEF Turn, Item
<1>3. CatalogTypeOK'
  BY <1>2, PutTopicTyped DEF Register, TypeOK
<1>4. nextTopic \in Nat
  BY DEF TypeOK, CatalogTypeOK
<1>5. [turn[j] EXCEPT !.pc = "link", !.topic = nextTopic] \in AnyTurn
  BY <1>1, <1>4 DEF AnyTurn, Turn
<1>6. turn' \in [Job -> AnyTurn]
  BY <1>1, <1>5, AheadTyped, GoesTyped DEF TypeOK, AnyTurn, Register
<1>7. loose' \in SUBSET Nat /\ contested' \in SUBSET Name
  BY <1>1, LooseTyped DEF TypeOK, Register
<1> QED BY <1>3, <1>6, <1>7 DEF TypeOK, AnyTurn

LEMMA AssociateTyped ==
  ASSUME TypeOK, NEW j \in Job, Associate(j)
  PROVE  TypeOK'
<1>1. turn[j] \in Turn
  BY TurnKinds DEF TypeOK, Associate, AnyTurn
<1>2. turn[j].schema \in Nat /\ turn[j].topic \in Nat
  BY <1>1 DEF Turn
<1>3. CatalogTypeOK'
  BY <1>2, PostLinkTyped DEF Associate, TypeOK
<1>4. turn' \in [Job -> AnyTurn]
  BY <1>1, AheadTyped, GoesTyped DEF TypeOK, AnyTurn, Associate
<1>5. loose' \in SUBSET Nat /\ contested' \in SUBSET Name
  BY <1>1, LooseTyped DEF TypeOK, Associate
<1> QED BY <1>3, <1>4, <1>5 DEF TypeOK, AnyTurn

LEMMA LookTyped ==
  ASSUME TypeOK, NEW j \in Job, Look(j)
  PROVE  TypeOK'
<1>1. turn[j] \in Scan
  BY LookCases
<1>2. \E t \in AnyTurn : Goes(j, t)
  <2>0. PICK x \in turn[j].todo :
          \E seen \in x.seen :
            \/ Goes(j, Ahead(turn[j], x))
            \/ Goes(j, Idle)
            \/ Goes(j, Busied(turn[j], x, seen, "post", 0))
            \/ \E i \in Nat : Goes(j, Busied(turn[j], x, seen, "update", i))
    BY LookCases
  <2>1. PICK seen \in x.seen :
          \/ Goes(j, Ahead(turn[j], x))
          \/ Goes(j, Idle)
          \/ Goes(j, Busied(turn[j], x, seen, "post", 0))
          \/ \E i \in Nat : Goes(j, Busied(turn[j], x, seen, "update", i))
    BY <2>0
  <2>2. CASE Goes(j, Ahead(turn[j], x)) \/ Goes(j, Idle)
    BY <1>1, <2>2, AheadTyped DEF AnyTurn
  <2>3. CASE Goes(j, Busied(turn[j], x, seen, "post", 0))
    BY <1>1, <2>3, BusiedTyped DEF AnyTurn
  <2>4. CASE \E i \in Nat : Goes(j, Busied(turn[j], x, seen, "update", i))
    BY <1>1, <2>4, BusiedTyped DEF AnyTurn
  <2> QED BY <2>1, <2>2, <2>3, <2>4
<1>3. turn' \in [Job -> AnyTurn]
  BY <1>2, GoesTyped DEF TypeOK, AnyTurn
<1> QED BY <1>3, LookCases DEF TypeOK, AnyTurn, catalogVars, tables, CatalogTypeOK

LEMMA RaiseTyped ==
  ASSUME TypeOK, NEW j \in Job, Raise(j)
  PROVE  TypeOK'
<1>1. turn[j] \in Turn \cup Scan
  BY TurnKinds DEF TypeOK, Raise, AnyTurn
<1>2. turn' \in [Job -> AnyTurn]
  BY <1>1, AheadTyped, GoesTyped DEF TypeOK, AnyTurn, Raise
<1>3. turn[j].pc \in {"topic", "link"} => turn[j] \in Turn
  BY <1>1 DEF Scan
<1>4. loose' \in SUBSET Nat
  BY <1>3, LooseTyped DEF TypeOK, Raise
<1> QED BY <1>2, <1>4 DEF Raise, TypeOK, AnyTurn, catalogVars, tables, CatalogTypeOK

LEMMA TypeStep == TypeOK /\ [Next]_vars => TypeOK'
<1> SUFFICES ASSUME TypeOK, [Next]_vars PROVE TypeOK'
  OBVIOUS
<1> USE DEF AnyTurn
<1>1. ASSUME NEW j \in Job, JobStep(j) PROVE TypeOK'
  <2>1. CASE Begin(j)
    BY <2>1, BeginTyped, GoesTyped DEF Begin, TypeOK, catalogVars, tables, CatalogTypeOK
  <2>2. CASE End(j)
    BY <2>2, GoesTyped DEF End, TypeOK, catalogVars, tables, CatalogTypeOK
  <2> QED BY <1>1, <2>1, <2>2, LookTyped, UpdateTyped, PostTyped, RegisterTyped,
             AssociateTyped DEF JobStep
<1>2. CASE Crash
  <2>1. turn' \in [Job -> AnyTurn]
    BY <1>2 DEF Crash
  <2>2. \A j \in Job : turn[j].pc \in {"topic", "link"} => turn[j].schema \in Nat
    BY TurnKinds DEF TypeOK, Turn
  <2> QED BY <1>2, <2>1, <2>2 DEF Crash, TypeOK, catalogVars, tables, CatalogTypeOK
<1>3. CASE ClientStep
  <2>1. CatalogTypeOK'
    BY <1>3, PostSchemaTyped, PutTopicTyped DEF ClientStep, TypeOK
  <2>2. nextSchema \in Nat
    BY DEF TypeOK, CatalogTypeOK
  <2> QED BY <1>3, <2>1, <2>2 DEF ClientStep, TypeOK
<1>4. ASSUME NEW w \in Worker, Delete(w), UNCHANGED <<turn, loose, contested>> PROVE TypeOK'
  BY <1>4, DeleteTyped DEF TypeOK
<1>5. CASE UNCHANGED vars
  BY <1>5 DEF vars, TypeOK, catalogVars, tables, CatalogTypeOK
<1> QED BY <1>1, <1>2, <1>3, <1>4, <1>5, RaiseTyped DEF Next

LEMMA TypeInit == Init => TypeOK
BY DEF Init, CatalogInit, TypeOK, CatalogTypeOK, AnyTurn

\* The catalogue, the jobs and the deletes stay type correct, for any number of buses,
\* names, jobs and workers.
THEOREM Typed == Spec => []TypeOK
BY TypeInit, TypeStep, PTL DEF Spec

(***************************************************************************)
(* The associations.  LinksAgree is not inductive: an association is made  *)
(* from ids that a job was given some calls ago.  The rows of these ids    *)
(* have the name of the job's topic, and go on to, because ids are never   *)
(* used again.                                                             *)
(***************************************************************************)

\* The ids given out.
Numbered ==
  /\ \A s \in schemas : s.id < nextSchema
  /\ \A t \in topics : t.id < nextTopic

\* What a job knows of the catalogue is true, as far as the rows are there.
Sound(t) ==
  /\ t \in Turn \cup Scan => t.todo \subseteq Items[t.bus]
  /\ t \in Turn /\ t.pc \in {"post", "topic", "link"} =>
       t.bus \in Bus \ Registry /\ t.item \in Items[t.bus]
  /\ t \in Turn /\ t.pc \in {"topic", "link"} =>
       /\ t.schema < nextSchema
       /\ \A s \in schemas : s.id = t.schema => s.name = t.item.name
  /\ t \in Turn /\ t.pc = "link" =>
       /\ t.topic < nextTopic
       /\ \A k \in topics : k.id = t.topic => k.name = t.item.name

LinksInv == TypeOK /\ Numbered /\ LinksAgree /\ \A j \in Job : Sound(turn[j])

\* What no step does to the rows: use an id again, or rename a row.
RowsKept ==
  /\ nextSchema <= nextSchema' /\ nextTopic <= nextTopic'
  /\ \A r \in schemas' : /\ r.id < nextSchema'
                         /\ r.id < nextSchema =>
                              \E s \in schemas : s.id = r.id /\ s.name = r.name
  /\ \A r \in topics' : /\ r.id < nextTopic'
                        /\ r.id < nextTopic =>
                             \E t \in topics : t.id = r.id /\ t.name = r.name

\* What no step does to the rows of an association: take them away, or rename them.
LinkedKept ==
  \A l \in links :
    /\ \A s \in schemas : s.id = l.schema => \E r \in schemas' : r.id = s.id /\ r.name = s.name
    /\ \A t \in topics : t.id = l.topic => \E r \in topics' : r.id = t.id /\ r.name = t.name

LEMMA PostSchemaKeeps ==
  ASSUME TypeOK, Numbered, NEW n \in Name, NEW d \in Definition, PostSchema(n, d)
  PROVE  RowsKept /\ LinkedKept /\ links' = links
<1>1. nextSchema \in Nat /\ nextTopic \in Nat /\ \A s \in schemas : s.id \in Nat
  BY DEF TypeOK, CatalogTypeOK, Schema
<1>2. /\ schemas' = schemas \cup {[id |-> nextSchema, name |-> n, definition |-> d]}
      /\ nextSchema' = nextSchema + 1 /\ UNCHANGED <<topics, links, nextTopic>>
  BY DEF PostSchema
<1>3. \A r \in schemas' : r \in schemas \/ r.id = nextSchema
  BY <1>2
<1> QED BY <1>1, <1>2, <1>3 DEF RowsKept, LinkedKept, Numbered

LEMMA PutTopicKeeps ==
  ASSUME TypeOK, Numbered, NEW n \in Name, PutTopic(n)
  PROVE  RowsKept /\ LinkedKept /\ links' = links
<1>1. nextSchema \in Nat /\ nextTopic \in Nat /\ \A t \in topics : t.id \in Nat
  BY DEF TypeOK, CatalogTypeOK, Topic
<1>2. /\ topics' = topics \cup {[id |-> nextTopic, name |-> n]}
      /\ nextTopic' = nextTopic + 1 /\ UNCHANGED <<schemas, links, nextSchema>>
  BY DEF PutTopic
<1>3. \A r \in topics' : r \in topics \/ r.id = nextTopic
  BY <1>2
<1> QED BY <1>1, <1>2, <1>3 DEF RowsKept, LinkedKept, Numbered

LEMMA SameRowsKeep ==
  ASSUME TypeOK, Numbered, UNCHANGED <<schemas, topics, nextSchema, nextTopic>>
  PROVE  RowsKept /\ LinkedKept
<1>1. nextSchema \in Nat /\ nextTopic \in Nat
  BY DEF TypeOK, CatalogTypeOK
<1> QED BY <1>1 DEF RowsKept, LinkedKept, Numbered

LEMMA PutDefinitionKeeps ==
  ASSUME TypeOK, Numbered, NEW i, NEW d, PutDefinition(i, d)
  PROVE  RowsKept /\ LinkedKept /\ links' = links
<1>1. nextSchema \in Nat /\ nextTopic \in Nat
  BY DEF TypeOK, CatalogTypeOK
<1>2. UNCHANGED <<topics, links, nextSchema, nextTopic>>
  BY DEF PutDefinition
<1>3. /\ \A s \in schemas : \E r \in schemas' : r.id = s.id /\ r.name = s.name
      /\ \A r \in schemas' : \E s \in schemas : r.id = s.id /\ r.name = s.name
  BY DefinitionKeepsRows DEF TypeOK
<1>4. \A r \in schemas' : r.id < nextSchema
  BY <1>3 DEF Numbered
<1> QED BY <1>1, <1>2, <1>3, <1>4 DEF RowsKept, LinkedKept, Numbered

LEMMA DeleteKeeps ==
  ASSUME TypeOK, Numbered, NEW w \in Worker, Delete(w)
  PROVE  RowsKept /\ LinkedKept /\ links' = links
<1>1. nextSchema \in Nat /\ nextTopic \in Nat
  BY DEF TypeOK, CatalogTypeOK
<1> QED BY <1>1, DeleteSpares DEF RowsKept, LinkedKept, Numbered

LEMMA PostLinkKeeps ==
  ASSUME TypeOK, Numbered, NEW i, NEW k, PostLink(i, k)
  PROVE  RowsKept /\ LinkedKept /\ links \subseteq links'
<1>1. UNCHANGED <<schemas, topics, nextSchema, nextTopic>>
  BY DEF PostLink
<1>2. links \subseteq links'
  BY DEF PostLink
<1> QED BY <1>1, <1>2, SameRowsKeep

\* What a job knows stays true under steps that keep the rows.
LEMMA SoundKept ==
  ASSUME TypeOK, TypeOK', RowsKept, NEW k \in Job, Sound(turn[k]), turn'[k] = turn[k]
  PROVE  Sound(turn[k])'
<1>1. /\ nextSchema \in Nat /\ nextTopic \in Nat /\ nextSchema' \in Nat /\ nextTopic' \in Nat
      /\ \A s \in schemas' : s.id \in Nat
      /\ \A t \in topics' : t.id \in Nat
  BY DEF TypeOK, CatalogTypeOK, Schema, Topic
<1>2. ASSUME turn[k] \in Turn, turn[k].pc \in {"topic", "link"}
      PROVE  /\ turn[k].schema < nextSchema'
             /\ \A s \in schemas' : s.id = turn[k].schema => s.name = turn[k].item.name
  <2> DEFINE i == turn[k].schema
             n == turn[k].item.name
  <2>1. i \in Nat /\ i < nextSchema /\ \A s \in schemas : s.id = i => s.name = n
    BY <1>2 DEF Sound, Turn
  <2> HIDE DEF i, n
  <2>2. i < nextSchema' /\ \A s \in schemas' : s.id = i => s.name = n
    BY <1>1, <2>1 DEF RowsKept
  <2> QED BY <2>2 DEF i, n
<1>3. ASSUME turn[k] \in Turn, turn[k].pc = "link"
      PROVE  /\ turn[k].topic < nextTopic'
             /\ \A t \in topics' : t.id = turn[k].topic => t.name = turn[k].item.name
  <2> DEFINE i == turn[k].topic
             n == turn[k].item.name
  <2>1. i \in Nat /\ i < nextTopic /\ \A t \in topics : t.id = i => t.name = n
    BY <1>3 DEF Sound, Turn
  <2> HIDE DEF i, n
  <2>2. i < nextTopic' /\ \A t \in topics' : t.id = i => t.name = n
    BY <1>1, <2>1 DEF RowsKept
  <2> QED BY <2>2 DEF i, n
<1> QED BY <1>2, <1>3 DEF Sound

LEMMA AgreeKept ==
  ASSUME LinksAgree, LinkedKept, links' = links
  PROVE  LinksAgree'
<1> SUFFICES ASSUME NEW l \in links
             PROVE  \E t \in topics', s \in schemas', b \in Bus \ Registry :
                      /\ t.id = l.topic /\ s.id = l.schema /\ t.name = s.name
                      /\ \E x \in Items[b] : x.name = t.name
  BY DEF LinksAgree
<1>1. PICK t \in topics, s \in schemas, b \in Bus \ Registry :
        /\ t.id = l.topic /\ s.id = l.schema /\ t.name = s.name
        /\ \E x \in Items[b] : x.name = t.name
  BY DEF LinksAgree
<1>2. PICK q \in topics' : q.id = t.id /\ q.name = t.name
  BY <1>1 DEF LinkedKept
<1>3. PICK r \in schemas' : r.id = s.id /\ r.name = s.name
  BY <1>1 DEF LinkedKept
<1> QED BY <1>1, <1>2, <1>3

LEMMA NumberedKept == RowsKept => Numbered'
BY DEF RowsKept, Numbered

\* Steps that keep the rows, make no association and leave all jobs but j alone.
LEMMA OthersKept ==
  ASSUME LinksInv, TypeOK', RowsKept, LinkedKept, links' = links, NEW j \in Job,
         \A k \in Job \ {j} : turn'[k] = turn[k],
         Sound(turn[j])'
  PROVE  LinksInv'
<1>1. \A k \in Job \ {j} : Sound(turn[k])'
  BY SoundKept DEF LinksInv
<1> QED BY <1>1, AgreeKept, NumberedKept DEF LinksInv

\* A job that goes on, raises or ends.
LEMMA MovesOn ==
  ASSUME LinksInv, TypeOK', RowsKept, LinkedKept, links' = links,
         NEW j \in Job, turn[j] # Idle, NEW x,
         Goes(j, Ahead(turn[j], x)) \/ Goes(j, Idle) \/ Goes(j, Raised(turn[j], x))
  PROVE  LinksInv'
<1>1. turn'[j] = Ahead(turn[j], x) \/ turn'[j] = Idle
  BY DEF Goes, Raised, LinksInv, TypeOK
<1>2. turn[j] \in Turn \cup Scan
  BY DEF LinksInv, TypeOK
<1>3. turn[j].todo \subseteq Items[turn[j].bus]
  BY <1>2 DEF LinksInv, Sound
<1>4. Sound(turn[j])'
  <2>1. CASE turn'[j] = Ahead(turn[j], x)
    <3>1. /\ turn'[j].pc = "scan" /\ turn'[j].bus = turn[j].bus
          /\ turn'[j].todo \subseteq turn[j].todo
      BY <2>1 DEF Ahead
    <3>2. turn'[j] \notin Turn
      BY <3>1 DEF Turn
    <3> QED BY <1>3, <3>1, <3>2 DEF Sound
  <2>2. CASE turn'[j] = Idle
    BY <2>2 DEF Sound, Turn, Scan, Idle
  <2> QED BY <1>1, <2>1, <2>2
<1>5. \A k \in Job \ {j} : turn'[k] = turn[k]
  BY DEF Goes, LinksInv, TypeOK
<1> QED BY <1>4, <1>5, OthersKept

LEMMA BeginLinks ==
  ASSUME LinksInv, TypeOK', RowsKept, LinkedKept, NEW j \in Job, Begin(j)
  PROVE  LinksInv'
<1>1. PICK b \in BusesOfJob[j] : Goes(j, [pc |-> "scan", bus |-> b, todo |-> Items[b]])
  BY DEF Begin
<1>2. /\ turn'[j] = [pc |-> "scan", bus |-> b, todo |-> Items[b]]
      /\ \A k \in Job \ {j} : turn'[k] = turn[k]
  BY <1>1 DEF Goes, LinksInv, TypeOK
<1>3. Sound(turn[j])'
  BY <1>2 DEF Sound, Turn
<1>4. links' = links
  BY DEF Begin, catalogVars, tables
<1> QED BY <1>2, <1>3, <1>4, OthersKept

LEMMA LookLinks ==
  ASSUME LinksInv, TypeOK', RowsKept, LinkedKept, NEW j \in Job, Look(j)
  PROVE  LinksInv'
<1>0. TypeOK /\ links' = links
  BY DEF LinksInv, Look, catalogVars, tables
<1>1. turn[j] \in Scan
  BY <1>0, LookCases
<1>2. PICK x \in turn[j].todo :
        \E seen \in x.seen :
          \/ Goes(j, Ahead(turn[j], x))
          \/ Goes(j, Idle)
          \/ ~WithRegistry(turn[j]) /\ Goes(j, Busied(turn[j], x, seen, "post", 0))
          \/ \E i \in Nat : Goes(j, Busied(turn[j], x, seen, "update", i))
  BY <1>0, LookCases
<1>3. CASE Goes(j, Ahead(turn[j], x)) \/ Goes(j, Idle)
  <2>1. turn[j] # Idle
    BY <1>1 DEF Scan, Idle
  <2> QED BY <1>0, <1>3, <2>1, MovesOn
<1>4. ASSUME NEW seen \in x.seen, NEW pc \in {"post", "update"}, NEW i \in Nat,
             Goes(j, Busied(turn[j], x, seen, pc, i)),
             pc = "post" => ~WithRegistry(turn[j])
      PROVE  LinksInv'
  <2>1. turn[j].bus \in Bus /\ turn[j].todo \subseteq Items[turn[j].bus]
    BY <1>1 DEF LinksInv, Sound, Scan
  <2>2. /\ turn'[j] = Busied(turn[j], x, seen, pc, i)
        /\ \A k \in Job \ {j} : turn'[k] = turn[k]
    BY <1>4 DEF Goes, LinksInv, TypeOK
  <2>3. /\ turn'[j].pc = pc /\ turn'[j].bus = turn[j].bus
        /\ turn'[j].todo = turn[j].todo /\ turn'[j].item = x
    BY <2>2 DEF Busied
  <2>4. pc = "post" => turn[j].bus \in Bus \ Registry
    BY <1>4, <2>1 DEF WithRegistry
  <2>5. Sound(turn[j])'
    BY <1>2, <2>1, <2>3, <2>4 DEF Sound
  <2> QED BY <1>0, <2>2, <2>5, OthersKept
<1> QED BY <1>2, <1>3, <1>4

LEMMA PostLinks ==
  ASSUME LinksInv, TypeOK', RowsKept, LinkedKept, NEW j \in Job, Post(j)
  PROVE  LinksInv'
<1>1. turn[j] \in Turn /\ turn[j].pc = "post" /\ links' = links
  BY TurnKinds DEF LinksInv, TypeOK, Post, AnyTurn, PostSchema
<1>2. CASE Goes(j, Ahead(turn[j], turn[j].item))
  BY <1>1, <1>2, MovesOn DEF Idle
<1>3. CASE Goes(j, [turn[j] EXCEPT !.pc = "topic", !.schema = nextSchema])
  <2>1. /\ turn'[j] = [turn[j] EXCEPT !.pc = "topic", !.schema = nextSchema]
        /\ \A k \in Job \ {j} : turn'[k] = turn[k]
    BY <1>3 DEF Goes, LinksInv, TypeOK
  <2>2. /\ turn'[j].pc = "topic" /\ turn'[j].bus = turn[j].bus
        /\ turn'[j].todo = turn[j].todo /\ turn'[j].item = turn[j].item
        /\ turn'[j].schema = nextSchema
    BY <1>1, <2>1 DEF Turn
  <2>3. /\ turn[j].todo \subseteq Items[turn[j].bus]
        /\ turn[j].bus \in Bus \ Registry /\ turn[j].item \in Items[turn[j].bus]
    BY <1>1 DEF LinksInv, Sound
  <2>4. nextSchema \in Nat /\ nextSchema' = nextSchema + 1
    BY DEF LinksInv, TypeOK, CatalogTypeOK, Post, PostSchema
  <2>5. \A s \in schemas' : s.id = nextSchema => s.name = turn[j].item.name
    BY <2>4 DEF LinksInv, Numbered, TypeOK, CatalogTypeOK, Schema, Post, PostSchema
  <2>6. Sound(turn[j])'
    BY <2>2, <2>3, <2>4, <2>5 DEF Sound
  <2> QED BY <1>1, <2>1, <2>6, OthersKept
<1> QED BY <1>2, <1>3 DEF Post

LEMMA RegisterLinks ==
  ASSUME LinksInv, TypeOK', RowsKept, LinkedKept, NEW j \in Job, Register(j)
  PROVE  LinksInv'
<1>1. turn[j] \in Turn /\ turn[j].pc = "topic" /\ links' = links /\ schemas' = schemas
      /\ nextSchema' = nextSchema
  BY TurnKinds DEF LinksInv, TypeOK, Register, AnyTurn, PutTopic
<1>2. CASE Goes(j, Ahead(turn[j], turn[j].item))
  BY <1>1, <1>2, MovesOn DEF Idle
<1>3. CASE Goes(j, [turn[j] EXCEPT !.pc = "link", !.topic = nextTopic])
  <2>1. /\ turn'[j] = [turn[j] EXCEPT !.pc = "link", !.topic = nextTopic]
        /\ \A k \in Job \ {j} : turn'[k] = turn[k]
    BY <1>3 DEF Goes, LinksInv, TypeOK
  <2>2. /\ turn'[j].pc = "link" /\ turn'[j].bus = turn[j].bus
        /\ turn'[j].todo = turn[j].todo /\ turn'[j].item = turn[j].item
        /\ turn'[j].schema = turn[j].schema /\ turn'[j].topic = nextTopic
    BY <1>1, <2>1 DEF Turn
  <2>3. /\ turn[j].todo \subseteq Items[turn[j].bus]
        /\ turn[j].bus \in Bus \ Registry /\ turn[j].item \in Items[turn[j].bus]
        /\ turn[j].schema < nextSchema
        /\ \A s \in schemas : s.id = turn[j].schema => s.name = turn[j].item.name
    BY <1>1 DEF LinksInv, Sound
  <2>4. nextTopic \in Nat /\ nextTopic' = nextTopic + 1
    BY DEF LinksInv, TypeOK, CatalogTypeOK, Register, PutTopic
  <2>5. \A t \in topics' : t.id = nextTopic => t.name = turn[j].item.name
    BY <2>4 DEF LinksInv, Numbered, TypeOK, CatalogTypeOK, Topic, Register, PutTopic
  <2>6. Sound(turn[j])'
    BY <1>1, <2>2, <2>3, <2>4, <2>5 DEF Sound
  <2> QED BY <1>1, <2>1, <2>6, OthersKept
<1> QED BY <1>2, <1>3 DEF Register

\* The one step that makes an association: the ids are those of rows with the name of
\* the job's topic.
LEMMA AssociateLinks ==
  ASSUME LinksInv, TypeOK', RowsKept, LinkedKept, NEW j \in Job, Associate(j)
  PROVE  LinksInv'
<1>1. turn[j] \in Turn /\ turn[j].pc = "link"
  BY TurnKinds DEF LinksInv, TypeOK, Associate, AnyTurn
<1>2. UNCHANGED <<schemas, topics, nextSchema, nextTopic>>
  BY DEF Associate, PostLink
<1>3. LinksAgree'
  <2> SUFFICES ASSUME NEW l \in links'
               PROVE  \E t \in topics, s \in schemas, b \in Bus \ Registry :
                        /\ t.id = l.topic /\ s.id = l.schema /\ t.name = s.name
                        /\ \E x \in Items[b] : x.name = t.name
    BY <1>2 DEF LinksAgree
  <2>1. CASE l \in links
    BY <2>1 DEF LinksInv, LinksAgree
  <2>2. CASE /\ turn[j].schema \in SchemaIds /\ turn[j].topic \in TopicIds
             /\ l = [schema |-> turn[j].schema, topic |-> turn[j].topic]
    <3>1. PICK s \in schemas : s.id = turn[j].schema
      BY <2>2 DEF SchemaIds
    <3>2. PICK t \in topics : t.id = turn[j].topic
      BY <2>2 DEF TopicIds
    <3>3. /\ s.name = turn[j].item.name /\ t.name = turn[j].item.name
          /\ turn[j].bus \in Bus \ Registry /\ turn[j].item \in Items[turn[j].bus]
      BY <1>1, <3>1, <3>2 DEF LinksInv, Sound
    <3> QED BY <2>2, <3>1, <3>2, <3>3
  <2> QED BY <2>1, <2>2 DEF Associate, PostLink
<1>4. turn'[j] = Ahead(turn[j], turn[j].item) /\ \A k \in Job \ {j} : turn'[k] = turn[k]
  BY DEF Associate, Goes, LinksInv, TypeOK
<1>5. \A k \in Job \ {j} : Sound(turn[k])'
  BY <1>4, SoundKept DEF LinksInv
<1>6. Sound(turn[j])'
  <2>1. /\ turn'[j].pc = "scan" /\ turn'[j].bus = turn[j].bus
        /\ turn'[j].todo \subseteq turn[j].todo
    BY <1>4 DEF Ahead
  <2>2. turn[j].todo \subseteq Items[turn[j].bus]
    BY <1>1 DEF LinksInv, Sound
  <2> QED BY <2>1, <2>2 DEF Sound, Turn
<1> QED BY <1>3, <1>5, <1>6, NumberedKept DEF LinksInv

\* Every step keeps the rows and takes no association away.
LEMMA NextKeeps ==
  ASSUME LinksInv, [Next]_vars
  PROVE  RowsKept /\ LinkedKept /\ links \subseteq links'
<1> USE DEF LinksInv
<1>1. CASE UNCHANGED catalogVars
  BY <1>1, SameRowsKeep DEF catalogVars, tables
<1>2. ASSUME NEW j \in Job, Update(j) PROVE RowsKept /\ LinkedKept /\ links \subseteq links'
  BY <1>2, PutDefinitionKeeps DEF Update
<1>3. ASSUME NEW j \in Job, Post(j) PROVE RowsKept /\ LinkedKept /\ links \subseteq links'
  <2>1. turn[j] \in Turn
    BY <1>3, TurnKinds DEF TypeOK, Post, AnyTurn
  <2>2. turn[j].item.name \in Name /\ NewDefinition(turn[j].seen) \in Definition
    BY <2>1, NewDefinitionTyped DEF Turn, Item
  <2> QED BY <1>3, <2>2, PostSchemaKeeps DEF Post
<1>4. ASSUME NEW j \in Job, Register(j) PROVE RowsKept /\ LinkedKept /\ links \subseteq links'
  <2>1. turn[j] \in Turn
    BY <1>4, TurnKinds DEF TypeOK, Register, AnyTurn
  <2>2. turn[j].item.name \in Name
    BY <2>1 DEF Turn, Item
  <2> QED BY <1>4, <2>2, PutTopicKeeps DEF Register
<1>5. ASSUME NEW j \in Job, Associate(j) PROVE RowsKept /\ LinkedKept /\ links \subseteq links'
  BY <1>5, PostLinkKeeps DEF Associate
<1>6. ASSUME NEW j \in Job, Begin(j) \/ End(j) \/ Look(j) \/ Raise(j)
      PROVE  UNCHANGED catalogVars
  BY <1>6 DEF Begin, End, Look, Raise
<1>7. CASE ClientStep
  BY <1>7, PostSchemaKeeps, PutTopicKeeps DEF ClientStep
<1>8. ASSUME NEW w \in Worker, Delete(w) PROVE RowsKept /\ LinkedKept /\ links \subseteq links'
  BY <1>8, DeleteKeeps
<1>9. Crash \/ UNCHANGED vars => UNCHANGED catalogVars
  BY DEF Crash, vars
<1> QED BY <1>1, <1>2, <1>3, <1>4, <1>5, <1>6, <1>7, <1>8, <1>9 DEF Next, JobStep

\* Steps that make no association and leave the jobs alone.
LEMMA JobsKept ==
  ASSUME LinksInv, TypeOK', RowsKept, LinkedKept, links' = links, turn' = turn
  PROVE  LinksInv'
<1>1. \A k \in Job : Sound(turn[k])'
  BY SoundKept DEF LinksInv
<1> QED BY <1>1, AgreeKept, NumberedKept DEF LinksInv

LEMMA LinksStep == LinksInv /\ [Next]_vars => LinksInv'
<1> SUFFICES ASSUME LinksInv, [Next]_vars PROVE LinksInv'
  OBVIOUS
<1>1. TypeOK' /\ RowsKept /\ LinkedKept
  BY TypeStep, NextKeeps DEF LinksInv
<1>2. ASSUME NEW j \in Job, End(j) \/ Update(j) \/ Raise(j) PROVE LinksInv'
  <2>1. links' = links /\ turn[j] # Idle
    BY <1>2 DEF End, Update, Raise, PutDefinition, catalogVars, tables, Idle
  <2>2. \E x : Goes(j, Ahead(turn[j], x)) \/ Goes(j, Idle) \/ Goes(j, Raised(turn[j], x))
    BY <1>2 DEF End, Update, Raise
  <2> QED BY <1>1, <2>1, <2>2, MovesOn
<1>3. ASSUME NEW j \in Job, JobStep(j) PROVE LinksInv'
  BY <1>1, <1>2, <1>3, BeginLinks, LookLinks, PostLinks, RegisterLinks, AssociateLinks
     DEF JobStep
<1>4. CASE Crash
  <2>1. turn' = [j \in Job |-> Idle] /\ links' = links
    BY <1>4 DEF Crash, catalogVars, tables
  <2>2. \A k \in Job : Sound(turn[k])'
    BY <2>1 DEF Sound, Turn, Scan, Idle
  <2> QED BY <1>1, <2>1, <2>2, AgreeKept, NumberedKept DEF LinksInv
<1>5. CASE ClientStep
  BY <1>1, <1>5, JobsKept DEF ClientStep, PostSchema, PutTopic
<1>6. ASSUME NEW w \in Worker, Delete(w) /\ UNCHANGED <<turn, loose, contested>>
      PROVE  LinksInv'
  BY <1>1, <1>6, JobsKept, DeleteSpares
<1>7. CASE UNCHANGED vars
  BY <1>1, <1>7, JobsKept DEF vars, catalogVars, tables
<1> QED BY <1>2, <1>3, <1>4, <1>5, <1>6, <1>7 DEF Next

LEMMA LinksInit == Init => LinksInv
<1> SUFFICES ASSUME Init PROVE LinksInv
  OBVIOUS
<1>1. Numbered /\ LinksAgree
  BY DEF Init, CatalogInit, Numbered, LinksAgree
<1>2. \A j \in Job : Sound(turn[j])
  BY DEF Init, Sound, Turn, Scan, Idle
<1> QED BY <1>1, <1>2, TypeInit DEF LinksInv

\* An association always joins an existing topic and an existing schema of the name of
\* a topic found on a bus without a registry.
THEOREM AssociationsAgree == Spec => []LinksAgree
<1>1. LinksInv => LinksAgree
  BY DEF LinksInv
<1> QED BY <1>1, LinksInit, LinksStep, PTL DEF Spec

(***************************************************************************)
(* The schemas that are passed over.  FoundIsAssociated is inductive as it *)
(* stands, given the types: a schema is followed from the answer of the    *)
(* call that made it to its association.                                   *)
(***************************************************************************)

\* A schema's topic is associated or being associated, or it was left alone.
Cared(i) ==
  \/ \E l \in links : l.schema = i
  \/ \E j \in Job : turn[j].pc \in {"topic", "link"} /\ turn[j].schema = i
  \/ i \in loose

\* The rows of a step that makes no schema.
NoneMade == \A r \in schemas' : \E s \in schemas : r.id = s.id /\ r.name = s.name

\* The schemas are cared for as long as no job forgets the one it holds.
LEMMA CaredKept ==
  ASSUME links \subseteq links', loose \subseteq loose', NEW i, Cared(i),
         \A j \in Job : turn[j].pc \in {"topic", "link"} /\ turn[j].schema = i =>
           \/ turn'[j].pc \in {"topic", "link"} /\ turn'[j].schema = i
           \/ i \in loose'
           \/ \E l \in links' : l.schema = i
  PROVE  Cared(i)'
BY DEF Cared

LEMMA FoundIsCared == FoundIsAssociated <=> \A s \in schemas : Cared(s.id)
BY DEF FoundIsAssociated, Cared

\* Steps that leave the schemas and the jobs that hold one alone.
LEMMA FoundKept ==
  ASSUME FoundIsAssociated, NoneMade, links \subseteq links', loose \subseteq loose',
         \A j \in Job : turn[j].pc \in {"topic", "link"} =>
           \/ turn'[j].pc \in {"topic", "link"} /\ turn'[j].schema = turn[j].schema
           \/ turn[j].schema \in loose'
           \/ \E l \in links' : l.schema = turn[j].schema
  PROVE  FoundIsAssociated'
<1> SUFFICES ASSUME NEW r \in schemas' PROVE Cared(r.id)'
  BY FoundIsCared DEF FoundIsAssociated, Cared
<1>1. PICK s \in schemas : r.id = s.id
  BY DEF NoneMade
<1>2. Cared(s.id)
  BY FoundIsCared
<1> QED BY <1>1, <1>2, CaredKept DEF Cared

LEMMA SameSchemas == schemas' = schemas => NoneMade
BY DEF NoneMade

\* Steps of a job that holds no schema.
LEMMA FoundElsewhere ==
  ASSUME TypeOK, FoundIsAssociated, NoneMade, links' = links, loose' = loose,
         NEW j \in Job, turn[j].pc \notin {"topic", "link"}, \E t : Goes(j, t)
  PROVE  FoundIsAssociated'
<1>1. \A k \in Job \ {j} : turn'[k] = turn[k]
  BY DEF Goes, TypeOK
<1> QED BY <1>1, FoundKept

LEMMA LookGoes ==
  ASSUME TypeOK, NEW j \in Job, Look(j)
  PROVE  \E t : Goes(j, t)
BY LookCases

LEMMA PostFound ==
  ASSUME TypeOK, FoundIsAssociated, NEW j \in Job, Post(j)
  PROVE  FoundIsAssociated'
<1>1. turn[j] \in Turn /\ turn[j].pc = "post"
  BY TurnKinds DEF TypeOK, Post, AnyTurn
<1>2. \A k \in Job \ {j} : turn'[k] = turn[k]
  BY DEF Post, Goes, TypeOK
<1>3. links' = links /\ loose \subseteq loose'
  BY DEF Post, PostSchema
<1>0. PICK i : i = nextSchema
  OBVIOUS
<1>4. Cared(i)'
  <2>1. CASE Goes(j, [turn[j] EXCEPT !.pc = "topic", !.schema = i])
    <3>1. turn'[j] = [turn[j] EXCEPT !.pc = "topic", !.schema = i]
      BY <2>1 DEF Goes, TypeOK
    <3>2. turn'[j].pc = "topic" /\ turn'[j].schema = i
      BY <1>1, <3>1 DEF Turn
    <3> QED BY <3>2 DEF Cared
  <2>2. CASE loose' = loose \cup {i}
    BY <2>2 DEF Cared
  <2> QED BY <1>0, <2>1, <2>2 DEF Post
<1>5. ASSUME NEW s \in schemas PROVE Cared(s.id)'
  <2>1. Cared(s.id)
    BY FoundIsCared
  <2> QED BY <1>1, <1>2, <1>3, <2>1, CaredKept
<1>6. \A r \in schemas' : r \in schemas \/ r.id = i
  BY <1>0 DEF Post, PostSchema
<1>7. \A r \in schemas' : Cared(r.id)'
  BY <1>4, <1>5, <1>6 DEF Cared
<1> QED BY <1>7 DEF FoundIsAssociated, Cared

LEMMA RegisterFound ==
  ASSUME TypeOK, FoundIsAssociated, NEW j \in Job, Register(j)
  PROVE  FoundIsAssociated'
<1>1. turn[j] \in Turn /\ turn[j].pc = "topic"
  BY TurnKinds DEF TypeOK, Register, AnyTurn
<1>2. \A k \in Job \ {j} : turn'[k] = turn[k]
  BY DEF Register, Goes, TypeOK
<1>3. links' = links /\ loose \subseteq loose' /\ NoneMade
  BY SameSchemas DEF Register, PutTopic
<1>4. \/ turn'[j].pc \in {"topic", "link"} /\ turn'[j].schema = turn[j].schema
      \/ turn[j].schema \in loose'
  <2>1. CASE Goes(j, [turn[j] EXCEPT !.pc = "link", !.topic = nextTopic])
    <3>1. turn'[j] = [turn[j] EXCEPT !.pc = "link", !.topic = nextTopic]
      BY <2>1 DEF Goes, TypeOK
    <3> QED BY <1>1, <3>1 DEF Turn
  <2>2. CASE loose' = loose \cup {turn[j].schema}
    BY <2>2
  <2> QED BY <2>1, <2>2 DEF Register
<1> QED BY <1>2, <1>3, <1>4, FoundKept

\* The schema that the job holds is in the association, unless its row or the topic's
\* is gone: without its row there is nothing to find, and without the topic's the
\* schema is left alone.
LEMMA AssociateFound ==
  ASSUME TypeOK, FoundIsAssociated, NEW j \in Job, Associate(j)
  PROVE  FoundIsAssociated'
<1>1. \A k \in Job \ {j} : turn'[k] = turn[k]
  BY DEF Associate, Goes, TypeOK
<1>2. schemas' = schemas /\ links \subseteq links' /\ loose \subseteq loose'
  BY DEF Associate, PostLink
<1>3. ASSUME NEW s \in schemas, s.id = turn[j].schema
      PROVE  s.id \in loose' \/ \E l \in links' : l.schema = s.id
  <2>1. s.id \in SchemaIds
    BY DEF SchemaIds
  <2>2. CASE turn[j].topic \in TopicIds
    <3>1. links' = links \cup {[schema |-> turn[j].schema, topic |-> turn[j].topic]}
      BY <1>3, <2>1, <2>2 DEF Associate, PostLink
    <3>2. /\ [schema |-> turn[j].schema, topic |-> turn[j].topic] \in links'
          /\ [schema |-> turn[j].schema, topic |-> turn[j].topic].schema = s.id
      BY <1>3, <3>1
    <3> QED BY <3>2
  <2>3. CASE turn[j].topic \notin TopicIds
    BY <1>3, <2>3 DEF Associate
  <2> QED BY <2>2, <2>3
<1>4. ASSUME NEW s \in schemas PROVE Cared(s.id)'
  <2>1. Cared(s.id)
    BY FoundIsCared
  <2> QED BY <1>1, <1>2, <1>3, <2>1, CaredKept
<1>5. \A s \in schemas' : Cared(s.id)'
  BY <1>2, <1>4
<1> QED BY <1>5 DEF FoundIsAssociated, Cared

LEMMA RaiseFound ==
  ASSUME TypeOK, FoundIsAssociated, NEW j \in Job, Raise(j)
  PROVE  FoundIsAssociated'
<1>1. \A k \in Job \ {j} : turn'[k] = turn[k]
  BY DEF Raise, Goes, TypeOK
<1>2. links' = links /\ NoneMade
  BY SameSchemas DEF Raise, catalogVars, tables
<1>3. loose \subseteq loose' /\ (turn[j].pc \in {"topic", "link"} => turn[j].schema \in loose')
  BY DEF Raise
<1> QED BY <1>1, <1>2, <1>3, FoundKept

LEMMA ClientFound ==
  ASSUME FoundIsAssociated, ClientStep
  PROVE  FoundIsAssociated'
<1>1. links' = links /\ turn' = turn /\ loose \subseteq loose'
  BY DEF ClientStep, PostSchema, PutTopic
<1>2. CASE NoneMade
  BY <1>1, <1>2, FoundKept
<1>3. CASE loose' = loose \cup {nextSchema} /\ \A r \in schemas' : r \in schemas \/ r.id = nextSchema
  <2>1. \A s \in schemas : Cared(s.id)
    BY FoundIsCared
  <2>2. \A r \in schemas' : Cared(r.id)'
    BY <1>1, <1>3, <2>1 DEF Cared
  <2> QED BY <2>2 DEF FoundIsAssociated, Cared
<1> QED BY <1>2, <1>3, SameSchemas DEF ClientStep, PostSchema, PutTopic

LEMMA NoneMadeByDelete == \A w \in Worker : Delete(w) => NoneMade
BY DeleteSpares DEF NoneMade

LEMMA NoneMadeByUpdate == \A j \in Job : TypeOK /\ Update(j) => NoneMade
BY DefinitionKeepsRows DEF NoneMade, Update, TypeOK

LEMMA FoundStep == TypeOK /\ FoundIsAssociated /\ [Next]_vars => FoundIsAssociated'
<1> SUFFICES ASSUME TypeOK, FoundIsAssociated, [Next]_vars PROVE FoundIsAssociated'
  OBVIOUS
<1>1. ASSUME NEW j \in Job, Begin(j) \/ End(j) \/ Look(j) PROVE FoundIsAssociated'
  <2>1. turn[j].pc \notin {"topic", "link"}
    BY <1>1 DEF Begin, End, Look, Idle
  <2>2. links' = links /\ loose' = loose /\ schemas' = schemas
    BY <1>1 DEF Begin, End, Look, catalogVars, tables
  <2>3. \E t : Goes(j, t)
    BY <1>1, LookGoes DEF Begin, End
  <2> QED BY <2>1, <2>2, <2>3, SameSchemas, FoundElsewhere
<1>2. ASSUME NEW j \in Job, Update(j) PROVE FoundIsAssociated'
  <2>1. turn[j].pc \notin {"topic", "link"} /\ links' = links /\ loose' = loose
    BY <1>2 DEF Update, PutDefinition
  <2>2. \E t : Goes(j, t)
    BY <1>2 DEF Update
  <2> QED BY <1>2, <2>1, <2>2, NoneMadeByUpdate, FoundElsewhere
<1>3. ASSUME NEW j \in Job, JobStep(j) \/ Raise(j) PROVE FoundIsAssociated'
  BY <1>1, <1>2, <1>3, PostFound, RegisterFound, AssociateFound, RaiseFound DEF JobStep
<1>4. CASE Crash
  <2>1. \A j \in Job : turn[j].pc \in {"topic", "link"} => turn[j].schema \in loose'
    BY <1>4 DEF Crash
  <2>2. links' = links /\ loose \subseteq loose' /\ schemas' = schemas
    BY <1>4 DEF Crash, catalogVars, tables
  <2> QED BY <2>1, <2>2, SameSchemas, FoundKept
<1>5. ASSUME NEW w \in Worker, Delete(w), UNCHANGED <<turn, loose, contested>>
      PROVE  FoundIsAssociated'
  BY <1>5, DeleteSpares, NoneMadeByDelete, FoundKept
<1>6. CASE UNCHANGED vars
  BY <1>6, SameSchemas, FoundKept DEF vars, catalogVars, tables
<1> QED BY <1>3, <1>4, <1>5, <1>6, ClientFound DEF Next

\* A schema that discovery finds and passes over is associated with its topic, is being
\* associated, or was left alone by a failed call, a crash, a deletion or a client, for
\* any number of jobs, buses, names and workers.
THEOREM NoneForgotten == Spec => []FoundIsAssociated
<1>1. Init => FoundIsAssociated
  BY DEF Init, CatalogInit, FoundIsAssociated
<1> QED BY <1>1, FoundStep, TypeInit, TypeStep, PTL DEF Spec

(***************************************************************************)
(* The names of schemas.  OneSchemaPerName is not inductive: a job that    *)
(* has not found a schema makes one some calls later.  In between, the     *)
(* name is contested as soon as another job makes it too, or a schema of   *)
(* the name is there.                                                      *)
(***************************************************************************)

\* Two jobs that make one name contest it.
RivalsContest ==
  \A j, k \in Job : /\ turn[j].pc = "post" /\ turn[k].pc = "post" /\ j # k
                    /\ turn[j].item.name = turn[k].item.name
                    => turn[j].item.name \in contested

\* A job contests the name it makes with the schemas that have it already.
LateContest ==
  \A j \in Job, s \in schemas :
    turn[j].pc = "post" /\ turn[j].item.name = s.name => s.name \in contested

ContestInv == RivalsContest /\ LateContest /\ OneSchemaPerName

\* Steps that make no schema, and after which no job makes one that did not before.
LEMMA ContestKept ==
  ASSUME ContestInv, NoneMade, contested \subseteq contested',
         \A j \in Job : turn'[j].pc = "post" => turn'[j] = turn[j]
  PROVE  ContestInv'
<1>1. RivalsContest'
  BY DEF ContestInv, RivalsContest
<1>2. LateContest'
  BY DEF ContestInv, LateContest, NoneMade
<1>3. OneSchemaPerName'
  BY DEF ContestInv, OneSchemaPerName, NoneMade
<1> QED BY <1>1, <1>2, <1>3 DEF ContestInv

\* Where Look leaves the job to make a schema, there is none of the name, and another
\* job that makes one contests it.
LEMMA LookContested ==
  ASSUME TypeOK, NEW j \in Job, Look(j)
  PROVE  /\ contested \subseteq contested'
         /\ turn'[j].pc = "post" =>
              /\ \A s \in schemas : s.name # turn'[j].item.name
              /\ Making(turn'[j].item.name) # {} => turn'[j].item.name \in contested'
<1>1. turn[j].pc = "scan"
  BY DEF Look
<1>2. \E x \in turn[j].todo : \E seen \in x.seen :
        \/ /\ Absent(x)
           /\ Goes(j, IF WithRegistry(turn[j]) THEN Idle
                      ELSE Busied(turn[j], x, seen, "post", 0))
           /\ contested' = IF ~WithRegistry(turn[j]) /\ Making(x.name) # {}
                           THEN contested \cup {x.name} ELSE contested
        \/ /\ UNCHANGED contested
           /\ \/ Goes(j, Ahead(turn[j], x))
              \/ Goes(j, Idle)
              \/ \E i : Goes(j, Busied(turn[j], x, seen, "update", i))
  BY DEF Look, Busied, Raised
<1>3. contested \subseteq contested'
  BY <1>2
<1>4. ASSUME turn'[j].pc = "post"
      PROVE  \E x \in turn[j].todo :
               /\ Absent(x)
               /\ Making(x.name) # {} => x.name \in contested'
               /\ turn'[j].item = x
  <2>1. \A t : Goes(j, t) => turn'[j] = t
    BY DEF Goes, TypeOK
  <2>2. \A t, x : Ahead(t, x).pc # "post"
    BY DEF Ahead
  <2>3. \A t, x, seen, i : Busied(t, x, seen, "update", i).pc # "post"
    BY DEF Busied
  <2>4. Idle.pc # "post"
    BY DEF Idle
  <2>5. \A t, x, seen : Busied(t, x, seen, "post", 0).item = x
    BY DEF Busied
  <2> QED BY <1>2, <1>4, <2>1, <2>2, <2>3, <2>4, <2>5
<1>5. ASSUME turn'[j].pc = "post"
      PROVE  /\ \A s \in schemas : s.name # turn'[j].item.name
             /\ Making(turn'[j].item.name) # {} => turn'[j].item.name \in contested'
  <2>1. PICK x : /\ Absent(x)
                 /\ Making(x.name) # {} => x.name \in contested'
                 /\ turn'[j].item = x
    BY <1>4, <1>5
  <2> QED BY <2>1 DEF Absent, Making
<1> QED BY <1>3, <1>5

LEMMA LookContest ==
  ASSUME TypeOK, ContestInv, NEW j \in Job, Look(j)
  PROVE  ContestInv'
<1>1. schemas' = schemas /\ turn[j].pc = "scan"
  BY DEF Look, catalogVars, tables
<1>2. \A k \in Job \ {j} : turn'[k] = turn[k]
  BY LookGoes DEF Goes, TypeOK
<1>3. contested \subseteq contested'
  BY LookContested
<1>4. CASE turn'[j].pc # "post"
  BY <1>1, <1>2, <1>3, <1>4, SameSchemas, ContestKept
<1>5. CASE turn'[j].pc = "post"
  <2> DEFINE n == turn'[j].item.name
  <2>1. /\ \A s \in schemas : s.name # n
        /\ Making(n) # {} => n \in contested'
    BY <1>5, LookContested
  <2>2. \A k \in Job \ {j} : turn[k].pc = "post" /\ turn[k].item.name = n => n \in contested'
    BY <2>1 DEF Making
  <2>3. RivalsContest'
    BY <1>2, <1>3, <2>2 DEF ContestInv, RivalsContest
  <2>4. LateContest'
    BY <1>1, <1>2, <1>3, <2>1 DEF ContestInv, LateContest
  <2>5. OneSchemaPerName'
    BY <1>1, <1>3 DEF ContestInv, OneSchemaPerName
  <2> QED BY <2>3, <2>4, <2>5 DEF ContestInv
<1> QED BY <1>4, <1>5

LEMMA PostContest ==
  ASSUME TypeOK, ContestInv, NEW j \in Job, Post(j)
  PROVE  ContestInv'
<1>1. turn[j] \in Turn /\ turn[j].pc = "post"
  BY TurnKinds DEF TypeOK, Post, AnyTurn
<1>2. \A k \in Job \ {j} : turn'[k] = turn[k]
  BY DEF Post, Goes, TypeOK
<1>3. turn'[j].pc # "post"
  <2>1. CASE Goes(j, [turn[j] EXCEPT !.pc = "topic", !.schema = nextSchema])
    <3>1. turn'[j] = [turn[j] EXCEPT !.pc = "topic", !.schema = nextSchema]
      BY <2>1 DEF Goes, TypeOK
    <3> QED BY <1>1, <3>1 DEF Turn
  <2>2. CASE Goes(j, Ahead(turn[j], turn[j].item))
    <3>1. turn'[j] = Ahead(turn[j], turn[j].item)
      BY <2>2 DEF Goes, TypeOK
    <3> QED BY <3>1 DEF Ahead
  <2> QED BY <2>1, <2>2 DEF Post
<1>4. contested' = contested
  BY DEF Post
<1> DEFINE n == turn[j].item.name
<1>5. \A r \in schemas' : r \in schemas \/ (r.id = nextSchema /\ r.name = n)
  BY DEF Post, PostSchema
<1>6. \A k \in Job \ {j} : turn[k].pc = "post" /\ turn[k].item.name = n => n \in contested
  BY <1>1 DEF ContestInv, RivalsContest
<1>7. \A s \in schemas : s.name = n => n \in contested
  BY <1>1 DEF ContestInv, LateContest
<1> HIDE DEF n
<1>8. RivalsContest'
  BY <1>2, <1>3, <1>4 DEF ContestInv, RivalsContest
<1>9. LateContest'
  BY <1>2, <1>3, <1>4, <1>5, <1>6 DEF ContestInv, LateContest
<1>10. OneSchemaPerName'
  BY <1>4, <1>5, <1>7 DEF ContestInv, OneSchemaPerName
<1> QED BY <1>8, <1>9, <1>10 DEF ContestInv

LEMMA ClientContest ==
  ASSUME ContestInv, ClientStep
  PROVE  ContestInv'
<1>1. turn' = turn /\ contested \subseteq contested'
  BY DEF ClientStep
<1>2. CASE NoneMade
  BY <1>1, <1>2, ContestKept
<1>3. ASSUME NEW n \in Name, contested' = contested \cup {n},
             \A r \in schemas' : r \in schemas \/ (r.id = nextSchema /\ r.name = n)
      PROVE  ContestInv'
  <2>1. RivalsContest'
    BY <1>1 DEF ContestInv, RivalsContest
  <2>2. LateContest'
    BY <1>1, <1>3 DEF ContestInv, LateContest
  <2>3. OneSchemaPerName'
    BY <1>3 DEF ContestInv, OneSchemaPerName
  <2> QED BY <2>1, <2>2, <2>3 DEF ContestInv
<1>4. \/ NoneMade
      \/ \E n \in Name : /\ contested' = contested \cup {n}
                         /\ \A r \in schemas' : r \in schemas \/ (r.id = nextSchema /\ r.name = n)
  BY SameSchemas DEF ClientStep, PostSchema, PutTopic
<1> QED BY <1>2, <1>3, <1>4

\* A job that goes on, raises or ends makes no schema.
LEMMA MovesOnContest ==
  ASSUME TypeOK, ContestInv, NoneMade, contested' = contested, NEW j \in Job, NEW x,
         Goes(j, Ahead(turn[j], x)) \/ Goes(j, Idle) \/ Goes(j, Raised(turn[j], x))
  PROVE  ContestInv'
<1>1. turn'[j].pc # "post" /\ \A k \in Job \ {j} : turn'[k] = turn[k]
  BY DEF Goes, Raised, Ahead, Idle, TypeOK
<1> QED BY <1>1, ContestKept

LEMMA ContestStep == TypeOK /\ ContestInv /\ [Next]_vars => ContestInv'
<1> SUFFICES ASSUME TypeOK, ContestInv, [Next]_vars PROVE ContestInv'
  OBVIOUS
<1>1. ASSUME NEW j \in Job, Begin(j) PROVE ContestInv'
  <2>1. turn'[j].pc # "post" /\ \A k \in Job \ {j} : turn'[k] = turn[k]
    BY <1>1 DEF Begin, Goes, TypeOK
  <2> QED BY <1>1, <2>1, SameSchemas, ContestKept DEF Begin, catalogVars, tables
<1>2. ASSUME NEW j \in Job, Register(j) PROVE ContestInv'
  <2>1. turn[j] \in Turn /\ turn[j].pc = "topic"
    BY <1>2, TurnKinds DEF TypeOK, Register, AnyTurn
  <2>2. turn'[j].pc # "post" /\ \A k \in Job \ {j} : turn'[k] = turn[k]
    <3>1. \/ turn'[j] = Ahead(turn[j], turn[j].item)
          \/ turn'[j] = [turn[j] EXCEPT !.pc = "link", !.topic = nextTopic]
      BY <1>2 DEF Register, Goes, TypeOK
    <3>2. \A k \in Job \ {j} : turn'[k] = turn[k]
      BY <1>2 DEF Register, Goes, TypeOK
    <3>3. CASE turn'[j] = [turn[j] EXCEPT !.pc = "link", !.topic = nextTopic]
      BY <2>1, <3>2, <3>3 DEF Turn
    <3>4. CASE turn'[j] = Ahead(turn[j], turn[j].item)
      BY <3>2, <3>4 DEF Ahead
    <3> QED BY <3>1, <3>3, <3>4
  <2> QED BY <1>2, <2>2, SameSchemas, ContestKept DEF Register, PutTopic
<1>3. ASSUME NEW j \in Job, End(j) \/ Update(j) \/ Associate(j) \/ Raise(j)
      PROVE  ContestInv'
  <2>1. \E x : Goes(j, Ahead(turn[j], x)) \/ Goes(j, Idle) \/ Goes(j, Raised(turn[j], x))
    BY <1>3 DEF End, Update, Associate, Raise
  <2>2. contested' = contested
    BY <1>3 DEF End, Update, Associate, Raise
  <2>3. NoneMade
    BY <1>3, NoneMadeByUpdate, SameSchemas
       DEF End, Associate, PostLink, Raise, catalogVars, tables
  <2> QED BY <2>1, <2>2, <2>3, MovesOnContest
<1>4. CASE Crash
  <2>1. schemas' = schemas /\ contested' = contested /\ \A j \in Job : turn'[j].pc # "post"
    BY <1>4 DEF Crash, catalogVars, tables, Idle
  <2> QED BY <2>1, SameSchemas, ContestKept
<1>5. ASSUME NEW w \in Worker, Delete(w), UNCHANGED <<turn, loose, contested>>
      PROVE  ContestInv'
  BY <1>5, NoneMadeByDelete, ContestKept
<1>6. CASE UNCHANGED vars
  BY <1>6, SameSchemas, ContestKept DEF vars, catalogVars, tables
<1> QED BY <1>1, <1>2, <1>3, <1>4, <1>5, <1>6, LookContest, PostContest, ClientContest
        DEF Next, JobStep

\* Two schemas have one name only if two jobs looked for it before either had made it,
\* or a client made one, for any number of jobs, buses, names and workers.
THEOREM NamesUncontested == Spec => []OneSchemaPerName
<1>1. Init => ContestInv
  BY DEF Init, CatalogInit, ContestInv, RivalsContest, LateContest, OneSchemaPerName, Idle
<1>2. ContestInv => OneSchemaPerName
  BY DEF ContestInv
<1> QED BY <1>1, <1>2, ContestStep, TypeInit, TypeStep, PTL DEF Spec
===============================================================================
