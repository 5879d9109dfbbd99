------------------------------- MODULE Publish -------------------------------
(***************************************************************************)
(* Publishing on a topic: Publishes_a_message (kafka_topics_service.py)    *)
(* and PublishMessage.create (publish_message_service.py), next to the     *)
(* requests that change the buses and their credentials.                   *)
(*                                                                         *)
(* A request reads the topic, the definition associated with it, the bus   *)
(* and its credentials in one transaction, hence in one step.  Then it     *)
(* queues the messages one by one; the producer sends them, and hears of   *)
(* them, in the background.  The producer of a request that has failed     *)
(* may still have messages on their way.                                   *)
(***************************************************************************)
EXTENDS Buses, AvroInfer

CONSTANTS
  Publisher,       \* the requests to publish
  Topic,           \* topics, as a request reads them: [host, definition]
  NoTopic,         \* a topic that does not exist
  Batch,           \* what clients publish: sequences of messages
  MaxMessages,     \* MAX_MESSAGES_TO_PUBLISH
  OAuth            \* OAUTHBEARER, the one mechanism publishing knows

\* No definition: the topic has no association, or its text is empty.
NoDefinition == [type |-> "empty"]

\* Any text that is not the bare name of a primitive type, a record's for instance:
\* fastavro.parse_schema looks it up as a name and does not find it.
SomeText == [type |-> "text"]

Definition == {NoDefinition, SomeText} \cup {[type |-> t] : t \in Primitive}

\* A message that is not base64, and one that is not JSON.
NotEncoded == [kind |-> "not base64"]
NotJson == [kind |-> "not JSON"]

Message == Json \cup {NotEncoded, NotJson}

ASSUME PublishAssumption ==
  /\ Topic \subseteq [host : Host, definition : Definition]
  /\ Batch \subseteq Seq(Message)
  /\ MaxMessages \in Nat

VARIABLES
  pub,      \* pub[r]: request r
  report,   \* report[r][i]: what the producer has heard of message i of r
  log       \* <<r, i>>: message i of r is in the topic's log

pubVars == <<pub, report, log>>
publishVars == <<registryVars, pubVars>>

NotReceived == [pc |-> "none"]

PublishInit ==
  /\ RegistryInit
  /\ pub = [r \in Publisher |-> NotReceived]
  /\ report = [r \in Publisher |-> <<>>]
  /\ log = {}
-----------------------------------------------------------------------------
(* Validation.                                                             *)

\* One message against the definition: parsing the message or the definition fails, or
\* the inferred schema is another one.
Check(m, definition) ==
  IF m = NotJson \/ definition = SomeText THEN "500"
  ELSE IF ToAvro(m) = NoSchema THEN "500"
  ELSE IF ToAvro(m) = definition THEN "valid" ELSE "400"

\* The first message that is not valid decides.
Verdict(b, definition) ==
  LET bad == {i \in DOMAIN b : Check(b[i], definition) # "valid"}
  IN IF bad = {} THEN "valid"
     ELSE IF \E i \in bad : Check(b[i], definition) = "400" /\ \A k \in bad : i <= k
     THEN "400" ELSE "500"

\* Mutant: any number of messages.
MutantValidation(t, b) ==
  IF t = NoTopic \/ (\E i \in DOMAIN b : b[i] = NotEncoded)
  THEN "400"
  ELSE IF t.definition = NoDefinition THEN "valid" ELSE Verdict(b, t.definition)

\* All messages must be encoded, and all checked when there is a definition, before
\* the first is produced.
Validation(t, b) ==
  IF t = NoTopic \/ Len(b) > MaxMessages \/ (\E i \in DOMAIN b : b[i] = NotEncoded)
  THEN "400"
  ELSE IF t.definition = NoDefinition THEN "valid" ELSE Verdict(b, t.definition)

\* The first bus row of a host: nothing keeps a host from having several.
FirstBus(host) ==
  {b \in buses : b.host = host /\ \A q \in buses : q.host = host => b.id <= q.id}

\* Mutant: the credentials of any auth_type row.
MutantCredentialsOf(host) ==
  {i.credentials : i \in {k \in infos : \E a \in auths : k \in InfoOf(a)}}

\* The credentials of the first auth_type row of OAUTHBEARER and a bus.
CredentialsOf(host) ==
  {i.credentials : i \in {k \in infos : \E a \in FirstAuth(OAuth, host) : k \in InfoOf(a)}}

\* The configuration of the producer; none when the bus or what it needs is missing.
\* Mechanisms other than OAUTHBEARER are taken for no authentication.
Confs(t) ==
  {[host |-> b.host, port |-> b.port, credentials |-> c] :
     b \in {q \in FirstBus(t.host) : q.auth = OAuth}, c \in CredentialsOf(t.host)}
  \cup {[host |-> b.host, port |-> b.port, credentials |-> None] :
          b \in {q \in FirstBus(t.host) : q.auth # OAuth}}
-----------------------------------------------------------------------------
(* The handler.                                                            *)

\* The request is answered without producing.
Refuse(r) ==
  /\ pub[r] = NotReceived
  /\ \E t \in Topic \cup {NoTopic}, b \in Batch :
       LET v == Validation(t, b) IN
       /\ v = "valid" => Confs(t) = {}
       /\ pub' = [pub EXCEPT ![r] =
            [pc |-> "answered", topic |-> t, batch |-> b, conf |-> {},
             answer |-> IF v = "400" THEN v ELSE "500"]]
  /\ UNCHANGED <<registryVars, report, log>>

\* Mutant: the messages are checked one at a time, each before it is produced.
MutantStart(r) ==
  /\ pub[r] = NotReceived
  /\ \E t \in Topic, b \in Batch : \E c \in Confs(t) :
       /\ Validation(t, <<b[1]>>) = "valid"
       /\ pub' = [pub EXCEPT ![r] =
            [pc |-> "producing", topic |-> t, batch |-> b, conf |-> {c}, answer |-> ""]]
  /\ UNCHANGED <<registryVars, report, log>>

Start(r) ==
  /\ pub[r] = NotReceived
  /\ \E t \in Topic, b \in Batch : \E c \in Confs(t) :
       /\ Validation(t, b) = "valid"
       /\ pub' = [pub EXCEPT ![r] =
            [pc |-> "producing", topic |-> t, batch |-> b, conf |-> {c}, answer |-> ""]]
  /\ UNCHANGED <<registryVars, report, log>>

Produce(r) ==
  /\ pub[r].pc = "producing"
  /\ Len(report[r]) < Len(pub[r].batch)
  /\ report' = [report EXCEPT ![r] = Append(@, "none")]
  /\ UNCHANGED <<registryVars, pub, log>>

\* The broker appends a message that has been queued: perhaps after the producer has
\* given up on it, or after the request has failed.
Write(r, i) ==
  /\ i \in DOMAIN report[r]
  /\ log' = log \cup {<<r, i>>}
  /\ UNCHANGED <<registryVars, pub, report>>

\* The producer hears of a message, or gives up on it.
Report(r, i) ==
  /\ pub[r].pc = "producing"
  /\ i \in DOMAIN report[r] /\ report[r][i] = "none"
  /\ \/ <<r, i>> \in log /\ report' = [report EXCEPT ![r][i] = "written"]
     \/ report' = [report EXCEPT ![r][i] = "failed"]
  /\ UNCHANGED <<registryVars, pub, log>>

Answer(r, code) ==
  /\ pub[r].pc = "producing"
  /\ pub' = [pub EXCEPT ![r].pc = "answered", ![r].answer = code]
  /\ UNCHANGED <<registryVars, report, log>>

\* The producer's queue is empty: there has been word of every message.
Flushed(r) ==
  /\ Len(report[r]) = Len(pub[r].batch)
  /\ \A i \in DOMAIN report[r] : report[r][i] # "none"

Succeed(r) == pub[r].pc = "producing" /\ Flushed(r) /\ Answer(r, "200")

\* The queue is full, a call raises, or the flush takes more than ten seconds.
Error(r) == pub[r].pc = "producing" /\ ~Flushed(r) /\ Answer(r, "500")

PublishStep(r) ==
  \/ Refuse(r) \/ Start(r) \/ Produce(r) \/ Succeed(r) \/ Error(r)
  \/ \E i \in DOMAIN report[r] : Write(r, i) \/ Report(r, i)

PublishNext ==
  \/ \E r \in Publisher : PublishStep(r)
  \/ RegistryNext /\ UNCHANGED pubVars

PublishSpec == PublishInit /\ [][PublishNext]_publishVars
-----------------------------------------------------------------------------
(* Properties.                                                             *)

\* The configuration of a producer, and a request that has been received.
Conf == [host : Host, port : Port, credentials : Credentials \cup {None}]

Request == [pc : {"producing", "answered"}, topic : Topic \cup {NoTopic}, batch : Batch,
            conf : SUBSET Conf, answer : {"", "200", "400", "500"}]

\* Every variable of this module has its type.
PublishTypeOK ==
  /\ pub \in [Publisher -> Request \cup {NotReceived}]
  /\ report \in [Publisher -> Seq({"none", "written", "failed"})]
  /\ log \subseteq Publisher \X (1 .. MaxMessages)

\* PublishMessage.create validates all messages before it produces the first: when one
\* message is in the log, every message of its batch is an instance of the topic's
\* definition, whatever requests fail half-way.
BatchConforms ==
  \A e \in log :
    LET p == pub[e[1]] IN
    p.topic.definition # NoDefinition =>
      \A i \in DOMAIN p.batch : /\ p.batch[i] \in Json
                                 /\ IsInstance(p.batch[i], p.topic.definition.type)

\* A producer is configured with credentials that were given for the very bus of its
\* topic, unless an update has moved an auth_type row from or to that bus.
PublishesWithOwnCredentials ==
  \A r \in Publisher :
    pub[r] # NotReceived /\ pub[r].conf # {} =>
      \A c \in pub[r].conf :
        /\ c.host = pub[r].topic.host
        /\ c.credentials # None /\ c.host \notin moved => <<c.host, c.credentials>> \in given
=============================================================================
