---------------------------- MODULE Subscriptions ----------------------------
(***************************************************************************)
(* The subscription endpoints (subscription_service.py) and the call the   *)
(* pull and acknowledge endpoints make to one of them                      *)
(* (get_subscription_detail of pull_subscription_service.py).              *)
(*                                                                         *)
(* PUT, PATCH, GET and DELETE run in threads and read the table before     *)
(* they commit.  The pull and acknowledge endpoints are coroutines that    *)
(* call GET synchronously, without a timeout: each holds the event loop of *)
(* its process until another process of the service has answered.          *)
(***************************************************************************)
EXTENDS Naturals, FiniteSets

CONSTANTS
  Thread,       \* threads that run the handlers of PUT, PATCH and DELETE
  Process,      \* worker processes, each with one event loop
  Client,       \* clients that pull or acknowledge, one request at a time
  Name,         \* names of subscriptions
  Config,       \* what PUT and PATCH ask for: [topic, policy]
  Stored,       \* the rows of the table when the service starts
  NoRow,        \* no subscription of that name
  MaxRows,      \* bound on the rows ever inserted
  MaxRequests   \* bound on the PUT, PATCH and DELETE requests

Topic == {c.topic : c \in Config}
Policy == {c.policy : c \in Config}

Row == [id : Nat, name : Name, topic : Topic, policy : Policy]

ConfigOf(r) == [topic |-> r.topic, policy |-> r.policy]

ASSUME SubscriptionsAssumption ==
  /\ Config \subseteq [topic : Topic, policy : Policy]
  /\ Stored \subseteq Row /\ IsFiniteSet(Stored)
  /\ \A r, q \in Stored : r.id = q.id \/ r.name = q.name => r = q
  /\ {r.id : r \in Stored} = 1 .. Cardinality(Stored)
  /\ \A r \in Stored : ConfigOf(r) \in Config
  /\ MaxRows \in Nat /\ MaxRequests \in Nat

VARIABLES
  subs,       \* table subscriptions
  nextId,     \* its AUTO_INCREMENT counter
  task,       \* task[w]: the request thread w is in the middle of
  received,   \* PUT, PATCH and DELETE requests received so far
  pull,       \* pull[c]: the pull or acknowledgement of client c
  \* what an observer knows
  asked,      \* <<name, configuration>> of the PUT and PATCH requests
  raced,      \* names two PUTs of which overlapped
  overlapped  \* rows a PATCH wrote while another had loaded them

tableVars == <<subs, nextId, task, received, asked, raced, overlapped>>
subVars == <<tableVars, pull>>

Idle == [pc |-> "idle"]
Sent == [pc |-> "sent"]

Task == {Idle}
  \cup [pc : {"insert"}, name : Name, config : Config]
  \cup [pc : {"update"}, row : Row, config : Config]
  \cup [pc : {"delete"}, row : Row]

\* The handler runs at one process, the GET handler it calls at another.  Pulls and
\* acknowledgements do the same until GET has answered.  The name that the client gave
\* matters from the answer of GET on, and is chosen there.
Pull == {Idle, Sent}
  \cup [pc : {"accepted", "calling"}, at : Process]
  \cup [pc : {"called"}, at : Process, get : Process]
  \cup [pc : {"pulling"}, name : Name, at : Process, row : Row \cup {NoRow}]

SubsInit ==
  /\ subs = Stored
  /\ nextId = Cardinality(Stored) + 1
  /\ task = [w \in Thread |-> Idle]
  /\ received = 0
  /\ pull = [c \in Client |-> Idle]
  /\ asked = {<<r.name, ConfigOf(r)>> : r \in Stored}
  /\ raced = {} /\ overlapped = {}
-----------------------------------------------------------------------------
(* PUT, PATCH and DELETE.                                                  *)

\* Of some rows, the first.
First(rows) == {r \in rows : \A q \in rows : r.id <= q.id}

Named(n) == {r \in subs : r.name = n}
OnTopic(t) == {r \in subs : r.topic = t}

Receive(w, t) ==
  /\ task[w] = Idle
  /\ received < MaxRequests
  /\ received' = received + 1
  /\ task' = [task EXCEPT ![w] = t]

Inserting(n) == {w \in Thread : task[w].pc = "insert" /\ task[w].name = n}

\* Mutant: any row of the topic lets a new name in.
MutantCheckNew(w) ==
  /\ \E n \in Name, c \in Config :
       /\ Named(n) = {} \/ OnTopic(c.topic) # {}
       /\ Receive(w, [pc |-> "insert", name |-> n, config |-> c])
       /\ asked' = asked \cup {<<n, c>>}
       /\ raced' = IF Inserting(n) = {} THEN raced ELSE raced \cup {n}
  /\ UNCHANGED <<subs, nextId, pull, overlapped>>

\* A PUT goes on when no row has the name and the first row of the topic, if any, is
\* configured differently.
CheckNew(w) ==
  /\ \E n \in Name, c \in Config :
       /\ Named(n) = {}
       /\ \A r \in First(OnTopic(c.topic)) : r.policy # c.policy
       /\ Receive(w, [pc |-> "insert", name |-> n, config |-> c])
       /\ asked' = asked \cup {<<n, c>>}
       /\ raced' = IF Inserting(n) = {} THEN raced ELSE raced \cup {n}
  /\ UNCHANGED <<subs, nextId, pull, overlapped>>

Insert(w) ==
  LET t == task[w] IN
  /\ t.pc = "insert"
  /\ nextId <= MaxRows
  /\ subs' = subs \cup {[id |-> nextId, name |-> t.name,
                         topic |-> t.config.topic, policy |-> t.config.policy]}
  /\ nextId' = nextId + 1
  /\ task' = [task EXCEPT ![w] = Idle]
  /\ UNCHANGED <<received, pull, asked, raced, overlapped>>

\* Mutant: a name that has no row goes through.
MutantLoad(w) ==
  /\ \E n \in Name, c \in Config :
       \E r \in IF Named(n) = {} THEN {NoRow} ELSE First(Named(n)) :
         /\ Receive(w, [pc |-> "update", row |-> r, config |-> c])
         /\ asked' = asked \cup {<<n, c>>}
  /\ UNCHANGED <<subs, nextId, pull, raced, overlapped>>

\* A PATCH loads the first row of the name.
Load(w) ==
  /\ \E n \in Name, c \in Config : \E r \in First(Named(n)) :
       /\ Receive(w, [pc |-> "update", row |-> r, config |-> c])
       /\ asked' = asked \cup {<<n, c>>}
  /\ UNCHANGED <<subs, nextId, pull, raced, overlapped>>

\* A column that was assigned the value it had is not written.
Column(loaded, assigned, current) == IF assigned = loaded THEN current ELSE assigned

\* Mutant: a topic that has been given stays.
MutantEdited(r, t) == [r EXCEPT !.policy = t.config.policy]

\* Row r after the PATCH.
Edited(r, t) == [r EXCEPT !.topic = Column(t.row.topic, t.config.topic, @),
                          !.policy = Column(t.row.policy, t.config.policy, @)]

\* The commit; it raises when the row has been deleted meanwhile.
Update(w) ==
  LET t == task[w] IN
  /\ t.pc = "update"
  /\ subs' = {IF r.id = t.row.id THEN Edited(r, t) ELSE r : r \in subs}
  /\ overlapped' = overlapped \cup
       {i \in {t.row.id} :
          \E u \in Thread \ {w} : task[u].pc = "update" /\ task[u].row.id = i}
  /\ task' = [task EXCEPT ![w] = Idle]
  /\ UNCHANGED <<nextId, received, pull, asked, raced>>

\* A DELETE finds the first row of the name.
Find(w) ==
  /\ \E n \in Name : \E r \in First(Named(n)) : Receive(w, [pc |-> "delete", row |-> r])
  /\ UNCHANGED <<subs, nextId, pull, asked, raced, overlapped>>

\* Deleting a row that is gone is only warned of.
Delete(w) ==
  /\ task[w].pc = "delete"
  /\ subs' = {r \in subs : r.id # task[w].row.id}
  /\ task' = [task EXCEPT ![w] = Idle]
  /\ UNCHANGED <<nextId, received, pull, asked, raced, overlapped>>

\* A call of the handler raises before the commit.
Raise(w) ==
  /\ task[w] # Idle
  /\ task' = [task EXCEPT ![w] = Idle]
  /\ UNCHANGED <<subs, nextId, received, pull, asked, raced, overlapped>>

TableStep(w) ==
  CheckNew(w) \/ Insert(w) \/ Load(w) \/ Update(w) \/ Find(w) \/ Delete(w) \/ Raise(w)
-----------------------------------------------------------------------------
(* Pulls and acknowledgements.                                             *)

Becomes(c, p) == pull' = [pull EXCEPT ![c] = p] /\ UNCHANGED tableVars

\* A handler of a pull or of an acknowledgement holds the event loop of process p.
Held(p) == \E c \in Client : pull[c].pc \in {"calling", "called", "pulling"} /\ pull[c].at = p

Send(c) ==
  /\ pull[c] = Idle
  /\ Becomes(c, Sent)

\* Any process whose loop is free may accept a connection.
AcceptPull(c) ==
  /\ pull[c] = Sent
  /\ \E p \in Process :
       ~Held(p) /\ Becomes(c, [pc |-> "accepted", at |-> p])

\* The handler starts when the loop comes to it, and calls GET.
Call(c) ==
  /\ pull[c].pc = "accepted"
  /\ ~Held(pull[c].at)
  /\ Becomes(c, [pull[c] EXCEPT !.pc = "calling"])

\* Mutant: the call is made to the handler's own process.
MutantAcceptGet(c) ==
  /\ pull[c].pc = "calling"
  /\ ~Held(pull[c].at)
  /\ Becomes(c, [pc |-> "called", at |-> pull[c].at, get |-> pull[c].at])

\* A loop that has accepted the call may come to another handler first.
AcceptGet(c) ==
  /\ pull[c].pc = "calling"
  /\ \E p \in Process :
       ~Held(p) /\ Becomes(c, [pc |-> "called", at |-> pull[c].at, get |-> p])

\* GET answers with the first row of the name.
Get(c) ==
  /\ pull[c].pc = "called"
  /\ ~Held(pull[c].get)
  /\ \E n \in Name : \E r \in IF Named(n) = {} THEN {NoRow} ELSE First(Named(n)) :
       Becomes(c, [pc |-> "pulling", name |-> n, at |-> pull[c].at, row |-> r])

\* The rest of the handler (module PullSubscription) works with that row, whatever has
\* become of it, or answers 400 without one.
Finish(c) ==
  /\ pull[c].pc = "pulling"
  /\ Becomes(c, Idle)

PullStep(c) == AcceptPull(c) \/ Call(c) \/ AcceptGet(c) \/ Get(c) \/ Finish(c)

SubsNext ==
  \/ \E w \in Thread : TableStep(w)
  \/ \E c \in Client : Send(c) \/ PullStep(c)

SubsSpec == SubsInit /\ [][SubsNext]_subVars

\* A connection that waits is accepted when loops are free again and again, for they
\* come in turn; a loop that is free again and again comes to everything it has
\* accepted; a handler that has been answered ends.
FairSubsSpec ==
  /\ SubsSpec
  /\ \A c \in Client :
       /\ SF_subVars(AcceptPull(c)) /\ SF_subVars(AcceptGet(c))
       /\ SF_subVars(Call(c)) /\ SF_subVars(Get(c))
       /\ WF_subVars(Finish(c))
-----------------------------------------------------------------------------
(* Properties.                                                             *)

\* Every variable has its type.
SubsTypeOK ==
  /\ subs \in SUBSET Row
  /\ nextId \in Nat /\ received \in Nat
  /\ task \in [Thread -> Task]
  /\ pull \in [Client -> Pull]
  /\ asked \in SUBSET (Name \X Config)
  /\ raced \in SUBSET Name
  /\ overlapped \in SUBSET Nat

\* Creates_a_subscription: nothing but the look before the insert keeps names apart, so
\* two rows have one name only when two PUTs of it overlapped.
NamesApart == \A r, q \in subs : r.name = q.name => r = q \/ r.name \in raced

\* Updates_a_subscription and get_subscription_detail: the topic and the policy that a
\* pull works with were asked for together by one request for its subscription, unless
\* two PATCHes of the row overlapped.
PulledAsAsked ==
  \A c \in Client :
    pull[c].pc = "pulling" /\ pull[c].row # NoRow =>
      \/ pull[c].row.id \in overlapped
      \/ <<pull[c].name, ConfigOf(pull[c].row)>> \in asked

\* Every process is held by a handler that waits for GET: none is left to answer.
AllWaiting ==
  \A p \in Process : \E c \in Client : pull[c].pc \in {"calling", "called"} /\ pull[c].at = p

\* get_subscription_detail: a pull or an acknowledgement ends although it holds its process
\* while it waits for another one, however the handlers take turns at the processes; but
\* for the one way to stop, when handlers have come to wait at every process at once.
AnsweredUnlessAllWait == \A c \in Client : pull[c] = Sent ~> pull[c] = Idle \/ AllWaiting
=============================================================================
