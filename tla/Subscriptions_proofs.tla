------------------------- MODULE Subscriptions_proofs -------------------------
(* Proofs about the subscription endpoints and the GET of a pull, for any   *)
(* number of threads, processes, clients, subscriptions and requests.       *)
EXTENDS Subscriptions, FiniteSetTheorems, TLAPS

(* Ids are given once.                                                      *)
Numbered ==
  \A r \in subs : r.id < nextId /\ \A q \in subs : r.id = q.id => r = q

(* A PUT that has found its name free finds it taken at the insert only if  *)
(* another PUT of that name overlapped it.                                  *)
FreeName ==
  \A w \in Thread : task[w].pc = "insert" =>
    /\ \A r \in subs : r.name = task[w].name => r.name \in raced
    /\ \A u \in Thread \ {w} :
         task[u].pc = "insert" /\ task[u].name = task[w].name => task[w].name \in raced

(* What is in a row was asked for together, for the name of the row.        *)
AsAsked(n, r) == r.id \in overlapped \/ <<n, ConfigOf(r)>> \in asked

(* A PATCH finds at its commit the row that it loaded, unless another PATCH *)
(* has written it meanwhile.                                                *)
LoadedRow ==
  \A w \in Thread : task[w].pc = "update" =>
    /\ task[w].row.id < nextId
    /\ <<task[w].row.name, task[w].config>> \in asked
    /\ \A r \in subs : r.id = task[w].row.id =>
         r.name = task[w].row.name /\ (r = task[w].row \/ r.id \in overlapped)

(* The inductive invariant for the names.                                   *)
NameInv == SubsTypeOK /\ FreeName /\ NamesApart

(* The inductive invariant for what is pulled.                              *)
AskedInv ==
  /\ SubsTypeOK /\ Numbered /\ LoadedRow /\ PulledAsAsked
  /\ \A r \in subs : AsAsked(r.name, r)
  /\ \A w \in Thread : task[w].pc = "insert" => <<task[w].name, task[w].config>> \in asked

-----------------------------------------------------------------------------
(* Types.                                                                  *)

(* A configuration is its topic and its policy.                            *)
LEMMA ConfigFields ==
  /\ \A c \in Config : /\ c.topic \in Topic /\ c.policy \in Policy
                       /\ c = [topic |-> c.topic, policy |-> c.policy]
  /\ \A r \in Row : /\ r.id \in Nat /\ r.name \in Name
                    /\ r.topic \in Topic /\ r.policy \in Policy
<1>1. Config \subseteq [topic : Topic, policy : Policy]
  BY SubscriptionsAssumption
<1> QED BY <1>1 DEF Row

(* What a thread in the middle of a request carries.                       *)
LEMMA TaskFields ==
  ASSUME NEW t \in Task
  PROVE  /\ t.pc = "insert" => t.name \in Name /\ t.config \in Config
         /\ t.pc = "update" => t.row \in Row /\ t.config \in Config
         /\ t.pc = "delete" => t.row \in Row
BY DEF Task, Idle

(* The table starts with the rows stored.                                  *)
LEMMA SubsTypeInit == SubsInit => SubsTypeOK
<1> SUFFICES ASSUME SubsInit PROVE SubsTypeOK
  OBVIOUS
<1>1. nextId \in Nat
  BY SubscriptionsAssumption, FS_CardinalityType DEF SubsInit
<1>2. asked \in SUBSET (Name \X Config)
  BY SubscriptionsAssumption, ConfigFields DEF SubsInit
<1>3. task \in [Thread -> Task] /\ pull \in [Client -> Pull]
  BY DEF SubsInit, Task, Pull
<1> QED BY <1>1, <1>2, <1>3, SubscriptionsAssumption DEF SubsInit, SubsTypeOK

(* A row after a PATCH is a row, with the id and the name it had.          *)
LEMMA EditedRow ==
  ASSUME NEW r \in Row, NEW t, t.row \in Row, t.config \in Config
  PROVE  /\ Edited(r, t) \in Row
         /\ Edited(r, t).id = r.id /\ Edited(r, t).name = r.name
         /\ r = t.row => ConfigOf(Edited(r, t)) = t.config
<1>1. /\ Column(t.row.topic, t.config.topic, r.topic) \in Topic
      /\ Column(t.row.policy, t.config.policy, r.policy) \in Policy
  BY ConfigFields DEF Column
<1>2. /\ Edited(r, t) \in Row
      /\ Edited(r, t).id = r.id /\ Edited(r, t).name = r.name
      /\ Edited(r, t).topic = Column(t.row.topic, t.config.topic, r.topic)
      /\ Edited(r, t).policy = Column(t.row.policy, t.config.policy, r.policy)
  BY <1>1 DEF Edited, Row
<1>3. ASSUME r = t.row PROVE ConfigOf(Edited(r, t)) = t.config
  BY <1>2, <1>3, ConfigFields DEF ConfigOf, Column
<1> QED BY <1>2, <1>3

(* A thread that receives a request is in the middle of it.                *)
LEMMA ReceiveTyped ==
  ASSUME SubsTypeOK, NEW w \in Thread, NEW t \in Task, Receive(w, t)
  PROVE  /\ received' \in Nat /\ task' \in [Thread -> Task]
         /\ task'[w] = t /\ \A u \in Thread \ {w} : task'[u] = task[u]
BY DEF Receive, SubsTypeOK

(* What a PUT that finds the name free does.                               *)
LEMMA CheckNewDoes ==
  ASSUME SubsTypeOK, NEW w \in Thread, CheckNew(w)
  PROVE  \E n \in Name, c \in Config :
           /\ \A r \in subs : r.name # n
           /\ received' \in Nat /\ task' \in [Thread -> Task]
           /\ task'[w] = [pc |-> "insert", name |-> n, config |-> c]
           /\ \A u \in Thread \ {w} : task'[u] = task[u]
           /\ asked' = asked \cup {<<n, c>>}
           /\ raced' \in {raced, raced \cup {n}}
           /\ \A u \in Thread \ {w} :
                task[u].pc = "insert" /\ task[u].name = n => n \in raced'
           /\ UNCHANGED <<subs, nextId, pull, overlapped>>
<1>1. PICK n \in Name, c \in Config :
        /\ Named(n) = {}
        /\ Receive(w, [pc |-> "insert", name |-> n, config |-> c])
        /\ asked' = asked \cup {<<n, c>>}
        /\ raced' = IF Inserting(n) = {} THEN raced ELSE raced \cup {n}
  BY DEF CheckNew
<1>2. [pc |-> "insert", name |-> n, config |-> c] \in Task
  BY DEF Task
<1>3. \A u \in Thread \ {w} : task[u].pc = "insert" /\ task[u].name = n => n \in raced'
  BY <1>1 DEF Inserting
<1>4. \A r \in subs : r.name # n
  BY <1>1 DEF Named
<1>5. UNCHANGED <<subs, nextId, pull, overlapped>>
  BY DEF CheckNew
<1>6. /\ received' \in Nat /\ task' \in [Thread -> Task]
      /\ task'[w] = [pc |-> "insert", name |-> n, config |-> c]
      /\ \A u \in Thread \ {w} : task'[u] = task[u]
  BY <1>1, <1>2, ReceiveTyped
<1>7. raced' \in {raced, raced \cup {n}}
  BY <1>1
<1> WITNESS n \in Name, c \in Config
<1> QED BY <1>1, <1>3, <1>4, <1>5, <1>6, <1>7

(* What a PATCH that loads a row does.                                     *)
LEMMA LoadDoes ==
  ASSUME SubsTypeOK, NEW w \in Thread, Load(w)
  PROVE  \E c \in Config, r \in subs :
           /\ received' \in Nat /\ task' \in [Thread -> Task]
           /\ task'[w] = [pc |-> "update", row |-> r, config |-> c]
           /\ \A u \in Thread \ {w} : task'[u] = task[u]
           /\ asked' = asked \cup {<<r.name, c>>}
           /\ UNCHANGED <<subs, nextId, pull, raced, overlapped>>
<1>1. PICK n \in Name, c \in Config : \E r \in First(Named(n)) :
        /\ Receive(w, [pc |-> "update", row |-> r, config |-> c])
        /\ asked' = asked \cup {<<n, c>>}
  BY DEF Load
<1>2. PICK r \in subs : /\ r.name = n
                       /\ Receive(w, [pc |-> "update", row |-> r, config |-> c])
                       /\ asked' = asked \cup {<<n, c>>}
  BY <1>1 DEF First, Named
<1> DEFINE t == [pc |-> "update", row |-> r, config |-> c]
<1>3. t \in Task
  BY DEF Task, SubsTypeOK
<1>4. /\ received' \in Nat /\ task' \in [Thread -> Task]
      /\ task'[w] = t /\ \A u \in Thread \ {w} : task'[u] = task[u]
  BY <1>2, <1>3, ReceiveTyped
<1> QED BY <1>2, <1>4 DEF Load

(* What a DELETE that finds a row does.                                    *)
LEMMA FindDoes ==
  ASSUME SubsTypeOK, NEW w \in Thread, Find(w)
  PROVE  /\ received' \in Nat /\ task' \in [Thread -> Task]
         /\ task'[w].pc = "delete" /\ \A u \in Thread \ {w} : task'[u] = task[u]
         /\ UNCHANGED <<subs, nextId, pull, asked, raced, overlapped>>
<1>1. PICK r \in subs : Receive(w, [pc |-> "delete", row |-> r])
  BY DEF Find, First, Named
<1> DEFINE t == [pc |-> "delete", row |-> r]
<1>2. t \in Task /\ t.pc = "delete"
  BY DEF Task, SubsTypeOK
<1> QED BY <1>1, <1>2, ReceiveTyped DEF Find

(* A thread whose request is over is idle, and the others go on.           *)
LEMMA EndTyped ==
  ASSUME SubsTypeOK, NEW w \in Thread, task' = [task EXCEPT ![w] = Idle]
  PROVE  /\ task' \in [Thread -> Task]
         /\ task'[w].pc = "idle" /\ \A u \in Thread \ {w} : task'[u] = task[u]
BY DEF SubsTypeOK, Task, Idle

(* A request about the table keeps the types.                              *)
LEMMA TableStepTyped ==
  ASSUME SubsTypeOK, NEW w \in Thread, TableStep(w)
  PROVE  SubsTypeOK'
<1>0. task[w] \in Task /\ subs \in SUBSET Row
  BY DEF SubsTypeOK
<1>1. CASE CheckNew(w)
  <2>1. PICK n \in Name, c \in Config :
           /\ received' \in Nat /\ task' \in [Thread -> Task]
           /\ asked' = asked \cup {<<n, c>>}
           /\ raced' \in {raced, raced \cup {n}}
           /\ UNCHANGED <<subs, nextId, pull, overlapped>>
    BY <1>1, CheckNewDoes
  <2> QED BY <2>1 DEF SubsTypeOK
<1>2. CASE Insert(w)
  <2>1. task[w].name \in Name /\ task[w].config \in Config
    BY <1>0, <1>2, TaskFields DEF Insert
  <2>2. [id |-> nextId, name |-> task[w].name,
         topic |-> task[w].config.topic, policy |-> task[w].config.policy] \in Row
    BY <2>1, ConfigFields DEF Row, SubsTypeOK
  <2>3. subs' \in SUBSET Row
    BY <1>0, <1>2, <2>2 DEF Insert
  <2>4. nextId' \in Nat
    BY <1>2 DEF Insert, SubsTypeOK
  <2>5. task' \in [Thread -> Task] /\ UNCHANGED <<received, pull, asked, raced, overlapped>>
    BY <1>2, EndTyped DEF Insert
  <2> QED BY <2>3, <2>4, <2>5 DEF SubsTypeOK
<1>3. CASE Load(w)
  <2>1. PICK c \in Config, r \in subs :
           /\ received' \in Nat /\ task' \in [Thread -> Task]
           /\ asked' = asked \cup {<<r.name, c>>}
           /\ UNCHANGED <<subs, nextId, pull, raced, overlapped>>
    BY <1>3, LoadDoes
  <2> QED BY <1>0, <2>1, ConfigFields DEF SubsTypeOK
<1>4. CASE Update(w)
  <2>1. task[w].row \in Row /\ task[w].config \in Config
    BY <1>0, <1>4, TaskFields DEF Update
  <2>2. subs' = {IF r.id = task[w].row.id THEN Edited(r, task[w]) ELSE r : r \in subs}
    BY <1>4 DEF Update
  <2>3. \A r \in subs : Edited(r, task[w]) \in Row
    BY <1>0, <2>1, EditedRow
  <2>4. subs' \in SUBSET Row
    BY <1>0, <2>2, <2>3
  <2>5. overlapped' \in SUBSET Nat
    BY <1>4, <2>1, ConfigFields DEF Update, SubsTypeOK
  <2> QED BY <1>4, <2>4, <2>5, EndTyped DEF Update, SubsTypeOK
<1>5. CASE Find(w)
  BY <1>5, FindDoes DEF SubsTypeOK
<1>6. CASE Delete(w)
  BY <1>6, EndTyped DEF Delete, SubsTypeOK
<1>7. CASE Raise(w)
  BY <1>7, EndTyped DEF Raise, SubsTypeOK
<1> QED BY <1>1, <1>2, <1>3, <1>4, <1>5, <1>6, <1>7 DEF TableStep

(* What a client's step does to the pulls: the others stay, and a row in    *)
(* the hands of a pull was there or comes from the table.                   *)
LEMMA PullDoes ==
  ASSUME SubsTypeOK, NEW c \in Client, Send(c) \/ PullStep(c)
  PROVE  /\ UNCHANGED tableVars
         /\ pull' \in [Client -> Pull]
         /\ \A d \in Client \ {c} : pull'[d] = pull[d]
         /\ pull'[c].pc = "pulling" /\ pull'[c].row # NoRow =>
              pull'[c].row \in subs /\ pull'[c].row.name = pull'[c].name
<1>0. pull \in [Client -> Pull] /\ pull[c] \in Pull
  BY DEF SubsTypeOK
<1>1. ASSUME NEW p \in Pull, Becomes(c, p), p.pc # "pulling"
      PROVE  /\ UNCHANGED tableVars
             /\ pull' \in [Client -> Pull]
             /\ \A d \in Client \ {c} : pull'[d] = pull[d]
             /\ pull'[c].pc # "pulling"
  BY <1>0, <1>1 DEF Becomes
<1>2. CASE Send(c)
  BY <1>1, <1>2 DEF Send, Sent, Pull
<1>3. CASE AcceptPull(c)
  <2>1. PICK p \in Process : Becomes(c, [pc |-> "accepted", at |-> p])
    BY <1>3 DEF AcceptPull
  <2>2. [pc |-> "accepted", at |-> p] \in Pull
    BY DEF Pull
  <2> QED BY <1>1, <2>1, <2>2
<1>4. CASE Call(c)
  <2>1. Becomes(c, [pull[c] EXCEPT !.pc = "calling"])
    BY <1>4 DEF Call
  <2>2. /\ [pull[c] EXCEPT !.pc = "calling"] \in Pull
        /\ [pull[c] EXCEPT !.pc = "calling"].pc = "calling"
    BY <1>0, <1>4 DEF Call, Pull, Idle, Sent
  <2> QED BY <1>1, <2>1, <2>2
<1>5. CASE AcceptGet(c)
  <2>1. PICK p \in Process : Becomes(c, [pc |-> "called", at |-> pull[c].at, get |-> p])
    BY <1>5 DEF AcceptGet
  <2>2. pull[c].at \in Process
    BY <1>0, <1>5 DEF AcceptGet, Pull, Idle, Sent
  <2>3. [pc |-> "called", at |-> pull[c].at, get |-> p] \in Pull
    BY <2>2 DEF Pull
  <2> QED BY <1>1, <2>1, <2>3
<1>6. CASE Get(c)
  <2>1. PICK n \in Name, r \in Row \cup {NoRow} :
          /\ r # NoRow => r \in subs /\ r.name = n
          /\ Becomes(c, [pc |-> "pulling", name |-> n, at |-> pull[c].at, row |-> r])
    BY <1>6 DEF Get, First, Named, SubsTypeOK
  <2>2. pull[c].at \in Process
    BY <1>0, <1>6 DEF Get, Pull, Idle, Sent
  <2>3. [pc |-> "pulling", name |-> n, at |-> pull[c].at, row |-> r] \in Pull
    BY <2>2 DEF Pull
  <2> QED BY <1>0, <2>1, <2>3 DEF Becomes
<1>7. CASE Finish(c)
  BY <1>1, <1>7 DEF Finish, Idle, Pull
<1> QED BY <1>2, <1>3, <1>4, <1>5, <1>6, <1>7 DEF PullStep

(* Every step keeps the types.                                             *)
LEMMA SubsTypeStep == SubsTypeOK /\ [SubsNext]_subVars => SubsTypeOK'
<1> SUFFICES ASSUME SubsTypeOK, [SubsNext]_subVars PROVE SubsTypeOK'
  OBVIOUS
<1>1. CASE \E w \in Thread : TableStep(w)
  BY <1>1, TableStepTyped
<1>2. CASE \E c \in Client : Send(c) \/ PullStep(c)
  BY <1>2, PullDoes DEF SubsTypeOK, tableVars
<1>3. CASE UNCHANGED subVars
  BY <1>3 DEF SubsTypeOK, subVars, tableVars
<1> QED BY <1>1, <1>2, <1>3 DEF SubsNext

(* The table of the subscriptions, the requests and the pulls keep their    *)
(* types.                                                                   *)
THEOREM SubscriptionsTyped == SubsSpec => []SubsTypeOK
BY SubsTypeInit, SubsTypeStep, PTL DEF SubsSpec

-----------------------------------------------------------------------------
(* Names.                                                                  *)

(* A row after the commit of a PATCH: the one it loaded is written, the     *)
(* others stay.                                                             *)
Written(q, t) == IF q.id = t.row.id THEN Edited(q, t) ELSE q

(* What the commit of a PATCH does.                                        *)
LEMMA UpdateDoes ==
  ASSUME SubsTypeOK, NEW w \in Thread, Update(w)
  PROVE  /\ task[w].pc = "update" /\ task[w].row \in Row /\ task[w].config \in Config
         /\ subs' = {Written(q, task[w]) : q \in subs}
         /\ \A q \in subs :
              /\ Written(q, task[w]).id = q.id /\ Written(q, task[w]).name = q.name
              /\ q.id # task[w].row.id => Written(q, task[w]) = q
              /\ q = task[w].row => ConfigOf(Written(q, task[w])) = task[w].config
         /\ overlapped \subseteq overlapped'
         /\ \A u \in Thread \ {w} :
              task[u].pc = "update" /\ task[u].row.id = task[w].row.id
                => task[w].row.id \in overlapped'
         /\ task'[w].pc = "idle" /\ \A u \in Thread \ {w} : task'[u] = task[u]
         /\ UNCHANGED <<nextId, received, pull, asked, raced>>
<1>1. task[w].pc = "update" /\ task[w].row \in Row /\ task[w].config \in Config
  BY TaskFields DEF Update, SubsTypeOK
<1>2. subs' = {Written(q, task[w]) : q \in subs}
  BY DEF Update, Written
<1>3. ASSUME NEW q \in subs
      PROVE  /\ Written(q, task[w]).id = q.id /\ Written(q, task[w]).name = q.name
             /\ q.id # task[w].row.id => Written(q, task[w]) = q
             /\ q = task[w].row => ConfigOf(Written(q, task[w])) = task[w].config
  <2>1. CASE q.id = task[w].row.id
    <3>1. Written(q, task[w]) = Edited(q, task[w])
      BY <2>1 DEF Written
    <3> QED BY <1>1, <2>1, <3>1, EditedRow DEF SubsTypeOK
  <2>2. CASE q.id # task[w].row.id
    <3>1. Written(q, task[w]) = q
      BY <2>2 DEF Written
    <3> QED BY <2>2, <3>1
  <2> QED BY <2>1, <2>2
<1>4. /\ overlapped \subseteq overlapped'
      /\ \A u \in Thread \ {w} :
           task[u].pc = "update" /\ task[u].row.id = task[w].row.id
             => task[w].row.id \in overlapped'
  BY DEF Update
<1>5. UNCHANGED <<nextId, received, pull, asked, raced>>
  BY DEF Update
<1>6. task'[w].pc = "idle" /\ \A u \in Thread \ {w} : task'[u] = task[u]
  BY EndTyped DEF Update
<1> QED BY <1>1, <1>2, <1>3, <1>4, <1>5, <1>6

(* What the insert of a PUT does.                                          *)
LEMMA InsertDoes ==
  ASSUME SubsTypeOK, NEW w \in Thread, Insert(w)
  PROVE  /\ task[w].pc = "insert" /\ task[w].name \in Name /\ task[w].config \in Config
         /\ \E r : /\ subs' = subs \cup {r}
                  /\ r.id = nextId /\ r.name = task[w].name
                  /\ ConfigOf(r) = task[w].config
         /\ nextId' = nextId + 1
         /\ task'[w].pc = "idle" /\ \A u \in Thread \ {w} : task'[u] = task[u]
         /\ UNCHANGED <<received, pull, asked, raced, overlapped>>
<1>1. task[w].pc = "insert" /\ task[w].name \in Name /\ task[w].config \in Config
  BY TaskFields DEF Insert, SubsTypeOK
<1> DEFINE new == [id |-> nextId, name |-> task[w].name,
                   topic |-> task[w].config.topic, policy |-> task[w].config.policy]
<1>2. subs' = subs \cup {new}
  BY DEF Insert
<1>3. new.id = nextId /\ new.name = task[w].name /\ ConfigOf(new) = task[w].config
  BY <1>1, ConfigFields DEF ConfigOf
<1>4. task'[w].pc = "idle" /\ \A u \in Thread \ {w} : task'[u] = task[u]
  BY EndTyped DEF Insert
<1> HIDE DEF new
<1> QED BY <1>1, <1>2, <1>3, <1>4 DEF Insert

(* Rows stored have names of their own, and no thread is inserting.        *)
LEMMA NameInvInit == SubsInit => NameInv
BY SubsTypeInit, SubscriptionsAssumption DEF SubsInit, NameInv, FreeName, NamesApart, Idle

(* Every request about the table keeps the names apart.                    *)
LEMMA NameInvTable ==
  ASSUME NameInv, NEW w \in Thread, TableStep(w)
  PROVE  FreeName' /\ NamesApart'
<1> USE DEF NameInv
<1>1. CASE CheckNew(w)
  <2>1. PICK n \in Name, c \in Config :
           /\ \A r \in subs : r.name # n
           /\ task'[w] = [pc |-> "insert", name |-> n, config |-> c]
           /\ \A u \in Thread \ {w} : task'[u] = task[u]
           /\ raced' \in {raced, raced \cup {n}}
           /\ \A u \in Thread \ {w} :
                task[u].pc = "insert" /\ task[u].name = n => n \in raced'
           /\ UNCHANGED <<subs, nextId, pull, overlapped>>
    BY <1>1, CheckNewDoes
  <2>2. task'[w].name = n
    BY <2>1
  <2> QED BY <2>1, <2>2 DEF FreeName, NamesApart
<1>2. CASE Insert(w)
  <2>1. PICK r : subs' = subs \cup {r} /\ r.id = nextId /\ r.name = task[w].name
    BY <1>2, InsertDoes
  <2>2. /\ task[w].pc = "insert" /\ raced' = raced
        /\ task'[w].pc = "idle" /\ \A u \in Thread \ {w} : task'[u] = task[u]
    BY <1>2, InsertDoes
  <2>3. NamesApart'
    BY <2>1, <2>2 DEF FreeName, NamesApart
  <2>4. FreeName'
    BY <2>1, <2>2 DEF FreeName
  <2> QED BY <2>3, <2>4
<1>3. CASE Load(w)
  <2>1. PICK c \in Config, r \in subs :
           /\ task'[w] = [pc |-> "update", row |-> r, config |-> c]
           /\ \A u \in Thread \ {w} : task'[u] = task[u]
           /\ UNCHANGED <<subs, nextId, pull, raced, overlapped>>
    BY <1>3, LoadDoes
  <2>2. task'[w].pc = "update"
    BY <2>1
  <2> QED BY <2>1, <2>2 DEF FreeName, NamesApart
<1>4. CASE Update(w)
  <2>1. /\ subs' = {Written(q, task[w]) : q \in subs}
        /\ \A q \in subs : Written(q, task[w]).name = q.name
    BY <1>4, UpdateDoes
  <2>2. /\ raced' = raced
        /\ task'[w].pc = "idle" /\ \A u \in Thread \ {w} : task'[u] = task[u]
    BY <1>4, UpdateDoes
  <2>3. NamesApart'
    BY <2>1, <2>2 DEF NamesApart
  <2>4. FreeName'
    BY <2>1, <2>2 DEF FreeName
  <2> QED BY <2>3, <2>4
<1>5. CASE Find(w)
  BY <1>5, FindDoes DEF FreeName, NamesApart
<1>6. CASE Delete(w)
  <2>1. /\ subs' \subseteq subs /\ raced' = raced
        /\ task'[w].pc = "idle" /\ \A u \in Thread \ {w} : task'[u] = task[u]
    BY <1>6, EndTyped DEF Delete
  <2> QED BY <2>1 DEF FreeName, NamesApart
<1>7. CASE Raise(w)
  <2>1. /\ UNCHANGED <<subs, raced>>
        /\ task'[w].pc = "idle" /\ \A u \in Thread \ {w} : task'[u] = task[u]
    BY <1>7, EndTyped DEF Raise
  <2> QED BY <2>1 DEF FreeName, NamesApart
<1> QED BY <1>1, <1>2, <1>3, <1>4, <1>5, <1>6, <1>7 DEF TableStep

(* Every step keeps the names apart; a pull changes nothing of the table.  *)
LEMMA NameInvStep == NameInv /\ [SubsNext]_subVars => NameInv'
<1> SUFFICES ASSUME NameInv, [SubsNext]_subVars PROVE NameInv'
  OBVIOUS
<1>1. SubsTypeOK'
  BY SubsTypeStep DEF NameInv
<1>2. CASE \E w \in Thread : TableStep(w)
  BY <1>1, <1>2, NameInvTable DEF NameInv
<1>3. ASSUME UNCHANGED tableVars PROVE FreeName' /\ NamesApart'
  BY <1>3 DEF NameInv, FreeName, NamesApart, tableVars
<1>4. CASE \E c \in Client : Send(c) \/ PullStep(c)
  BY <1>1, <1>3, <1>4, PullDoes DEF NameInv
<1>5. CASE UNCHANGED subVars
  BY <1>1, <1>3, <1>5 DEF NameInv, subVars
<1> QED BY <1>2, <1>4, <1>5 DEF SubsNext

(* For any number of threads and requests: two subscriptions have one name  *)
(* only when two PUTs of that name overlapped, the look before the insert   *)
(* being all that keeps names apart.                                        *)
THEOREM NamesKeptApart == SubsSpec => []NamesApart
<1>1. NameInv => NamesApart
  BY DEF NameInv
<1> QED BY <1>1, NameInvInit, NameInvStep, PTL DEF SubsSpec

-----------------------------------------------------------------------------
(* Configurations.                                                         *)

(* The rows stored are what was asked for before the start.                *)
LEMMA AskedInvInit == SubsInit => AskedInv
<1> SUFFICES ASSUME SubsInit PROVE AskedInv
  OBVIOUS
<1>1. Numbered
  <2>1. \A r \in Stored : r.id \in 1 .. Cardinality(Stored)
    BY SubscriptionsAssumption
  <2> QED BY <2>1, SubscriptionsAssumption, FS_CardinalityType DEF SubsInit, Numbered
<1>2. \A r \in subs : AsAsked(r.name, r)
  BY DEF SubsInit, AsAsked
<1>3. LoadedRow /\ PulledAsAsked
  BY DEF SubsInit, LoadedRow, PulledAsAsked, Idle
<1>4. \A w \in Thread : task[w].pc # "insert"
  BY DEF SubsInit, Idle
<1> QED BY <1>1, <1>2, <1>3, <1>4, SubsTypeInit DEF AskedInv

(* Every request about the table keeps what the pulls rely on.             *)
LEMMA AskedInvTable ==
  ASSUME AskedInv, NEW w \in Thread, TableStep(w)
  PROVE  /\ Numbered' /\ LoadedRow' /\ PulledAsAsked'
         /\ \A r \in subs' : AsAsked(r.name, r)'
         /\ \A u \in Thread : task'[u].pc = "insert"
              => <<task'[u].name, task'[u].config>> \in asked'
<1> USE DEF AskedInv
<1>0. SubsTypeOK
  OBVIOUS
<1>1. CASE CheckNew(w)
  <2>1. PICK n \in Name, c \in Config :
           /\ task'[w] = [pc |-> "insert", name |-> n, config |-> c]
           /\ \A u \in Thread \ {w} : task'[u] = task[u]
           /\ asked' = asked \cup {<<n, c>>}
           /\ UNCHANGED <<subs, nextId, pull, overlapped>>
    BY <1>1, CheckNewDoes
  <2>2. /\ task'[w].pc = "insert" /\ task'[w].name = n /\ task'[w].config = c
    BY <2>1
  <2>3. Numbered' /\ PulledAsAsked' /\ \A r \in subs' : AsAsked(r.name, r)'
    BY <2>1 DEF Numbered, PulledAsAsked, AsAsked
  <2>4. LoadedRow'
    BY <2>1, <2>2 DEF LoadedRow
  <2> QED BY <2>1, <2>2, <2>3, <2>4
<1>2. CASE Insert(w)
  <2>1. PICK r : /\ subs' = subs \cup {r} /\ r.id = nextId /\ r.name = task[w].name
                 /\ ConfigOf(r) = task[w].config
    BY <1>2, InsertDoes
  <2>2. /\ task[w].pc = "insert" /\ nextId' = nextId + 1
        /\ task'[w].pc = "idle" /\ \A u \in Thread \ {w} : task'[u] = task[u]
        /\ UNCHANGED <<pull, asked, overlapped>>
    BY <1>2, InsertDoes
  <2>3. nextId \in Nat /\ \A q \in subs : q.id \in Nat
    BY ConfigFields DEF SubsTypeOK
  <2>4. Numbered'
    BY <2>1, <2>2, <2>3 DEF Numbered
  <2>5. LoadedRow'
    <3>1. ASSUME NEW u \in Thread, task[u].pc = "update" PROVE task[u].row.id \in Nat
      BY <3>1, TaskFields, ConfigFields DEF SubsTypeOK
    <3> QED BY <2>1, <2>2, <2>3, <3>1 DEF LoadedRow
  <2>6. PulledAsAsked'
    BY <2>2 DEF PulledAsAsked
  <2>7. \A q \in subs' : AsAsked(q.name, q)'
    BY <2>1, <2>2 DEF AsAsked
  <2> QED BY <2>2, <2>4, <2>5, <2>6, <2>7
<1>3. CASE Load(w)
  <2>1. PICK c \in Config, r \in subs :
           /\ task'[w] = [pc |-> "update", row |-> r, config |-> c]
           /\ \A u \in Thread \ {w} : task'[u] = task[u]
           /\ asked' = asked \cup {<<r.name, c>>}
           /\ UNCHANGED <<subs, nextId, pull, raced, overlapped>>
    BY <1>3, LoadDoes
  <2>2. task'[w].pc = "update" /\ task'[w].row = r /\ task'[w].config = c
    BY <2>1
  <2>3. Numbered' /\ PulledAsAsked' /\ \A q \in subs' : AsAsked(q.name, q)'
    BY <2>1 DEF Numbered, PulledAsAsked, AsAsked
  <2>4. LoadedRow'
    BY <2>1, <2>2 DEF LoadedRow, Numbered
  <2> QED BY <2>1, <2>2, <2>3, <2>4
<1>4. CASE Update(w)
  <2>1. /\ task[w].pc = "update"
        /\ overlapped \subseteq overlapped'
        /\ task'[w].pc = "idle" /\ \A u \in Thread \ {w} : task'[u] = task[u]
        /\ UNCHANGED <<nextId, pull, asked>>
    BY <1>4, UpdateDoes
  <2>2. /\ subs' = {Written(q, task[w]) : q \in subs}
        /\ \A q \in subs :
             /\ Written(q, task[w]).id = q.id /\ Written(q, task[w]).name = q.name
             /\ q.id # task[w].row.id => Written(q, task[w]) = q
             /\ q = task[w].row => ConfigOf(Written(q, task[w])) = task[w].config
    BY <1>4, UpdateDoes
  <2>3. Numbered'
    BY <2>1, <2>2 DEF Numbered
  <2>4. LoadedRow'
    <3>1. \A u \in Thread \ {w} :
            task[u].pc = "update" /\ task[u].row.id = task[w].row.id
              => task[w].row.id \in overlapped'
      BY <1>4, UpdateDoes
    <3> QED BY <2>1, <2>2, <3>1 DEF LoadedRow
  <2>5. PulledAsAsked'
    BY <2>1 DEF PulledAsAsked
  <2>6. ASSUME NEW r \in subs' PROVE AsAsked(r.name, r)'
    <3>1. PICK q \in subs :
             /\ r.id = q.id /\ r.name = q.name
             /\ q.id # task[w].row.id => r = q
             /\ q = task[w].row => ConfigOf(r) = task[w].config
      BY <2>2
    <3>2. CASE q = task[w].row
      BY <2>1, <3>1, <3>2 DEF AsAsked, LoadedRow
    <3>3. CASE q.id = task[w].row.id /\ q # task[w].row
      BY <2>1, <3>1, <3>3 DEF AsAsked, LoadedRow
    <3>4. CASE q.id # task[w].row.id
      BY <2>1, <3>1, <3>4 DEF AsAsked
    <3> QED BY <3>2, <3>3, <3>4
  <2> QED BY <2>1, <2>3, <2>4, <2>5, <2>6
<1>5. CASE Find(w)
  <2>1. /\ task'[w].pc = "delete" /\ \A u \in Thread \ {w} : task'[u] = task[u]
        /\ UNCHANGED <<subs, nextId, pull, asked, raced, overlapped>>
    BY <1>5, FindDoes
  <2> QED BY <2>1 DEF Numbered, LoadedRow, PulledAsAsked, AsAsked
<1>6. CASE Delete(w)
  <2>1. /\ subs' \subseteq subs
        /\ task'[w].pc = "idle" /\ \A u \in Thread \ {w} : task'[u] = task[u]
        /\ UNCHANGED <<nextId, pull, asked, raced, overlapped>>
    BY <1>6, EndTyped DEF Delete
  <2> QED BY <2>1 DEF Numbered, LoadedRow, PulledAsAsked, AsAsked
<1>7. CASE Raise(w)
  <2>1. /\ task'[w].pc = "idle" /\ \A u \in Thread \ {w} : task'[u] = task[u]
        /\ UNCHANGED <<subs, nextId, pull, asked, raced, overlapped>>
    BY <1>7, EndTyped DEF Raise
  <2> QED BY <2>1 DEF Numbered, LoadedRow, PulledAsAsked, AsAsked
<1> QED BY <1>1, <1>2, <1>3, <1>4, <1>5, <1>6, <1>7 DEF TableStep

(* Every step keeps what the pulls rely on; a pull takes its row from the   *)
(* table.                                                                   *)
LEMMA AskedInvStep == AskedInv /\ [SubsNext]_subVars => AskedInv'
<1> SUFFICES ASSUME AskedInv, [SubsNext]_subVars PROVE AskedInv'
  OBVIOUS
<1>0. SubsTypeOK
  BY DEF AskedInv
<1>1. SubsTypeOK'
  BY <1>0, SubsTypeStep
<1>2. CASE \E w \in Thread : TableStep(w)
  BY <1>1, <1>2, AskedInvTable DEF AskedInv
<1>3. ASSUME UNCHANGED tableVars, PulledAsAsked' PROVE AskedInv'
  BY <1>1, <1>3 DEF AskedInv, Numbered, LoadedRow, AsAsked, tableVars
<1>4. CASE \E c \in Client : Send(c) \/ PullStep(c)
  <2>1. PICK c \in Client : Send(c) \/ PullStep(c)
    BY <1>4
  <2>2. /\ UNCHANGED tableVars
        /\ \A d \in Client \ {c} : pull'[d] = pull[d]
        /\ pull'[c].pc = "pulling" /\ pull'[c].row # NoRow =>
             pull'[c].row \in subs /\ pull'[c].row.name = pull'[c].name
    BY <1>0, <2>1, PullDoes
  <2>3. PulledAsAsked'
    BY <2>2 DEF AskedInv, PulledAsAsked, AsAsked, tableVars
  <2> QED BY <1>3, <2>2, <2>3
<1>5. CASE UNCHANGED subVars
  <2>1. PulledAsAsked'
    BY <1>5 DEF AskedInv, PulledAsAsked, subVars, tableVars
  <2> QED BY <1>3, <1>5, <2>1 DEF subVars
<1> QED BY <1>2, <1>4, <1>5 DEF SubsNext

(* For any number of threads, processes and clients: a pull works with a    *)
(* topic and a policy that one request asked for together for its           *)
(* subscription, unless two PATCHes of the row overlapped.                  *)
THEOREM PullsAsAsked == SubsSpec => []PulledAsAsked
<1>1. AskedInv => PulledAsAsked
  BY DEF AskedInv
<1> QED BY <1>1, AskedInvInit, AskedInvStep, PTL DEF SubsSpec
=============================================================================
