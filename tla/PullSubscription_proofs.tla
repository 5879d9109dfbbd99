---------------------- MODULE PullSubscription_proofs ----------------------
(***************************************************************************)
(* Proofs about PullSubscription for any number of workers, subscriptions, *)
(* topics and messages, any deadlines and backoffs, any clock resolution.  *)
(***************************************************************************)
EXTENDS PullSubscription, RetryPolicy_proofs, SequenceTheorems

\* A sequence that grows is not empty.
LEMMA AppendNonEmpty ==
  ASSUME NEW S, NEW rows \in Seq(S), NEW r \in S
  PROVE  Append(rows, r) \in Seq(S) /\ Append(rows, r) # <<>>
BY AppendProperties

USE ConstantsAssumption

\* JobSound in the next state, of a job that is given.
JobSoundNext(j) ==
  /\ \A r \in j.view.rows : Faithful(r)
  /\ \A s \in j.view.retried : retry'[s] # <<>>
  /\ j.asked \subseteq delivered'[j.sub] \cup strayed'[j.sub]
  /\ \A r \in j.matched : Faithful(r) /\ r.ackId \in j.asked
  /\ j.pc = "retry" => retry'[j.sub] # <<>>
  /\ j.pc = "insert" => j.want > 0 /\ j.hand < Len(Log[TopicOf[j.sub]])

\* What a step may do to what the other workers rely on.
Grows ==
  /\ \A s \in Subscription : retry[s] # <<>> => retry'[s] # <<>>
  /\ \A s \in Subscription : /\ delivered[s] \subseteq delivered'[s]
                             /\ strayed[s] \subseteq strayed'[s]

-----------------------------------------------------------------------------
\* A DATETIME is a whole number of ticks.
LEMMA StoredType == ASSUME NEW t \in Int PROVE Stored(t) \in Int
<1>1. (2 * t + TicksPerSecond) \div (2 * TicksPerSecond) \in Int
  OBVIOUS
<1> QED
  BY <1>1 DEF Stored

\* A worker between requests.
LEMMA IdleSound == Idle \in Job /\ JobSoundNext(Idle)
<1>1. (CHOOSE s \in Subscription : TRUE) \in Subscription
  OBVIOUS
<1>2. Closed \in View
  BY DEF Closed, View
<1>3. Decide("open", 0) \in Decision
  BY DEF Decide, Decision
<1>4. Idle \in Job
  BY <1>1, <1>2, <1>3 DEF Idle, Job
<1>5. JobSoundNext(Idle)
  BY DEF JobSoundNext, Idle, Closed
<1> QED
  BY <1>4, <1>5

\* A SELECT reads rows of the ackIds table, as it is or as it was.
LEMMA SeenSound ==
  ASSUME SoundInv, NEW w \in Worker
  PROVE  /\ Seen(w) \in View
         /\ \A r \in Seen(w).rows : Faithful(r)
         /\ \A s \in Seen(w).retried : retry[s] # <<>>
<1>1. Snapshot \in View
  BY DEF Snapshot, View, SoundInv, TypeOK
<1>2. /\ \A r \in Snapshot.rows : Faithful(r)
      /\ \A s \in Snapshot.retried : retry[s] # <<>>
  BY DEF Snapshot, SoundInv
<1>3. job[w].view \in View
  BY DEF SoundInv, TypeOK, Job
<1> QED
  BY <1>1, <1>2, <1>3, Zenon DEF Seen, SoundInv, JobSound

\* One worker's job changes; the others keep theirs.
LEMMA JobStep ==
  ASSUME SoundInv, Grows, NEW w \in Worker, NEW j \in Job, Becomes(w, j),
         JobSoundNext(j)
  PROVE  /\ job' \in [Worker -> Job]
         /\ \A v \in Worker : JobSound(job[v])'
<1>1. job' \in [Worker -> Job]
  BY DEF Becomes, SoundInv, TypeOK
<1>2. ASSUME NEW v \in Worker PROVE JobSoundNext(job'[v])
  <2>1. CASE v = w
    BY <2>1 DEF Becomes, SoundInv, TypeOK
  <2>2. CASE v # w
    <3>1. job'[v] = job[v] /\ job[v] \in Job
      BY <2>2 DEF Becomes, SoundInv, TypeOK
    <3>2. job[v].sub \in Subscription /\ job[v].view.retried \subseteq Subscription
      BY <3>1 DEF Job, View
    <3>3. JobSound(job[v])
      BY DEF SoundInv
    <3> QED
      BY <3>1, <3>2, <3>3 DEF JobSound, JobSoundNext, Grows
  <2> QED
    BY <2>1, <2>2
<1>3. ASSUME NEW v \in Worker PROVE JobSound(job[v])'
  BY <1>2 DEF JobSound, JobSoundNext, Faithful
<1> QED
  BY <1>1, <1>3

-----------------------------------------------------------------------------
\* What a step has to show of the variables other than job.
Rest ==
  /\ clock' \in Nat
  /\ ackIds' \in SUBSET Row
  /\ nextId' \in Nat
  /\ retry' \in [Subscription -> Seq(RetryRow)]
  /\ committed' \in [Subscription -> [Topic -> Nat]]
  /\ owner' \in [Subscription -> Worker \cup {NoWorker}]
  /\ requests' \in Nat
  /\ delivered' \in [Subscription -> SUBSET AckId]
  /\ claimed' \in SUBSET (Topic \X Nat)
  /\ strayed' \in [Subscription -> SUBSET AckId]
  /\ \A r \in ackIds' : Faithful(r)
  /\ CommitsFollowDelivery'

LEMMA SoundFromParts ==
  ASSUME SoundInv, Grows, Rest, NEW w \in Worker, NEW j \in Job, Becomes(w, j),
         JobSoundNext(j)
  PROVE  SoundInv'
<1>1. /\ job' \in [Worker -> Job]
      /\ \A v \in Worker : JobSound(job[v])'
  BY JobStep
<1>2. TypeOK'
  BY <1>1 DEF TypeOK, Rest
<1>3. (\A r \in ackIds : Faithful(r))'
  BY DEF Rest, Faithful
<1> QED
  BY <1>1, <1>2, <1>3 DEF SoundInv, Rest

\* A variable that stays keeps what SoundInv says of it.
LEMMA RestUnchanged ==
  ASSUME SoundInv
  PROVE  /\ UNCHANGED clock => clock' \in Nat
         /\ UNCHANGED ackIds => ackIds' \in SUBSET Row /\ \A r \in ackIds' : Faithful(r)
         /\ UNCHANGED nextId => nextId' \in Nat
         /\ UNCHANGED retry => retry' \in [Subscription -> Seq(RetryRow)]
         /\ UNCHANGED committed => committed' \in [Subscription -> [Topic -> Nat]]
         /\ UNCHANGED owner => owner' \in [Subscription -> Worker \cup {NoWorker}]
         /\ UNCHANGED requests => requests' \in Nat
         /\ UNCHANGED delivered => delivered' \in [Subscription -> SUBSET AckId]
         /\ UNCHANGED claimed => claimed' \in SUBSET (Topic \X Nat)
         /\ UNCHANGED strayed => strayed' \in [Subscription -> SUBSET AckId]
         /\ UNCHANGED <<committed, delivered, strayed>> => CommitsFollowDelivery'
         /\ UNCHANGED <<retry, delivered, strayed>> => Grows
  BY SMTT(60) DEF SoundInv, TypeOK, CommitsFollowDelivery, Grows

LEMMA RebalanceType ==
  ASSUME SoundInv, NEW s \in Subscription, Rebalance(s)
  PROVE  owner' \in [Subscription -> Worker \cup {NoWorker}]
BY DEF Rebalance, SoundInv, TypeOK

LEMMA JobFields ==
  ASSUME SoundInv, NEW w \in Worker
  PROVE  /\ job[w] \in Job
         /\ job[w].sub \in Subscription
         /\ JobSound(job[w])
BY DEF SoundInv, TypeOK, Job

\* The numbers a request keeps.
LEMMA JobNumbers ==
  ASSUME SoundInv, NEW w \in Worker
  PROVE  /\ job[w].pos \in Nat /\ job[w].polls \in Nat
         /\ job[w].want \in Nat /\ job[w].hand \in Nat
         /\ job[w].detector \in Nat
         /\ job[w].pos + 1 \in Nat /\ job[w].hand + 1 \in Nat
<1> DEFINE p == job[w].pos
           h == job[w].hand
<1>1. job[w] \in Job
  BY JobFields
<1>2. /\ p \in Nat /\ job[w].polls \in Nat
      /\ job[w].want \in Nat /\ h \in Nat
      /\ job[w].detector \in Nat
  BY <1>1 DEF Job
<1> HIDE DEF p, h
<1>3. p + 1 \in Nat /\ h + 1 \in Nat
  BY <1>2
<1> QED
  BY <1>2, <1>3 DEF p, h

LEMMA FinishSound ==
  ASSUME SoundInv, NEW w \in Worker, Finish(w)
  PROVE  /\ Becomes(w, Idle)
         /\ owner' \in [Subscription -> Worker \cup {NoWorker}]
BY JobFields, RebalanceType, RestUnchanged DEF Finish

-----------------------------------------------------------------------------
(* One lemma per action.                                                   *)

LEMMA TickSound == ASSUME SoundInv, Tick PROVE SoundInv'
<1>1. /\ clock' \in Nat
      /\ UNCHANGED <<ackIds, nextId, retry, committed, owner, job, requests,
                    delivered, claimed, strayed>>
  BY DEF Tick, dbVars, kafkaVars, obsVars, SoundInv, TypeOK
<1> QED
  BY <1>1 DEF SoundInv, TypeOK, Faithful, JobSound, CommitsFollowDelivery

LEMMA ReceiveSound ==
  ASSUME SoundInv, NEW w \in Worker, NEW j \in Job, Receive(w, j),
         strayed' \in [Subscription -> SUBSET AckId],
         \A s \in Subscription : strayed[s] \subseteq strayed'[s],
         j.asked \subseteq delivered[j.sub] \cup strayed'[j.sub], j.matched = {}
  PROVE  SoundInv'
<1> DEFINE ids == {r.id : r \in Outstanding(ackIds)}
           k == [j EXCEPT !.pc = "expire", !.view = Snapshot, !.pending = ids]
<1>1. Snapshot \in View
  BY DEF Snapshot, View, SoundInv, TypeOK
<1>2. ids \subseteq Nat
  <2>1. \A r \in Outstanding(ackIds) : r.id \in Nat
    BY DEF Outstanding, SoundInv, TypeOK, Row
  <2> QED
    BY <2>1
<1>3. /\ k \in Job
      /\ k.pc = "expire" /\ k.view = Snapshot /\ k.sub = j.sub
      /\ k.asked = j.asked /\ k.matched = {}
  <2> HIDE DEF ids
  <2> QED
    BY <1>1, <1>2 DEF Job
<1>4. Becomes(w, k)
  BY DEF Receive
<1> HIDE DEF k
<1>5. JobSoundNext(k)
  <2>1. \A r \in Snapshot.rows : Faithful(r)
    BY DEF Snapshot, SoundInv
  <2>2. \A s \in Snapshot.retried : retry'[s] # <<>>
    BY DEF Snapshot, Receive, dbVars
  <2>3. delivered' = delivered
    BY DEF Receive
  <2> QED
    BY <1>3, <2>1, <2>2, <2>3 DEF JobSoundNext
<1>6. Rest /\ Grows
  <2>1. /\ clock' = clock /\ ackIds' = ackIds /\ nextId' = nextId /\ retry' = retry
        /\ committed' = committed /\ owner' = owner /\ delivered' = delivered
        /\ claimed' = claimed
    BY DEF Receive, dbVars, kafkaVars
  <2>2. requests' \in Nat
    BY DEF Receive, SoundInv, TypeOK
  <2>3. CommitsFollowDelivery'
    <3> SUFFICES ASSUME NEW s \in Subscription, NEW t \in Topic, committed[s][t] > 0
                 PROVE  \E a \in delivered[s] \cup strayed'[s] :
                          /\ committed[s][t] \in 1..Len(Log[t])
                          /\ a = Log[t][committed[s][t]]
      BY <2>1 DEF CommitsFollowDelivery
    <3>1. PICK a \in delivered[s] \cup strayed[s] :
            /\ committed[s][t] \in 1..Len(Log[t])
            /\ a = Log[t][committed[s][t]]
      BY DEF SoundInv, CommitsFollowDelivery
    <3>2. a \in delivered[s] \cup strayed'[s]
      OBVIOUS
    <3> QED
      BY <3>1, <3>2
  <2>4. Grows
    BY <2>1 DEF Grows
  <2> QED
    BY <2>1, <2>2, <2>3, <2>4, RestUnchanged DEF Rest
<1> QED
  BY <1>3, <1>4, <1>5, <1>6, SoundFromParts

LEMMA ReceivePullSound == ASSUME SoundInv, NEW w \in Worker, ReceivePull(w) PROVE SoundInv'
<1>1. PICK s \in Subscription, n \in 1..MaxMessages :
        Receive(w, [Idle EXCEPT !.op = "pull", !.sub = s, !.want = n])
  BY DEF ReceivePull
<1> DEFINE j == [Idle EXCEPT !.op = "pull", !.sub = s, !.want = n]
<1>2. j \in Job
  <2>1. Idle \in Job /\ n \in Nat
    BY IdleSound
  <2> QED
    BY <2>1 DEF Job
<1>3. j.asked = {} /\ j.matched = {}
  BY DEF Idle
<1>4. /\ strayed' \in [Subscription -> SUBSET AckId]
      /\ \A q \in Subscription : strayed[q] \subseteq strayed'[q]
  BY DEF ReceivePull, SoundInv, TypeOK
<1> HIDE DEF j
<1> QED
  BY <1>1, <1>2, <1>3, <1>4, ReceiveSound DEF j

LEMMA ReceiveAckSound == ASSUME SoundInv, NEW w \in Worker, ReceiveAck(w) PROVE SoundInv'
<1>1. PICK s \in Subscription, A \in SUBSET AckId :
        /\ Receive(w, [Idle EXCEPT !.op = "ack", !.sub = s, !.asked = A, !.since = clock])
        /\ strayed' = [strayed EXCEPT ![s] = @ \cup (A \ delivered[s])]
  BY DEF ReceiveAck
<1> DEFINE j == [Idle EXCEPT !.op = "ack", !.sub = s, !.asked = A, !.since = clock]
<1>2. j \in Job
  BY IdleSound DEF Job, SoundInv, TypeOK
<1>3. j.sub = s /\ j.asked = A /\ j.matched = {}
  BY DEF Idle
<1>4. /\ strayed' \in [Subscription -> SUBSET AckId]
      /\ \A q \in Subscription : strayed[q] \subseteq strayed'[q]
      /\ A \subseteq delivered[s] \cup strayed'[s]
  BY <1>1 DEF SoundInv, TypeOK
<1> HIDE DEF j
<1> QED
  BY <1>1, <1>2, <1>3, <1>4, ReceiveSound DEF j

-----------------------------------------------------------------------------
(* The steps of a handler: most change a few fields of the worker's job.   *)

\* The views a job can have after a step.
Views(w) == {job[w].view, Seen(w), Snapshot, Closed}

LEMMA ViewsSound ==
  ASSUME SoundInv, NEW w \in Worker, NEW v \in Views(w)
  PROVE  /\ v \in View
         /\ \A r \in v.rows : Faithful(r)
         /\ \A s \in v.retried : retry[s] # <<>>
<1>1. CASE v = job[w].view
  BY <1>1, JobFields DEF JobSound, Job
<1>2. CASE v = Seen(w)
  BY <1>2, SeenSound
<1>3. CASE v = Snapshot
  BY <1>3 DEF Snapshot, View, SoundInv, TypeOK
<1>4. CASE v = Closed
  BY <1>4 DEF Closed, View
<1> QED
  BY <1>1, <1>2, <1>3, <1>4 DEF Views

LEMMA EditSound ==
  ASSUME SoundInv, Grows, Rest, NEW w \in Worker, NEW j \in Job, Becomes(w, j),
         j.sub = job[w].sub, j.asked = job[w].asked, j.matched \subseteq job[w].matched,
         j.view \in Views(w),
         j.pc = "retry" => retry[j.sub] # <<>>,
         j.pc = "insert" => j.want > 0 /\ j.hand < Len(Log[TopicOf[j.sub]])
  PROVE  SoundInv'
<1>1. job[w] \in Job /\ job[w].sub \in Subscription /\ JobSound(job[w])
  BY JobFields
<1>2. /\ j.view \in View
      /\ \A r \in j.view.rows : Faithful(r)
      /\ \A s \in j.view.retried : retry[s] # <<>>
  BY ViewsSound
<1>3. \A s \in j.view.retried : retry'[s] # <<>>
  BY <1>2 DEF Grows, View
<1>4. /\ j.asked \subseteq delivered'[j.sub] \cup strayed'[j.sub]
      /\ j.pc = "retry" => retry'[j.sub] # <<>>
  BY <1>1 DEF JobSound, Grows
<1>5. JobSoundNext(j)
  BY <1>1, <1>2, <1>3, <1>4 DEF JobSoundNext, JobSound
<1> QED
  BY <1>5, SoundFromParts

LEMMA EndSound ==
  ASSUME SoundInv, Grows, Rest, NEW w \in Worker, Becomes(w, Idle)
  PROVE  SoundInv'
BY IdleSound, SoundFromParts

\* A consumer starts: nothing is in hand.
LEMMA StartConsumerSound ==
  ASSUME SoundInv, Grows, NEW w \in Worker, NEW j \in Job, StartConsumer(w, j),
         owner' \in [Subscription -> Worker \cup {NoWorker}] => Rest,
         j.sub = job[w].sub, j.asked = job[w].asked, j.matched \subseteq job[w].matched,
         j.view \in Views(w)
  PROVE  SoundInv'
<1> DEFINE k == [j EXCEPT !.pc = "consume", !.decision = Idle.decision, !.hit = 0,
                          !.polls = PollLimit, !.detector = clock]
<1>1. Idle.decision \in Decision
  BY IdleSound DEF Job
<1>2. /\ k \in Job
      /\ k.pc = "consume" /\ k.sub = j.sub /\ k.asked = j.asked
      /\ k.matched = j.matched /\ k.view = j.view
  <2>1. clock \in Nat
    BY DEF SoundInv, TypeOK
  <2> QED
    BY <1>1, <2>1 DEF Job
<1>3. Becomes(w, k) /\ Rebalance(j.sub)
  BY DEF StartConsumer
<1>4. j.sub \in Subscription
  BY DEF Job
<1>5. Rest
  BY <1>3, <1>4, RebalanceType
<1> HIDE DEF k
<1> QED
  BY <1>2, <1>3, <1>5, EditSound

LEMMA FailSound == ASSUME SoundInv, NEW w \in Worker, Fail(w) PROVE SoundInv'
<1>1. /\ clock' = clock /\ ackIds' = ackIds /\ nextId' = nextId /\ retry' = retry
      /\ committed' = committed /\ delivered' = delivered /\ requests' = requests
      /\ claimed' = claimed /\ strayed' = strayed
  BY DEF Fail, dbVars, obsVars
<1>2. Finish(w)
  BY DEF Fail
<1>3. Rest /\ Grows
  BY <1>1, <1>2, RestUnchanged, FinishSound DEF Rest
<1> QED
  BY <1>2, <1>3, FinishSound, EndSound

LEMMA DeleteBatchSound == ASSUME SoundInv, NEW w \in Worker, DeleteBatch(w) PROVE SoundInv'
<1>1. /\ clock' = clock /\ nextId' = nextId /\ retry' = retry
      /\ committed' = committed /\ delivered' = delivered /\ requests' = requests
      /\ claimed' = claimed /\ strayed' = strayed
  BY DEF DeleteBatch, obsVars
<1>2. Finish(w) /\ ackIds' \subseteq ackIds
  BY DEF DeleteBatch
<1>3. ackIds' \in SUBSET Row /\ \A r \in ackIds' : Faithful(r)
  BY <1>2 DEF SoundInv, TypeOK
<1>4. Rest /\ Grows
  BY <1>1, <1>2, <1>3, RestUnchanged, FinishSound DEF Rest
<1> QED
  BY <1>2, <1>4, FinishSound, EndSound

\* A row keeps what Faithful looks at when its status or time changes.
LEMMA RowTimed ==
  ASSUME NEW r \in Row, Faithful(r), NEW t \in Int
  PROVE  [r EXCEPT !.time = t] \in Row /\ Faithful([r EXCEPT !.time = t])
BY DEF Row, Faithful

LEMMA RowExpired ==
  ASSUME NEW r \in Row, Faithful(r)
  PROVE  [r EXCEPT !.status = "unAck"] \in Row /\ Faithful([r EXCEPT !.status = "unAck"])
BY DEF Row, Faithful

LEMMA DeliverSound == ASSUME SoundInv, NEW w \in Worker, Deliver(w) PROVE SoundInv'
<1> DEFINE j == job[w]
           upd(r) == IF r.time = j.detector THEN [r EXCEPT !.time = Stored(clock)] ELSE r
<1>1. /\ clock' = clock /\ nextId' = nextId /\ retry' = retry
      /\ committed' = committed /\ requests' = requests /\ claimed' = claimed /\ strayed' = strayed
  BY DEF Deliver
<1>2. ackIds' = {upd(r) : r \in ackIds} /\ Finish(w)
  BY DEF Deliver
<1>3. ackIds' \in SUBSET Row /\ \A r \in ackIds' : Faithful(r)
  <2>1. Stored(clock) \in Int
    BY StoredType DEF SoundInv, TypeOK
  <2>2. ASSUME NEW r \in ackIds PROVE upd(r) \in Row /\ Faithful(upd(r))
    BY <2>1, RowTimed DEF SoundInv, TypeOK
  <2> QED
    BY <1>2, <2>2
<1>4. /\ j.sub \in Subscription /\ j.got \subseteq AckId
      /\ delivered \in [Subscription -> SUBSET AckId]
  BY JobFields DEF Job, SoundInv, TypeOK
<1>5. /\ delivered' \in [Subscription -> SUBSET AckId]
      /\ \A s \in Subscription : delivered[s] \subseteq delivered'[s]
  <2>1. delivered' = [delivered EXCEPT ![j.sub] = @ \cup j.got]
    BY DEF Deliver
  <2> QED
    BY <1>4, <2>1
<1>6. CommitsFollowDelivery'
  BY <1>1, <1>5 DEF CommitsFollowDelivery, SoundInv
<1>7. Rest /\ Grows
  BY <1>1, <1>2, <1>3, <1>5, <1>6, RestUnchanged, FinishSound DEF Rest, Grows
<1> QED
  BY <1>2, <1>7, FinishSound, EndSound

LEMMA PollNothingSound == ASSUME SoundInv, NEW w \in Worker, PollNothing(w) PROVE SoundInv'
<1> DEFINE j == [job[w] EXCEPT !.polls = @ - 1]
<1>1. /\ clock' = clock /\ ackIds' = ackIds /\ nextId' = nextId /\ retry' = retry
      /\ committed' = committed /\ owner' = owner /\ delivered' = delivered
      /\ requests' = requests /\ claimed' = claimed /\ strayed' = strayed
  BY DEF PollNothing, dbVars, kafkaVars, obsVars
<1>2. Rest /\ Grows
  BY <1>1, RestUnchanged DEF Rest
<1>3. job[w] \in Job /\ job[w].pc = "consume" /\ job[w].polls > 0
  BY JobFields DEF PollNothing, Polling
<1>4. /\ j \in Job /\ j.pc = "consume" /\ j.sub = job[w].sub
      /\ j.asked = job[w].asked /\ j.matched = job[w].matched /\ j.view = job[w].view
  <2>1. job[w].polls \in Nat /\ job[w].polls - 1 \in Nat
    BY <1>3, JobNumbers
  <2>2. PICK n \in Nat : n = job[w].polls - 1
    BY <2>1
  <2>3. j = [job[w] EXCEPT !.polls = n]
    BY <2>2
  <2> HIDE DEF j
  <2> QED
    BY <1>3, <2>3 DEF Job
<1>5. Becomes(w, j)
  BY DEF PollNothing
<1> HIDE DEF j
<1> QED
  BY <1>2, <1>4, <1>5, EditSound DEF Views

LEMMA AssignSound == ASSUME SoundInv, NEW w \in Worker, Assign(w) PROVE SoundInv'
<1> DEFINE j == [job[w] EXCEPT !.pos = committed[job[w].sub][TopicFor(w)]]
<1>1. /\ clock' = clock /\ ackIds' = ackIds /\ nextId' = nextId /\ retry' = retry
      /\ committed' = committed /\ delivered' = delivered
      /\ requests' = requests /\ claimed' = claimed /\ strayed' = strayed
  BY DEF Assign, dbVars, obsVars
<1>2. job[w] \in Job /\ job[w].sub \in Subscription /\ TopicFor(w) \in Topic
  BY JobFields DEF TopicFor
<1>3. owner' \in [Subscription -> Worker \cup {NoWorker}]
  BY <1>2 DEF Assign, SoundInv, TypeOK
<1>4. Rest /\ Grows
  BY <1>1, <1>3, RestUnchanged DEF Rest
<1>5. committed[job[w].sub][TopicFor(w)] \in Nat
  BY <1>2 DEF SoundInv, TypeOK
<1>6. /\ j \in Job /\ j.pc = job[w].pc /\ j.sub = job[w].sub
      /\ j.want = job[w].want /\ j.hand = job[w].hand
      /\ j.asked = job[w].asked /\ j.matched = job[w].matched /\ j.view = job[w].view
  BY <1>2, <1>5 DEF Job
<1>7. Becomes(w, j)
  BY DEF Assign
<1>8. /\ j.pc # "retry"
      /\ j.pc = "insert" => j.want > 0 /\ j.hand < Len(Log[TopicOf[j.sub]])
  BY <1>6, JobFields DEF JobSound, Assign
<1> HIDE DEF j
<1> QED
  BY <1>4, <1>6, <1>7, <1>8, EditSound DEF Views

LEMMA PollMessageSound == ASSUME SoundInv, NEW w \in Worker, PollMessage(w) PROVE SoundInv'
<1> DEFINE skip == [job[w] EXCEPT !.pos = @ + 1, !.view = Seen(w)]
           take == [job[w] EXCEPT !.pc = "insert", !.pos = @ + 1, !.hand = job[w].pos,
                                  !.view = Seen(w)]
<1>1. /\ clock' = clock /\ ackIds' = ackIds /\ nextId' = nextId /\ retry' = retry
      /\ committed' = committed /\ owner' = owner /\ delivered' = delivered
      /\ requests' = requests /\ claimed' = claimed /\ strayed' = strayed
  BY DEF PollMessage, dbVars, kafkaVars, obsVars
<1>2. Rest /\ Grows
  BY <1>1, RestUnchanged DEF Rest
<1>3. /\ job[w] \in Job /\ job[w].pc = "consume" /\ job[w].want > 0
      /\ job[w].pos < Len(Log[TopicOf[job[w].sub]]) /\ Seen(w) \in View
  BY JobFields, SeenSound DEF PollMessage, Polling, TopicFor
<1>pos. PICK n \in Nat : n = job[w].pos + 1 /\ job[w].pos \in Nat
  BY JobNumbers
<1>4. Becomes(w, skip) \/ Becomes(w, take)
  BY DEF PollMessage
<1>5. CASE Becomes(w, skip)
  <2>1. /\ skip \in Job /\ skip.pc = "consume" /\ skip.sub = job[w].sub
        /\ skip.asked = job[w].asked /\ skip.matched = job[w].matched
        /\ skip.view = Seen(w)
    <3>1. skip = [job[w] EXCEPT !.pos = n, !.view = Seen(w)]
      BY <1>pos
    <3> HIDE DEF skip
    <3> QED
      BY <1>3, <3>1 DEF Job
  <2> HIDE DEF skip
  <2> QED
    BY <1>2, <1>5, <2>1, EditSound DEF Views
<1>6. CASE Becomes(w, take)
  <2>1. /\ take \in Job /\ take.pc = "insert" /\ take.sub = job[w].sub /\ take.want = job[w].want
        /\ take.hand = job[w].pos /\ take.asked = job[w].asked
        /\ take.matched = job[w].matched /\ take.view = Seen(w)
    <3>1. take = [job[w] EXCEPT !.pc = "insert", !.pos = n, !.hand = job[w].pos,
                                !.view = Seen(w)]
      BY <1>pos
    <3> HIDE DEF take
    <3> QED
      BY <1>3, <1>pos, <3>1 DEF Job
  <2> HIDE DEF take
  <2> QED
    BY <1>2, <1>3, <1>6, <2>1, EditSound DEF Views
<1> QED
  BY <1>4, <1>5, <1>6

LEMMA CommitOffsetSound == ASSUME SoundInv, NEW w \in Worker, CommitOffset(w) PROVE SoundInv'
<1>1. /\ clock' = clock /\ ackIds' = ackIds /\ nextId' = nextId /\ retry' = retry
      /\ owner' = owner /\ delivered' = delivered
      /\ requests' = requests /\ claimed' = claimed /\ strayed' = strayed
  BY DEF CommitOffset, dbVars, obsVars
<1>2. PICK r \in job[w].matched :
        /\ committed' = [committed EXCEPT ![job[w].sub][r.topic] = NextOffset(r)]
        /\ Becomes(w, [job[w] EXCEPT !.matched = @ \ {r}])
  BY DEF CommitOffset
<1> DEFINE j == [job[w] EXCEPT !.matched = @ \ {r}]
           s == job[w].sub
<1>3. /\ job[w] \in Job /\ s \in Subscription /\ r \in Row
      /\ Faithful(r) /\ r.ackId \in job[w].asked
      /\ job[w].asked \subseteq delivered[s] \cup strayed[s]
      /\ job[w].pc = "commit"
  BY JobFields DEF Job, JobSound, CommitOffset
<1>4. /\ r.topic \in Topic /\ r.offset \in Nat /\ NextOffset(r) = r.offset + 1
      /\ r.offset < Len(Log[r.topic]) /\ r.ackId = Log[r.topic][r.offset + 1]
  BY <1>3 DEF Row, Faithful, NextOffset
<1>5. committed \in [Subscription -> [Topic -> Nat]]
  BY DEF SoundInv, TypeOK
<1>6. /\ committed' \in [Subscription -> [Topic -> Nat]]
      /\ \A q \in Subscription, t \in Topic :
           committed'[q][t] = IF q = s /\ t = r.topic THEN r.offset + 1
                                                      ELSE committed[q][t]
  <2>1. PICK n \in Nat : n = r.offset + 1
    BY <1>4
  <2>2. committed' = [committed EXCEPT ![s][r.topic] = n]
    BY <1>2, <1>4, <2>1
  <2>3. /\ committed' \in [Subscription -> [Topic -> Nat]]
        /\ \A q \in Subscription, t \in Topic :
             committed'[q][t] = IF q = s /\ t = r.topic THEN n ELSE committed[q][t]
    BY <1>3, <1>4, <1>5, <2>2
  <2> QED
    BY <2>1, <2>3
<1>7. CommitsFollowDelivery'
  <2> SUFFICES ASSUME NEW q \in Subscription, NEW t \in Topic, committed'[q][t] > 0
               PROVE  \E a \in delivered[q] \cup strayed[q] :
                        /\ committed'[q][t] \in 1..Len(Log[t])
                        /\ a = Log[t][committed'[q][t]]
    BY <1>1 DEF CommitsFollowDelivery
  <2>1. CASE q = s /\ t = r.topic
    <3>1. Len(Log[t]) \in Nat
      OBVIOUS
    <3>2. committed'[q][t] = r.offset + 1
      BY <1>6, <2>1
    <3>3. r.offset + 1 \in 1..Len(Log[t])
      BY <1>4, <2>1, <3>1
    <3>4. r.ackId \in delivered[q] \cup strayed[q]
      BY <1>3, <2>1
    <3> QED
      BY <1>4, <2>1, <3>2, <3>3, <3>4
  <2>2. CASE ~(q = s /\ t = r.topic)
    <3>1. committed'[q][t] = committed[q][t]
      BY <1>6, <2>2
    <3> QED
      BY <3>1 DEF SoundInv, CommitsFollowDelivery
  <2> QED
    BY <2>1, <2>2
<1>8. Rest /\ Grows
  BY <1>1, <1>6, <1>7, RestUnchanged DEF Rest
<1>9. /\ j \in Job /\ j.pc = "commit" /\ j.sub = s /\ j.asked = job[w].asked
      /\ j.matched \subseteq job[w].matched /\ j.view = job[w].view
  BY <1>3 DEF Job
<1> HIDE DEF j
<1> QED
  BY <1>2, <1>8, <1>9, EditSound DEF j, Views

LEMMA InsertRowSound == ASSUME SoundInv, NEW w \in Worker, InsertRow(w) PROVE SoundInv'
<1> DEFINE a == Log[TopicFor(w)][job[w].hand + 1]
           row == [id |-> nextId, ackId |-> a, sub |-> job[w].sub,
                   topic |-> TopicFor(w), offset |-> job[w].hand,
                   time |-> Stored(job[w].detector), status |-> "deadLine"]
           j == [job[w] EXCEPT !.pc = "consume", !.want = @ - 1, !.view = Closed,
                               !.hand = 0, !.got = @ \cup {a}]
<1>1. /\ clock' = clock /\ retry' = retry /\ committed' = committed
      /\ owner' = owner /\ delivered' = delivered /\ requests' = requests
      /\ strayed' = strayed
  BY DEF InsertRow, kafkaVars
<1>2. /\ job[w] \in Job /\ job[w].pc = "insert" /\ job[w].want \in Nat \ {0}
      /\ job[w].sub \in Subscription /\ job[w].hand \in Nat /\ job[w].detector \in Nat
      /\ TopicFor(w) \in Topic /\ job[w].hand < Len(Log[TopicFor(w)])
  <2>1. /\ job[w] \in Job /\ job[w].pc = "insert" /\ job[w].sub \in Subscription
        /\ JobSound(job[w])
    BY JobFields DEF InsertRow
  <2>2. job[w].want \in Nat /\ job[w].hand \in Nat /\ job[w].detector \in Nat
    BY JobNumbers
  <2>3. job[w].want > 0 /\ job[w].hand < Len(Log[TopicFor(w)])
    BY <2>1 DEF JobSound, TopicFor
  <2>4. TopicFor(w) \in Topic
    BY <2>1 DEF TopicFor
  <2> QED
    BY <2>1, <2>2, <2>3, <2>4
<1>3. a \in AckId
  <2>1. Log[TopicFor(w)] \in Seq(AckId)
    BY <1>2
  <2>2. job[w].hand + 1 \in 1..Len(Log[TopicFor(w)])
    BY <1>2, <2>1, SMTT(30)
  <2> QED
    BY <2>1, <2>2
<1>4. row \in Row /\ Faithful(row)
  <2>1. Stored(job[w].detector) \in Int /\ nextId \in Nat
    <3>1. job[w].detector \in Int
      BY <1>2
    <3>2. Stored(job[w].detector) \in Int
      BY <3>1, StoredType
    <3>3. nextId \in Nat
      BY DEF SoundInv, TypeOK
    <3> QED
      BY <3>2, <3>3
  <2>2. row \in Row
    BY <1>2, <1>3, <2>1 DEF Row
  <2>3. Faithful(row)
    BY <1>2 DEF Faithful
  <2> QED
    BY <2>2, <2>3
<1>5. ackIds' = ackIds \cup {row}
  BY DEF InsertRow
<1>6. nextId' \in Nat /\ claimed' \in SUBSET (Topic \X Nat)
  <2>1. nextId' = nextId + 1 /\ claimed' = claimed \cup {<<TopicFor(w), job[w].hand>>}
    BY DEF InsertRow
  <2>2. nextId \in Nat /\ claimed \in SUBSET (Topic \X Nat)
    BY DEF SoundInv, TypeOK
  <2>3. <<TopicFor(w), job[w].hand>> \in Topic \X Nat
    BY <1>2
  <2> QED
    BY <2>1, <2>2, <2>3
<1>7. ackIds' \in SUBSET Row /\ \A r \in ackIds' : Faithful(r)
  <2> HIDE DEF row
  <2> QED
    BY <1>4, <1>5, SMTT(30) DEF SoundInv, TypeOK
<1>8. Rest /\ Grows
  BY <1>1, <1>6, <1>7, RestUnchanged DEF Rest
<1>9. /\ j \in Job /\ j.pc = "consume" /\ j.sub = job[w].sub
      /\ j.asked = job[w].asked /\ j.matched = job[w].matched /\ j.view = Closed
  <2>1. PICK n \in Nat : n = job[w].want - 1
    BY <1>2, SMTT(30)
  <2>2. PICK got \in SUBSET AckId : got = job[w].got \cup {a}
    <3>1. job[w].got \in SUBSET AckId
      BY <1>2 DEF Job
    <3> QED
      BY <1>3, <3>1
  <2>3. j = [job[w] EXCEPT !.pc = "consume", !.want = n, !.view = Closed,
                           !.hand = 0, !.got = got]
    BY <2>1, <2>2
  <2>4. Closed \in View
    BY DEF Closed, View
  <2> HIDE DEF j
  <2> QED
    BY <1>2, <2>3, <2>4 DEF Job
<1>10. Becomes(w, j)
  BY DEF InsertRow
<1> HIDE DEF j
<1> QED
  BY <1>8, <1>9, <1>10, EditSound DEF Views

LEMMA MatchSound == ASSUME SoundInv, NEW w \in Worker, Match(w) PROVE SoundInv'
<1>1. /\ clock' = clock /\ ackIds' = ackIds /\ nextId' = nextId /\ retry' = retry
      /\ committed' = committed /\ delivered' = delivered
      /\ requests' = requests /\ claimed' = claimed /\ strayed' = strayed
  BY DEF Match, dbVars, obsVars
<1>2. CASE Finish(w)
  <2>1. Rest /\ Grows
    BY <1>1, <1>2, RestUnchanged, FinishSound DEF Rest
  <2> QED
    BY <1>2, <2>1, FinishSound, EndSound
<1>3. ASSUME NEW first \in MatchedRows(w),
             Becomes(w, [job[w] EXCEPT !.pc = "commit", !.view = Closed,
                           !.matched = MatchedRows(w), !.uniqueTime = first.time]),
             Rebalance(job[w].sub)
      PROVE  SoundInv'
  <2> DEFINE rows == MatchedRows(w)
             t == first.time
             j == [job[w] EXCEPT !.pc = "commit", !.view = Closed, !.matched = rows,
                                 !.uniqueTime = t]
  <2>1. rows \subseteq Row /\ \A r \in rows : Faithful(r) /\ r.ackId \in job[w].asked
    BY SeenSound DEF MatchedRows, Outstanding, View
  <2>2. t \in Int
    BY <2>1 DEF Row
  <2>3. job[w] \in Job /\ job[w].sub \in Subscription /\ Closed \in View
    BY JobFields DEF Closed, View
  <2>4. Rest /\ Grows
    BY <1>1, <1>3, <2>3, RestUnchanged, RebalanceType DEF Rest
  <2>5. /\ j \in Job /\ j.pc = "commit" /\ j.sub = job[w].sub
        /\ j.asked = job[w].asked /\ j.matched = rows /\ j.view = Closed
    <3> HIDE DEF rows, t
    <3> QED
      BY <2>1, <2>2, <2>3 DEF Job
  <2>6. JobSoundNext(j)
    <3>1. job[w].asked \subseteq delivered'[job[w].sub] \cup strayed'[job[w].sub]
      BY <1>1, JobFields DEF JobSound
    <3> HIDE DEF j, rows
    <3> QED
      BY <2>1, <2>5, <3>1 DEF JobSoundNext, Closed
  <2>7. Becomes(w, j)
    BY <1>3
  <2> HIDE DEF j
  <2> QED
    BY <2>4, <2>5, <2>6, <2>7, SoundFromParts
<1> QED
  BY <1>2, <1>3 DEF Match

LEMMA ExpireRowSound == ASSUME SoundInv, NEW w \in Worker, ExpireRow(w) PROVE SoundInv'
<1>1. /\ clock' = clock /\ nextId' = nextId /\ retry' = retry
      /\ committed' = committed /\ delivered' = delivered
      /\ requests' = requests /\ claimed' = claimed /\ strayed' = strayed
  BY DEF ExpireRow, obsVars
<1>2. job[w] \in Job /\ job[w].pc = "expire" /\ Seen(w) \in View /\ Closed \in View
  BY JobFields, SeenSound DEF ExpireRow, Closed, View
<1>3. ASSUME NEW i \in job[w].pending, NEW v \in {Seen(w), Closed},
             Becomes(w, [job[w] EXCEPT !.pending = job[w].pending \ {i}, !.view = v]),
             UNCHANGED owner, ackIds' \in SUBSET Row, \A r \in ackIds' : Faithful(r)
      PROVE  SoundInv'
  <2> DEFINE rest == job[w].pending \ {i}
             j == [job[w] EXCEPT !.pending = rest, !.view = v]
  <2>1. rest \in SUBSET Nat
    BY <1>2 DEF Job
  <2>2. /\ j \in Job /\ j.pc = "expire" /\ j.sub = job[w].sub
        /\ j.asked = job[w].asked /\ j.matched = job[w].matched /\ j.view = v
    <3> HIDE DEF rest
    <3> QED
      BY <1>2, <2>1 DEF Job
  <2>3. Rest /\ Grows
    BY <1>1, <1>3, RestUnchanged DEF Rest
  <2>4. Becomes(w, j)
    BY <1>3
  <2> HIDE DEF j
  <2> QED
    BY <2>2, <2>3, <2>4, EditSound DEF Views
<1>4. ASSUME NEW r \in ackIds, ackIds' = (ackIds \ {r}) \cup {[r EXCEPT !.status = "unAck"]}
      PROVE  ackIds' \in SUBSET Row /\ \A q \in ackIds' : Faithful(q)
  <2>1. /\ [r EXCEPT !.status = "unAck"] \in Row
        /\ Faithful([r EXCEPT !.status = "unAck"])
    BY RowExpired DEF SoundInv, TypeOK
  <2> QED
    BY <1>4, <2>1 DEF SoundInv, TypeOK
<1>5. CASE Finish(w) /\ UNCHANGED ackIds
  <2>1. Rest /\ Grows
    BY <1>1, <1>5, RestUnchanged, FinishSound DEF Rest
  <2> QED
    BY <1>5, <2>1, FinishSound, EndSound
<1>6. UNCHANGED ackIds => ackIds' \in SUBSET Row /\ \A q \in ackIds' : Faithful(q)
  BY RestUnchanged
<1> QED
  BY <1>3, <1>4, <1>5, <1>6, Zenon DEF ExpireRow

LEMMA RetryRegisterSound == ASSUME SoundInv, NEW w \in Worker, RetryRegister(w) PROVE SoundInv'
<1> DEFINE s == job[w].sub
           row == [first |-> Stored(clock), hit |-> 0]
           j == [job[w] EXCEPT !.view = Closed]
<1>1. /\ clock' = clock /\ ackIds' = ackIds /\ nextId' = nextId
      /\ committed' = committed /\ delivered' = delivered
      /\ requests' = requests /\ claimed' = claimed /\ strayed' = strayed
  BY DEF RetryRegister, obsVars
<1>2. /\ job[w] \in Job /\ s \in Subscription
      /\ retry \in [Subscription -> Seq(RetryRow)]
  BY JobFields DEF SoundInv, TypeOK
<1>3. row \in RetryRow
  <2>1. Stored(clock) \in Int
    BY StoredType DEF SoundInv, TypeOK
  <2> QED
    BY <2>1 DEF RetryRow
<1>4. retry' = [retry EXCEPT ![s] = Append(retry[s], row)]
  BY DEF RetryRegister
<1>5. /\ Append(retry[s], row) \in Seq(RetryRow)
      /\ Append(retry[s], row) # <<>>
  <2>1. retry[s] \in Seq(RetryRow)
    BY <1>2
  <2> HIDE DEF row, s
  <2> QED
    BY <1>3, <2>1, AppendNonEmpty
<1>6. /\ retry' \in [Subscription -> Seq(RetryRow)]
      /\ \A q \in Subscription : retry[q] # <<>> => retry'[q] # <<>>
  <2> HIDE DEF row, s
  <2> QED
    BY <1>2, <1>4, <1>5
<1>7. Grows /\ (owner' \in [Subscription -> Worker \cup {NoWorker}] => Rest)
  BY <1>1, <1>6, RestUnchanged DEF Rest, Grows
<1>8. /\ j \in Job /\ j.sub = job[w].sub /\ j.asked = job[w].asked
      /\ j.matched = job[w].matched /\ j.view = Closed
  <2>1. Closed \in View
    BY DEF Closed, View
  <2> QED
    BY <1>2, <2>1 DEF Job
<1>9. StartConsumer(w, j)
  BY DEF RetryRegister
<1> HIDE DEF j
<1> QED
  BY <1>7, <1>8, <1>9, StartConsumerSound DEF Views

\* The rows of a subscription that is seen to be registered.
LEMMA RetryRowType ==
  ASSUME SoundInv, NEW w \in Worker, job[w].sub \in Seen(w).retried
  PROVE  /\ retry[job[w].sub][1].first \in Int
         /\ retry[job[w].sub][1].hit \in Nat
         /\ clock - retry[job[w].sub][1].first \in Int
<1>1. job[w].sub \in Subscription
  BY JobFields
<1>2. retry[job[w].sub] \in Seq(RetryRow) /\ retry[job[w].sub] # <<>>
  BY <1>1, SeenSound DEF SoundInv, TypeOK
<1>3. retry[job[w].sub][1] \in RetryRow
  BY <1>2
<1> DEFINE f == retry[job[w].sub][1].first
<1>4. f \in Int /\ retry[job[w].sub][1].hit \in Nat
  BY <1>3 DEF RetryRow
<1> HIDE DEF f
<1>5. clock - f \in Int
  BY <1>4 DEF SoundInv, TypeOK
<1> QED
  BY <1>4, <1>5 DEF f

LEMMA RetryCheckSound == ASSUME SoundInv, NEW w \in Worker, RetryCheck(w) PROVE SoundInv'
<1> DEFINE s == job[w].sub
           d == RetryDecision(clock - retry[s][1].first, retry[s][1].hit,
                              MinBackoff[s], MaxBackoff[s], AckDeadline[s])
<1>1. /\ clock' = clock /\ ackIds' = ackIds /\ nextId' = nextId /\ retry' = retry
      /\ committed' = committed /\ delivered' = delivered
      /\ requests' = requests /\ claimed' = claimed /\ strayed' = strayed
  BY DEF RetryCheck, dbVars, obsVars
<1>2. Grows /\ (owner' \in [Subscription -> Worker \cup {NoWorker}] => Rest)
  BY <1>1, RestUnchanged DEF Rest
<1>3. job[w] \in Job /\ s \in Subscription /\ clock \in Nat
  BY JobFields DEF SoundInv, TypeOK
<1>4. Closed \in View /\ Snapshot \in View
  BY ViewsSound DEF Views
<1>5. d \in Decision /\ retry[s][1].hit \in Nat
  <2>1. /\ clock - retry[s][1].first \in Int
        /\ retry[s][1].hit \in Nat
    BY RetryRowType DEF RetryCheck
  <2>2. MinBackoff[s] \in Nat /\ MaxBackoff[s] \in Nat /\ AckDeadline[s] \in Nat
    BY <1>3
  <2> QED
    BY <2>1, <2>2, RetryDecisionType
<1> HIDE DEF d
<1>6. CASE StartConsumer(w, [job[w] EXCEPT !.view = Snapshot])
  <2> DEFINE j == [job[w] EXCEPT !.view = Snapshot]
  <2>1. /\ j \in Job /\ j.sub = job[w].sub /\ j.asked = job[w].asked
        /\ j.matched = job[w].matched /\ j.view = Snapshot
    BY <1>3, <1>4 DEF Job
  <2> HIDE DEF j
  <2> QED
    BY <1>2, <1>6, <2>1, StartConsumerSound DEF j, Views
<1>7. CASE /\ Becomes(w, [job[w] EXCEPT !.pc = "retry", !.decision = d, !.view = Closed,
                                     !.hit = retry[s][1].hit, !.detector = clock])
           /\ UNCHANGED owner
  <2> DEFINE hit == retry[s][1].hit
             j == [job[w] EXCEPT !.pc = "retry", !.decision = d, !.view = Closed,
                                 !.hit = hit, !.detector = clock]
  <2>1. /\ j \in Job /\ j.pc = "retry" /\ j.sub = job[w].sub
        /\ j.asked = job[w].asked /\ j.matched = job[w].matched /\ j.view = Closed
    <3>1. hit \in Nat
      BY <1>5
    <3> HIDE DEF hit
    <3> QED
      BY <1>3, <1>4, <1>5, <3>1 DEF Job
  <2>2. Rest
    BY <1>2, <1>7, RestUnchanged
  <2>3. retry[s] # <<>>
    BY SeenSound DEF RetryCheck
  <2> HIDE DEF j
  <2> QED
    BY <1>2, <1>7, <2>1, <2>2, <2>3, EditSound DEF j, Views
<1>8. CASE Finish(w)
  BY <1>2, <1>8, FinishSound, EndSound
<1>9. CASE Becomes(w, [job[w] EXCEPT !.pc = "hung"]) /\ UNCHANGED owner
  <2> DEFINE j == [job[w] EXCEPT !.pc = "hung"]
  <2>1. /\ j \in Job /\ j.pc = "hung" /\ j.sub = job[w].sub
        /\ j.asked = job[w].asked /\ j.matched = job[w].matched /\ j.view = job[w].view
    BY <1>3 DEF Job
  <2>2. Rest
    BY <1>2, <1>9, RestUnchanged
  <2> HIDE DEF j
  <2> QED
    BY <1>2, <1>9, <2>1, <2>2, EditSound DEF j, Views
<1> QED
  BY <1>6, <1>7, <1>8, <1>9 DEF RetryCheck, d

LEMMA RetryCommitSound == ASSUME SoundInv, NEW w \in Worker, RetryCommit(w) PROVE SoundInv'
<1> DEFINE s == job[w].sub
           d == job[w].decision
           new == IF d.kind = "reset"
                  THEN [first |-> Stored(job[w].detector),
                        hit |-> IF job[w].hit = 0 THEN retry[s][1].hit ELSE 0]
                  ELSE [retry[s][1] EXCEPT !.hit = d.slot]
<1>1. /\ clock' = clock /\ ackIds' = ackIds /\ nextId' = nextId
      /\ committed' = committed /\ delivered' = delivered
      /\ requests' = requests /\ claimed' = claimed /\ strayed' = strayed
  BY DEF RetryCommit, obsVars
<1>2. /\ job[w] \in Job /\ s \in Subscription /\ retry \in [Subscription -> Seq(RetryRow)]
  BY JobFields DEF SoundInv, TypeOK
<1>3. retry' = [retry EXCEPT ![s][1] = new]
  BY DEF RetryCommit
<1>4. retry[s] \in Seq(RetryRow) /\ retry[s] # <<>>
  BY <1>2, JobFields DEF RetryCommit, JobSound
<1>5. new \in RetryRow
  <2>1. Stored(job[w].detector) \in Int
    <3>1. job[w].detector \in Int
      BY <1>2 DEF Job
    <3> QED
      BY <3>1, StoredType
  <2>2. d.slot \in Nat
    BY <1>2 DEF Job, Decision
  <2>3. retry[s][1] \in RetryRow
    BY <1>4
  <2> QED
    BY <2>1, <2>2, <2>3 DEF RetryRow
<1>6. /\ retry' \in [Subscription -> Seq(RetryRow)]
      /\ \A q \in Subscription : retry[q] # <<>> => retry'[q] # <<>>
  <2> HIDE DEF new, s
  <2> DEFINE rows == [retry[s] EXCEPT ![1] = new]
  <2>1. retry' = [retry EXCEPT ![s] = rows]
    BY <1>3
  <2>2. rows \in Seq(RetryRow) /\ rows # <<>>
    <3>1. 1 \in 1..Len(retry[s])
      BY <1>4
    <3>2. rows \in Seq(RetryRow) /\ Len(rows) = Len(retry[s])
      BY <1>4, <1>5, <3>1, ExceptSeq
    <3> QED
      BY <1>4, <3>2, EmptySeq
  <2> HIDE DEF rows
  <2> QED
    BY <1>2, <2>1, <2>2
<1>7. Grows /\ (owner' \in [Subscription -> Worker \cup {NoWorker}] => Rest)
  BY <1>1, <1>6, RestUnchanged DEF Rest, Grows
<1>8. StartConsumer(w, job[w])
  BY DEF RetryCommit
<1> QED
  BY <1>2, <1>7, <1>8, StartConsumerSound DEF Views

-----------------------------------------------------------------------------
LEMMA SoundStep == SoundInv /\ [Next]_vars => SoundInv'
<1> SUFFICES ASSUME SoundInv, [Next]_vars PROVE SoundInv'
  OBVIOUS
<1>1. CASE Tick
  BY <1>1, TickSound
<1>2. ASSUME NEW w \in Worker, ReceivePull(w) \/ ReceiveAck(w) \/ Step(w) \/ Fail(w)
      PROVE  SoundInv'
  BY <1>2, ReceivePullSound, ReceiveAckSound, FailSound, ExpireRowSound,
     RetryRegisterSound, RetryCheckSound, RetryCommitSound, AssignSound,
     PollMessageSound, PollNothingSound, InsertRowSound, DeliverSound,
     MatchSound, CommitOffsetSound, DeleteBatchSound DEF Step
<1>3. CASE UNCHANGED vars
  BY <1>3 DEF vars, SoundInv, TypeOK, Faithful, JobSound, CommitsFollowDelivery
<1> QED
  BY <1>1, <1>2, <1>3 DEF Next

LEMMA SoundInit == Init => SoundInv
<1> SUFFICES ASSUME Init PROVE SoundInv
  OBVIOUS
<1>1. job \in [Worker -> Job] /\ \A w \in Worker : job[w] = Idle
  BY IdleSound DEF Init
<1>2. TypeOK
  BY <1>1 DEF Init, TypeOK
<1>3. \A w \in Worker : JobSound(job[w])
  BY <1>1 DEF JobSound, Idle, Closed
<1>4. CommitsFollowDelivery
  BY DEF Init, CommitsFollowDelivery
<1> QED
  BY <1>2, <1>3, <1>4 DEF SoundInv, Init

THEOREM Soundness == Spec => []SoundInv
  BY SoundInit, SoundStep, PTL DEF Spec

\* Every variable keeps its type, whatever the workers do.
THEOREM TypeCorrect == Spec => []TypeOK
<1>1. SoundInv => TypeOK
  BY DEF SoundInv
<1> QED
  BY <1>1, Soundness, PTL

\* consumer.commit in acknowledges_the_ack_ids: what the clients of one subscription
\* acknowledge never moves the offset of another one.  The last message a consumer group
\* has committed was delivered to that very subscription, or an acknowledgement of that
\* very subscription had named it without being given it.
THEOREM CommitsFollow == Spec => []CommitsFollowDelivery
<1>1. SoundInv => CommitsFollowDelivery
  BY DEF SoundInv
<1> QED
  BY <1>1, Soundness, PTL


(***************************************************************************)
(* No offset is committed past a message that no pull recorded, what was   *)
(* recorded is delivered, and the retry rows of a subscription are         *)
(* bounded.  ClaimInv, HandInv and RowsInv are each inductive relative to  *)
(* SoundInv, which gives the types and says that a row carries the ackId   *)
(* of the message at its offset.                                           *)
(***************************************************************************)

\* JobClaimed in the next state, of a job that is given.
JobClaimedNext(j) ==
  /\ \A r \in j.view.rows \cup j.matched : <<r.topic, r.offset>> \in claimed'
  /\ j.pc = "insert" => \A o \in 0..(j.hand - 1) : <<TopicOf[j.sub], o>> \in claimed'
  /\ \A o \in 0..(j.pos - 1) :
       (j.pc = "insert" /\ o = j.hand) \/ <<TopicOf[j.sub], o>> \in claimed'

-----------------------------------------------------------------------------
(* Steps that claim nothing.                                               *)

\* One job changes and claimed grows, by nothing in most steps.
LEMMA ClaimFromParts ==
  ASSUME SoundInv, ClaimInv, NEW w \in Worker, NEW j \in Job, Becomes(w, j),
         claimed \subseteq claimed', JobClaimedNext(j)
  PROVE  (\A v \in Worker : JobClaimed(job[v]))'
<1> SUFFICES ASSUME NEW v \in Worker PROVE JobClaimedNext(job'[v])
  BY DEF JobClaimedNext, JobClaimed, Claimed, ClaimedBelow
<1>1. CASE v = w
  BY <1>1 DEF Becomes, SoundInv, TypeOK
<1>2. CASE v # w
  <2>1. job'[v] = job[v]
    BY <1>2 DEF Becomes, SoundInv, TypeOK
  <2>2. JobClaimed(job[v])
    BY DEF ClaimInv
  <2> QED
    BY <2>1, <2>2 DEF JobClaimed, JobClaimedNext, Claimed, ClaimedBelow
<1> QED
  BY <1>1, <1>2

LEMMA ClaimKept ==
  ASSUME SoundInv, ClaimInv, NEW w \in Worker, NEW j \in Job, Becomes(w, j),
         claimed' = claimed, JobClaimed(j), \A r \in ackIds' : Claimed(r),
         CommittedWereClaimed'
  PROVE  ClaimInv'
<1>1. JobClaimedNext(j)
  BY DEF JobClaimed, JobClaimedNext, Claimed, ClaimedBelow
<1>2. (\A v \in Worker : JobClaimed(job[v]))'
  BY <1>1, ClaimFromParts
<1>3. (\A r \in ackIds : Claimed(r))'
  BY DEF Claimed
<1>4. (\A c \in claimed : ClaimedBelow(c[1], c[2]))'
  BY DEF ClaimInv, ClaimedBelow
<1> QED
  BY <1>2, <1>3, <1>4 DEF ClaimInv

LEMMA IdleClaimed == JobClaimed(Idle)
BY DEF JobClaimed, Idle, Closed

\* What a SELECT of a worker returns was claimed.
LEMMA ViewsClaimed ==
  ASSUME SoundInv, ClaimInv, NEW w \in Worker, NEW v \in Views(w)
  PROVE  \A r \in v.rows : Claimed(r)
<1>1. \A r \in job[w].view.rows : Claimed(r)
  BY DEF ClaimInv, JobClaimed
<1>2. \A r \in Snapshot.rows : Claimed(r)
  BY DEF ClaimInv, Snapshot
<1>3. \A r \in Closed.rows : Claimed(r)
  BY DEF Closed
<1>4. Seen(w) = job[w].view \/ Seen(w) = Snapshot
  BY DEF Seen
<1> QED
  BY <1>1, <1>2, <1>3, <1>4 DEF Views

\* The position and the message in hand stay as they were.
LEMMA EditClaimed ==
  ASSUME SoundInv, ClaimInv, NEW w \in Worker, NEW j \in Job,
         j.sub = job[w].sub, j.matched \subseteq job[w].matched, j.view \in Views(w),
         j.pos = job[w].pos, job[w].pc # "insert", j.pc # "insert"
  PROVE  JobClaimed(j)
<1>1. JobClaimed(job[w])
  BY DEF ClaimInv
<1>2. \A r \in j.view.rows : Claimed(r)
  BY ViewsClaimed
<1> QED
  BY <1>1, <1>2 DEF JobClaimed

\* A consumer starts at the position of the job it is given.
LEMMA StartClaimed ==
  ASSUME SoundInv, ClaimInv, NEW w \in Worker, NEW j \in Job, StartConsumer(w, j),
         j.sub = job[w].sub, j.matched \subseteq job[w].matched, j.view \in Views(w),
         j.pos = job[w].pos, job[w].pc # "insert",
         claimed' = claimed, committed' = committed, ackIds' = ackIds
  PROVE  ClaimInv'
<1> DEFINE k == [j EXCEPT !.pc = "consume", !.decision = Idle.decision, !.hit = 0,
                          !.polls = PollLimit, !.detector = clock]
<1>1. Idle.decision \in Decision
  BY IdleSound DEF Job
<1>2. clock \in Nat
  BY DEF SoundInv, TypeOK
<1>3. /\ k \in Job /\ k.pc = "consume" /\ k.sub = j.sub /\ k.pos = j.pos
      /\ k.matched = j.matched /\ k.view = j.view
  BY <1>1, <1>2 DEF Job
<1>4. Becomes(w, k)
  BY DEF StartConsumer
<1> HIDE DEF k
<1>5. JobClaimed(k)
  BY <1>3, EditClaimed
<1>6. (\A r \in ackIds' : Claimed(r)) /\ CommittedWereClaimed'
  BY DEF ClaimInv, CommittedWereClaimed
<1> QED
  BY <1>3, <1>4, <1>5, <1>6, ClaimKept

\* A request ends.
LEMMA EndClaimed ==
  ASSUME SoundInv, ClaimInv, NEW w \in Worker, Finish(w),
         claimed' = claimed, committed' = committed, \A r \in ackIds' : Claimed(r)
  PROVE  ClaimInv'
<1>1. CommittedWereClaimed'
  BY DEF ClaimInv, CommittedWereClaimed
<1>2. Becomes(w, Idle) /\ Idle \in Job
  BY IdleSound DEF Finish
<1> QED
  BY <1>1, <1>2, IdleClaimed, ClaimKept

-----------------------------------------------------------------------------
(* One lemma per action.                                                   *)

LEMMA ReceiveClaimed ==
  ASSUME SoundInv, ClaimInv, NEW w \in Worker, NEW j \in Job, Receive(w, j),
         j.pos = 0, j.matched = {}
  PROVE  ClaimInv'
<1> DEFINE ids == {r.id : r \in Outstanding(ackIds)}
           k == [j EXCEPT !.pc = "expire", !.view = Snapshot, !.pending = ids]
<1>1. ids \in SUBSET Nat
  <2>1. \A r \in Outstanding(ackIds) : r.id \in Nat
    BY DEF Outstanding, SoundInv, TypeOK, Row
  <2> QED
    BY <2>1
<1>2. Snapshot \in View
  BY ViewsSound DEF Views
<1>3. k \in Job /\ k.pc = "expire" /\ k.view = Snapshot /\ k.pos = 0 /\ k.matched = {}
  <2> HIDE DEF ids
  <2> QED
    BY <1>1, <1>2 DEF Job
<1>4. Becomes(w, k)
  BY DEF Receive
<1> HIDE DEF k
<1>5. \A r \in Snapshot.rows : Claimed(r)
  BY DEF ClaimInv, Snapshot
<1>6. JobClaimed(k)
  BY <1>3, <1>5 DEF JobClaimed
<1>7. /\ claimed' = claimed
      /\ \A r \in ackIds' : Claimed(r)
      /\ CommittedWereClaimed'
  BY DEF Receive, dbVars, kafkaVars, ClaimInv, CommittedWereClaimed
<1> QED
  BY <1>3, <1>4, <1>6, <1>7, ClaimKept

LEMMA ReceivePullClaimed ==
  ASSUME SoundInv, ClaimInv, NEW w \in Worker, ReceivePull(w) PROVE ClaimInv'
<1>1. PICK s \in Subscription, n \in 1..MaxMessages :
        Receive(w, [Idle EXCEPT !.op = "pull", !.sub = s, !.want = n])
  BY DEF ReceivePull
<1> DEFINE j == [Idle EXCEPT !.op = "pull", !.sub = s, !.want = n]
<1>2. j \in Job
  <2>1. Idle \in Job /\ n \in Nat
    BY IdleSound
  <2> QED
    BY <2>1 DEF Job
<1>3. j.pos = 0 /\ j.matched = {}
  BY DEF Idle
<1> HIDE DEF j
<1> QED
  BY <1>1, <1>2, <1>3, ReceiveClaimed DEF j

LEMMA ReceiveAckClaimed ==
  ASSUME SoundInv, ClaimInv, NEW w \in Worker, ReceiveAck(w) PROVE ClaimInv'
<1>1. PICK s \in Subscription, A \in SUBSET AckId :
        Receive(w, [Idle EXCEPT !.op = "ack", !.sub = s, !.asked = A, !.since = clock])
  BY DEF ReceiveAck
<1> DEFINE j == [Idle EXCEPT !.op = "ack", !.sub = s, !.asked = A, !.since = clock]
<1>2. j \in Job
  BY IdleSound DEF Job, SoundInv, TypeOK
<1>3. j.pos = 0 /\ j.matched = {}
  BY DEF Idle
<1> HIDE DEF j
<1> QED
  BY <1>1, <1>2, <1>3, ReceiveClaimed DEF j

LEMMA ExpireRowClaimed ==
  ASSUME SoundInv, ClaimInv, NEW w \in Worker, ExpireRow(w) PROVE ClaimInv'
<1>1. claimed' = claimed /\ committed' = committed
  BY DEF ExpireRow, obsVars
<1>2. job[w] \in Job /\ job[w].pc = "expire" /\ Seen(w) \in View /\ Closed \in View
  BY JobFields, SeenSound DEF ExpireRow, Closed, View
<1>3. ASSUME NEW i \in job[w].pending, NEW v \in {Seen(w), Closed},
             Becomes(w, [job[w] EXCEPT !.pending = job[w].pending \ {i}, !.view = v]),
             \A r \in ackIds' : Claimed(r)
      PROVE  ClaimInv'
  <2> DEFINE rest == job[w].pending \ {i}
             j == [job[w] EXCEPT !.pending = rest, !.view = v]
  <2>1. rest \in SUBSET Nat
    BY <1>2 DEF Job
  <2>2. /\ j \in Job /\ j.pc = "expire" /\ j.sub = job[w].sub /\ j.pos = job[w].pos
        /\ j.matched = job[w].matched /\ j.view = v
    <3> HIDE DEF rest
    <3> QED
      BY <1>2, <2>1 DEF Job
  <2>3. Becomes(w, j)
    BY <1>3
  <2> HIDE DEF j
  <2>4. JobClaimed(j)
    BY <1>2, <2>2, EditClaimed DEF Views
  <2>5. CommittedWereClaimed'
    BY <1>1 DEF ClaimInv, CommittedWereClaimed
  <2> QED
    BY <1>1, <1>3, <2>2, <2>3, <2>4, <2>5, ClaimKept
<1>4. ASSUME NEW r \in ackIds, ackIds' = (ackIds \ {r}) \cup {[r EXCEPT !.status = "unAck"]}
      PROVE  \A q \in ackIds' : Claimed(q)
  <2>1. Claimed([r EXCEPT !.status = "unAck"])
    <3>1. r \in Row /\ Claimed(r)
      BY DEF ClaimInv, SoundInv, TypeOK
    <3> QED
      BY <3>1 DEF Row, Claimed
  <2> QED
    BY <1>4, <2>1 DEF ClaimInv
<1>5. UNCHANGED ackIds => \A q \in ackIds' : Claimed(q)
  BY DEF ClaimInv
<1>6. CASE Finish(w) /\ UNCHANGED ackIds
  BY <1>1, <1>5, <1>6, EndClaimed
<1> QED
  BY <1>3, <1>4, <1>5, <1>6, Zenon DEF ExpireRow

LEMMA RetryClaimed ==
  ASSUME SoundInv, ClaimInv, NEW w \in Worker,
         RetryRegister(w) \/ RetryCheck(w) \/ RetryCommit(w)
  PROVE  ClaimInv'
<1>1. claimed' = claimed /\ committed' = committed /\ ackIds' = ackIds
  BY DEF RetryRegister, RetryCheck, RetryCommit, dbVars, obsVars
<1>2. /\ job[w] \in Job /\ job[w].pc # "insert"
      /\ (\A r \in ackIds' : Claimed(r)) /\ CommittedWereClaimed'
  BY <1>1, JobFields DEF RetryRegister, RetryCheck, RetryCommit, AckTableUpdated,
     ClaimInv, CommittedWereClaimed
<1>3. ASSUME NEW v \in {Closed, Snapshot},
             StartConsumer(w, [job[w] EXCEPT !.view = v])
      PROVE  ClaimInv'
  <2> DEFINE j == [job[w] EXCEPT !.view = v]
  <2>1. v \in View
    BY ViewsSound DEF Views
  <2>2. /\ j \in Job /\ j.sub = job[w].sub /\ j.pos = job[w].pos
        /\ j.matched = job[w].matched /\ j.view = v
    BY <1>2, <2>1 DEF Job
  <2> HIDE DEF j
  <2> QED
    BY <1>1, <1>2, <1>3, <2>2, StartClaimed DEF j, Views
<1>4. ASSUME NEW j \in Job, Becomes(w, j), j.sub = job[w].sub, j.pos = job[w].pos,
             j.matched = job[w].matched, j.view \in Views(w), j.pc # "insert"
      PROVE  ClaimInv'
  BY <1>1, <1>2, <1>4, EditClaimed, ClaimKept
<1>5. CASE RetryRegister(w)
  BY <1>3, <1>5 DEF RetryRegister
<1>6. CASE RetryCommit(w)
  BY <1>1, <1>2, <1>6, StartClaimed DEF RetryCommit, Views
<1>7. CASE RetryCheck(w)
  <2> DEFINE s == job[w].sub
             d == RetryDecision(clock - retry[s][1].first, retry[s][1].hit,
                                MinBackoff[s], MaxBackoff[s], AckDeadline[s])
             n == retry[s][1].hit
             e == [job[w] EXCEPT !.pc = "retry", !.decision = d, !.view = Closed,
                                 !.hit = n, !.detector = clock]
             h == [job[w] EXCEPT !.pc = "hung"]
  <2>1. d \in Decision
    <3>1. /\ clock - retry[s][1].first \in Int
          /\ retry[s][1].hit \in Nat
      BY <1>7, RetryRowType DEF RetryCheck
    <3>2. MinBackoff[s] \in Nat /\ MaxBackoff[s] \in Nat /\ AckDeadline[s] \in Nat
      BY JobFields
    <3> QED
      BY <3>1, <3>2, RetryDecisionType
  <2>2. Closed \in View /\ clock \in Nat /\ n \in Nat
    BY <1>7, ViewsSound, RetryRowType DEF Views, SoundInv, TypeOK, RetryCheck
  <2> HIDE DEF d, n
  <2>3. /\ e \in Job /\ e.sub = job[w].sub /\ e.pos = job[w].pos
        /\ e.matched = job[w].matched /\ e.view = Closed /\ e.pc # "insert"
    BY <1>2, <2>1, <2>2 DEF Job
  <2>4. /\ h \in Job /\ h.sub = job[w].sub /\ h.pos = job[w].pos
        /\ h.matched = job[w].matched /\ h.view = job[w].view /\ h.pc # "insert"
    BY <1>2 DEF Job
  <2>5. \/ StartConsumer(w, [job[w] EXCEPT !.view = Snapshot])
        \/ Becomes(w, e) \/ Becomes(w, h) \/ Finish(w)
    BY <1>7 DEF RetryCheck, d, n
  <2> HIDE DEF e, h
  <2> QED
    BY <1>1, <1>2, <1>3, <1>4, <2>3, <2>4, <2>5, EndClaimed DEF Views
<1> QED
  BY <1>5, <1>6, <1>7

LEMMA AssignClaimed ==
  ASSUME SoundInv, ClaimInv, NEW w \in Worker, Assign(w) PROVE ClaimInv'
<1> DEFINE c == committed[job[w].sub][TopicFor(w)]
           j == [job[w] EXCEPT !.pos = c]
<1>1. claimed' = claimed /\ committed' = committed /\ ackIds' = ackIds
  BY DEF Assign, dbVars, obsVars
<1>2. /\ job[w] \in Job /\ job[w].sub \in Subscription /\ TopicFor(w) \in Topic
      /\ JobClaimed(job[w])
  BY JobFields DEF TopicFor, ClaimInv
<1>3. c \in Nat /\ \A o \in 0..(c - 1) : <<TopicFor(w), o>> \in claimed
  BY <1>2 DEF ClaimInv, CommittedWereClaimed, SoundInv, TypeOK
<1> HIDE DEF c
<1>4. /\ j \in Job /\ j.sub = job[w].sub /\ j.pos = c /\ j.pc = job[w].pc
      /\ j.hand = job[w].hand /\ j.matched = job[w].matched /\ j.view = job[w].view
  BY <1>2, <1>3 DEF Job
<1>5. Becomes(w, j)
  BY DEF Assign, c
<1> HIDE DEF j
<1>6. JobClaimed(j)
  BY <1>2, <1>3, <1>4 DEF JobClaimed, TopicFor
<1>7. (\A r \in ackIds' : Claimed(r)) /\ CommittedWereClaimed'
  BY <1>1 DEF ClaimInv, CommittedWereClaimed
<1> QED
  BY <1>1, <1>4, <1>5, <1>6, <1>7, ClaimKept

\* An offset below the length of a sequence names one of its elements.
LEMMA Below == \A x, y \in Nat : x < y => x + 1 \in 1..y
OBVIOUS

\* The message a row under deadline is for, when ackIds tell messages apart.
LEMMA SkippedWasClaimed ==
  ASSUME DistinctAckIds, SoundInv, ClaimInv, NEW w \in Worker,
         job[w].pos < Len(Log[TopicFor(w)]),
         UnderDeadline(w, Log[TopicFor(w)][job[w].pos + 1])
  PROVE  <<TopicFor(w), job[w].pos>> \in claimed
<1> DEFINE t == TopicFor(w)
           n == job[w].pos
<1>1. PICK r \in Seen(w).rows : r.ackId = Log[t][n + 1]
  BY DEF UnderDeadline, Outstanding
<1>2. r \in Row /\ Faithful(r) /\ Claimed(r)
  BY SeenSound, ViewsClaimed DEF Views, View
<1>3. /\ r.topic \in Topic /\ r.offset \in Nat /\ t \in Topic /\ n \in Nat
      /\ r.offset < Len(Log[r.topic]) /\ r.ackId = Log[r.topic][r.offset + 1]
      /\ <<r.topic, r.offset>> \in claimed
  <2>1. job[w] \in Job /\ job[w].sub \in Subscription
    BY JobFields
  <2>2. t \in Topic
    BY <2>1 DEF TopicFor
  <2>3. n \in Nat
    BY <2>1 DEF Job
  <2>4. r.topic \in Topic /\ r.offset \in Nat
    BY <1>2 DEF Row
  <2> QED
    BY <1>2, <2>2, <2>3, <2>4 DEF Faithful, Claimed
<1> HIDE DEF t, n
<1>4. /\ r.offset + 1 \in 1..Len(Log[r.topic])
      /\ n + 1 \in 1..Len(Log[t])
  <2>1. Len(Log[r.topic]) \in Nat /\ Len(Log[t]) \in Nat
    BY <1>3
  <2>2. n < Len(Log[t])
    BY DEF t, n
  <2> QED
    BY <1>3, <2>1, <2>2, Below, Zenon
<1>5. r.topic = t /\ r.offset + 1 = n + 1
  <2>1. PICK i \in 1..Len(Log[r.topic]) : i = r.offset + 1
    BY <1>4
  <2>2. PICK k \in 1..Len(Log[t]) : k = n + 1
    BY <1>4
  <2>3. Log[r.topic][i] = Log[t][k]
    BY <1>1, <1>3, <2>1, <2>2
  <2>4. \A x \in 1..Len(Log[r.topic]), y \in 1..Len(Log[t]) :
          Log[r.topic][x] = Log[t][y] => r.topic = t /\ x = y
    BY <1>3, Zenon DEF DistinctAckIds
  <2>5. r.topic = t /\ i = k
    BY <2>3, <2>4
  <2> QED
    BY <2>1, <2>2, <2>5
<1>6. r.offset = n
  BY <1>3, <1>5
<1> QED
  BY <1>3, <1>5, <1>6 DEF t, n

LEMMA PollMessageClaimed ==
  ASSUME DistinctAckIds, SoundInv, ClaimInv, NEW w \in Worker, PollMessage(w)
  PROVE  ClaimInv'
<1>1. claimed' = claimed /\ committed' = committed /\ ackIds' = ackIds
  BY DEF PollMessage, dbVars, kafkaVars, obsVars
<1>2. (\A r \in ackIds' : Claimed(r)) /\ CommittedWereClaimed'
  BY <1>1 DEF ClaimInv, CommittedWereClaimed
<1>3. /\ job[w] \in Job /\ job[w].pc = "consume" /\ JobClaimed(job[w])
      /\ job[w].pos < Len(Log[TopicFor(w)])
      /\ Seen(w) \in View /\ \A r \in Seen(w).rows : Claimed(r)
  <2>1. job[w].pc = "consume" /\ job[w].pos < Len(Log[TopicFor(w)])
    BY DEF PollMessage, Polling
  <2>2. job[w] \in Job /\ JobClaimed(job[w])
    BY JobFields DEF ClaimInv
  <2>3. Seen(w) \in View /\ \A r \in Seen(w).rows : Claimed(r)
    BY SeenSound, ViewsClaimed DEF Views
  <2> QED
    BY <2>1, <2>2, <2>3
<1>4. PICK n \in Nat : n = job[w].pos + 1 /\ job[w].pos \in Nat
  BY JobNumbers
<1>5. /\ \A r \in job[w].matched : Claimed(r)
      /\ \A o \in 0..(job[w].pos - 1) : <<TopicOf[job[w].sub], o>> \in claimed
  BY <1>3 DEF JobClaimed
<1>6. CASE UnderDeadline(w, Log[TopicFor(w)][job[w].pos + 1])
  <2> DEFINE j == [job[w] EXCEPT !.pos = n, !.view = Seen(w)]
  <2>1. Becomes(w, j)
    BY <1>4, <1>6 DEF PollMessage
  <2>2. /\ j \in Job /\ j.pc = "consume" /\ j.sub = job[w].sub /\ j.pos = n
        /\ j.matched = job[w].matched /\ j.view = Seen(w)
    BY <1>3, <1>4 DEF Job
  <2>3. <<TopicOf[job[w].sub], job[w].pos>> \in claimed
    BY <1>3, <1>6, SkippedWasClaimed DEF TopicFor
  <2> HIDE DEF j
  <2>4. \A o \in 0..(n - 1) : <<TopicOf[j.sub], o>> \in claimed
    <3> SUFFICES ASSUME NEW o \in 0..(n - 1) PROVE <<TopicOf[j.sub], o>> \in claimed
      OBVIOUS
    <3>1. o = job[w].pos \/ o \in 0..(job[w].pos - 1)
      BY <1>4, SMTT(30)
    <3> QED
      BY <1>5, <2>2, <2>3, <3>1
  <2>5. JobClaimed(j)
    BY <1>3, <1>5, <2>2, <2>4 DEF JobClaimed
  <2> QED
    BY <1>1, <1>2, <2>1, <2>2, <2>5, ClaimKept
<1>7. CASE ~UnderDeadline(w, Log[TopicFor(w)][job[w].pos + 1])
  <2> DEFINE j == [job[w] EXCEPT !.pc = "insert", !.pos = n, !.hand = job[w].pos,
                                 !.view = Seen(w)]
  <2>1. Becomes(w, j)
    BY <1>4, <1>7 DEF PollMessage
  <2>2. /\ j \in Job /\ j.pc = "insert" /\ j.sub = job[w].sub /\ j.pos = n
        /\ j.hand = job[w].pos /\ j.matched = job[w].matched /\ j.view = Seen(w)
    BY <1>3, <1>4 DEF Job
  <2> HIDE DEF j
  <2>3. \A o \in 0..(j.pos - 1) : o = j.hand \/ <<TopicOf[j.sub], o>> \in claimed
    <3> SUFFICES ASSUME NEW o \in 0..(n - 1), o # job[w].pos
                 PROVE  <<TopicOf[job[w].sub], o>> \in claimed
      BY <2>2
    <3>1. o \in 0..(job[w].pos - 1)
      BY <1>4, SMTT(30)
    <3> QED
      BY <1>5, <3>1
  <2>4. JobClaimed(j)
    BY <1>3, <1>5, <2>2, <2>3 DEF JobClaimed, ClaimedBelow
  <2> QED
    BY <1>1, <1>2, <2>1, <2>2, <2>4, ClaimKept
<1> QED
  BY <1>6, <1>7

LEMMA PollNothingClaimed ==
  ASSUME SoundInv, ClaimInv, NEW w \in Worker, PollNothing(w) PROVE ClaimInv'
<1>1. claimed' = claimed /\ committed' = committed /\ ackIds' = ackIds
  BY DEF PollNothing, dbVars, kafkaVars, obsVars
<1>2. (\A r \in ackIds' : Claimed(r)) /\ CommittedWereClaimed'
  BY <1>1 DEF ClaimInv, CommittedWereClaimed
<1>3. job[w] \in Job /\ job[w].pc = "consume" /\ job[w].polls > 0
  BY JobFields DEF PollNothing, Polling
<1>4. PICK n \in Nat : n = job[w].polls - 1
  BY <1>3, JobNumbers
<1> DEFINE j == [job[w] EXCEPT !.polls = n]
<1>5. Becomes(w, j)
  BY <1>4 DEF PollNothing
<1>6. /\ j \in Job /\ j.pc = "consume" /\ j.sub = job[w].sub /\ j.pos = job[w].pos
      /\ j.matched = job[w].matched /\ j.view = job[w].view
  BY <1>3 DEF Job
<1> HIDE DEF j
<1>7. JobClaimed(j)
  BY <1>3, <1>6, EditClaimed DEF Views
<1> QED
  BY <1>1, <1>2, <1>5, <1>6, <1>7, ClaimKept

\* The message in hand is claimed: every offset below it had been.
LEMMA InsertRowClaimed ==
  ASSUME SoundInv, ClaimInv, NEW w \in Worker, InsertRow(w) PROVE ClaimInv'
<1> DEFINE t == TopicFor(w)
           h == job[w].hand
           a == Log[t][h + 1]
           row == [id |-> nextId, ackId |-> a, sub |-> job[w].sub, topic |-> t,
                   offset |-> h, time |-> Stored(job[w].detector), status |-> "deadLine"]
<1>1. /\ job[w] \in Job /\ job[w].pc = "insert" /\ job[w].want \in Nat \ {0}
      /\ job[w].hand \in Nat /\ JobClaimed(job[w])
  <2>1. job[w] \in Job /\ JobSound(job[w]) /\ job[w].pc = "insert"
    BY JobFields DEF InsertRow
  <2>2. job[w].want \in Nat /\ job[w].hand \in Nat
    BY <2>1 DEF Job
  <2>3. job[w].want > 0
    BY <2>1 DEF JobSound
  <2> QED
    BY <2>1, <2>2, <2>3 DEF ClaimInv
<1>2. claimed' = claimed \cup {<<t, h>>} /\ committed' = committed
  BY DEF InsertRow, kafkaVars
<1>3. /\ \A r \in job[w].matched : Claimed(r)
      /\ \A o \in 0..(h - 1) : <<t, o>> \in claimed
      /\ \A o \in 0..(job[w].pos - 1) : o = h \/ <<t, o>> \in claimed
  BY <1>1 DEF JobClaimed, ClaimedBelow, TopicFor
<1>4. (\A r \in ackIds : Claimed(r))'
  <2>1. ackIds' = ackIds \cup {row}
    BY DEF InsertRow
  <2>2. <<row.topic, row.offset>> \in claimed'
    BY <1>2
  <2> HIDE DEF row
  <2> QED
    BY <1>2, <2>1, <2>2 DEF ClaimInv, Claimed
<1>5. (\A c \in claimed : ClaimedBelow(c[1], c[2]))'
  <2> SUFFICES ASSUME NEW c \in claimed', NEW o \in 0..(c[2] - 1)
               PROVE  <<c[1], o>> \in claimed'
    BY DEF ClaimedBelow
  <2>1. CASE c \in claimed
    BY <1>2, <2>1 DEF ClaimInv, ClaimedBelow
  <2>2. CASE c = <<t, h>>
    BY <1>2, <1>3, <2>2
  <2> QED
    BY <1>2, <2>1, <2>2
<1>6. CommittedWereClaimed'
  BY <1>2 DEF ClaimInv, CommittedWereClaimed
<1>7. (\A v \in Worker : JobClaimed(job[v]))'
  <2>1. PICK n \in Nat : n = job[w].want - 1
    BY <1>1
  <2>2. PICK got \in SUBSET AckId : got = job[w].got \cup {a}
    <3>1. a \in AckId
      <4>1. job[w].sub \in Subscription /\ JobSound(job[w])
        BY JobFields
      <4>2. Log[t] \in Seq(AckId) /\ h < Len(Log[t])
        BY <1>1, <4>1 DEF JobSound, TopicFor
      <4>3. h + 1 \in 1..Len(Log[t])
        BY <1>1, <4>2
      <4> QED
        BY <4>2, <4>3
    <3> HIDE DEF a
    <3> QED
      BY <1>1, <3>1 DEF Job
  <2> DEFINE j == [job[w] EXCEPT !.pc = "consume", !.want = n, !.view = Closed,
                                 !.hand = 0, !.got = got]
  <2>3. Becomes(w, j)
    BY <2>1, <2>2 DEF InsertRow
  <2>4. /\ j \in Job /\ j.pc = "consume" /\ j.sub = job[w].sub /\ j.pos = job[w].pos
        /\ j.matched = job[w].matched /\ j.view = Closed
    <3>1. Closed \in View
      BY DEF Closed, View
    <3> QED
      BY <1>1, <3>1 DEF Job
  <2> HIDE DEF j
  <2>5. \A o \in 0..(j.pos - 1) : <<TopicOf[j.sub], o>> \in claimed'
    BY <1>2, <1>3, <2>4 DEF TopicFor
  <2>6. JobClaimedNext(j)
    BY <1>2, <1>3, <2>4, <2>5 DEF JobClaimedNext, Closed, Claimed
  <2> QED
    BY <1>2, <2>3, <2>4, <2>6, ClaimFromParts
<1> QED
  BY <1>4, <1>5, <1>6, <1>7 DEF ClaimInv

LEMMA DeliverClaimed ==
  ASSUME SoundInv, ClaimInv, NEW w \in Worker, Deliver(w) PROVE ClaimInv'
<1> DEFINE upd(r) == IF r.time = job[w].detector THEN [r EXCEPT !.time = Stored(clock)]
                                                 ELSE r
<1>1. claimed' = claimed /\ committed' = committed /\ Finish(w)
  BY DEF Deliver
<1>2. ackIds' = {upd(r) : r \in ackIds}
  BY DEF Deliver
<1>3. ASSUME NEW r \in ackIds PROVE Claimed(upd(r))
  <2>1. r \in Row /\ Claimed(r)
    BY DEF ClaimInv, SoundInv, TypeOK
  <2> QED
    BY <2>1 DEF Row, Claimed
<1> HIDE DEF upd
<1>4. \A q \in ackIds' : Claimed(q)
  BY <1>2, <1>3
<1> QED
  BY <1>1, <1>4, EndClaimed

LEMMA MatchClaimed ==
  ASSUME SoundInv, ClaimInv, NEW w \in Worker, Match(w) PROVE ClaimInv'
<1>1. claimed' = claimed /\ committed' = committed /\ ackIds' = ackIds
  BY DEF Match, dbVars, obsVars
<1>2. (\A r \in ackIds' : Claimed(r)) /\ CommittedWereClaimed'
  BY <1>1 DEF ClaimInv, CommittedWereClaimed
<1>3. CASE Finish(w)
  BY <1>1, <1>2, <1>3, EndClaimed
<1>4. ASSUME NEW first \in MatchedRows(w),
             Becomes(w, [job[w] EXCEPT !.pc = "commit", !.view = Closed,
                           !.matched = MatchedRows(w), !.uniqueTime = first.time])
      PROVE  ClaimInv'
  <2> DEFINE rows == MatchedRows(w)
             t == first.time
             j == [job[w] EXCEPT !.pc = "commit", !.view = Closed, !.matched = rows,
                                 !.uniqueTime = t]
  <2>1. rows \subseteq Row /\ \A r \in rows : Claimed(r)
    BY SeenSound, ViewsClaimed DEF MatchedRows, Outstanding, View, Views
  <2>2. t \in Int
    BY <2>1 DEF Row
  <2>3. /\ job[w] \in Job /\ Closed \in View /\ job[w].pc = "expire"
        /\ \A o \in 0..(job[w].pos - 1) : <<TopicOf[job[w].sub], o>> \in claimed
    BY JobFields DEF Closed, View, Match, AckTableUpdated, ClaimInv, JobClaimed
  <2>4. /\ j \in Job /\ j.pc = "commit" /\ j.sub = job[w].sub /\ j.pos = job[w].pos
        /\ j.matched = rows /\ j.view = Closed
    <3> HIDE DEF rows, t
    <3> QED
      BY <2>1, <2>2, <2>3 DEF Job
  <2>5. Becomes(w, j)
    BY <1>4
  <2> HIDE DEF j
  <2>6. JobClaimed(j)
    BY <2>1, <2>3, <2>4 DEF JobClaimed, Closed
  <2> QED
    BY <1>1, <1>2, <2>4, <2>5, <2>6, ClaimKept
<1> QED
  BY <1>3, <1>4 DEF Match

\* The offsets below a committed one were claimed before its row was.
LEMMA CommitOffsetClaimed ==
  ASSUME SoundInv, ClaimInv, NEW w \in Worker, CommitOffset(w) PROVE ClaimInv'
<1>1. claimed' = claimed /\ ackIds' = ackIds
  BY DEF CommitOffset, dbVars, obsVars
<1>2. PICK r \in job[w].matched :
        /\ committed' = [committed EXCEPT ![job[w].sub][r.topic] = NextOffset(r)]
        /\ Becomes(w, [job[w] EXCEPT !.matched = @ \ {r}])
  BY DEF CommitOffset
<1> DEFINE j == [job[w] EXCEPT !.matched = @ \ {r}]
           s == job[w].sub
<1>3. /\ job[w] \in Job /\ s \in Subscription /\ r \in Row
      /\ Claimed(r) /\ job[w].pc = "commit"
  BY JobFields DEF Job, JobClaimed, ClaimInv, CommitOffset
<1>4. r.topic \in Topic /\ r.offset \in Nat /\ <<r.topic, r.offset>> \in claimed
  BY <1>3 DEF Row, Claimed
<1>5. \A o \in 0..r.offset : <<r.topic, o>> \in claimed
  <2>1. \A o \in 0..(r.offset - 1) : <<r.topic, o>> \in claimed
    BY <1>4 DEF ClaimInv, ClaimedBelow
  <2>2. \A o \in 0..r.offset : o = r.offset \/ o \in 0..(r.offset - 1)
    BY <1>4
  <2> QED
    BY <1>4, <2>1, <2>2
<1>6. CommittedWereClaimed'
  <2> SUFFICES ASSUME NEW q \in Subscription, NEW t \in Topic,
                      NEW o \in 0..(committed'[q][t] - 1)
               PROVE  <<t, o>> \in claimed
    BY <1>1 DEF CommittedWereClaimed
  <2>1. committed \in [Subscription -> [Topic -> Nat]]
    BY DEF SoundInv, TypeOK
  <2>2. PICK n \in Nat : n = r.offset + 1 /\ n = NextOffset(r)
    BY <1>4 DEF NextOffset
  <2>3. committed'[q][t] = IF q = s /\ t = r.topic THEN n ELSE committed[q][t]
    BY <1>2, <1>3, <1>4, <2>1, <2>2
  <2>4. CASE q = s /\ t = r.topic
    BY <1>4, <1>5, <2>2, <2>3, <2>4
  <2>5. CASE ~(q = s /\ t = r.topic)
    BY <2>3, <2>5 DEF ClaimInv, CommittedWereClaimed
  <2> QED
    BY <2>4, <2>5
<1>7. /\ j \in Job /\ j.pc = "commit" /\ j.sub = s /\ j.pos = job[w].pos
      /\ j.matched \subseteq job[w].matched /\ j.view = job[w].view
  BY <1>3 DEF Job
<1>8. \A q \in ackIds' : Claimed(q)
  BY <1>1 DEF ClaimInv
<1>9. Becomes(w, j)
  BY <1>2
<1> HIDE DEF j
<1>10. JobClaimed(j)
  BY <1>3, <1>7, EditClaimed DEF Views
<1> QED
  BY <1>1, <1>6, <1>7, <1>8, <1>9, <1>10, ClaimKept

LEMMA LeaveClaimed ==
  ASSUME SoundInv, ClaimInv, NEW w \in Worker, DeleteBatch(w) \/ Fail(w)
  PROVE  ClaimInv'
<1>1. Finish(w) /\ claimed' = claimed /\ committed' = committed /\ ackIds' \subseteq ackIds
  BY DEF DeleteBatch, Fail, dbVars, obsVars
<1>2. \A q \in ackIds' : Claimed(q)
  BY <1>1 DEF ClaimInv
<1> QED
  BY <1>1, <1>2, EndClaimed

-----------------------------------------------------------------------------
LEMMA ClaimStep ==
  ASSUME DistinctAckIds
  PROVE  SoundInv /\ ClaimInv /\ [Next]_vars => ClaimInv'
<1> SUFFICES ASSUME SoundInv, ClaimInv, [Next]_vars PROVE ClaimInv'
  OBVIOUS
<1>1. CASE Tick \/ UNCHANGED vars
  <2>1. UNCHANGED <<ackIds, committed, job, claimed>>
    BY <1>1 DEF Tick, vars, dbVars, kafkaVars, obsVars
  <2> QED
    BY <2>1 DEF ClaimInv, JobClaimed, Claimed, ClaimedBelow, CommittedWereClaimed
<1>2. ASSUME NEW w \in Worker, ReceivePull(w) \/ ReceiveAck(w) \/ Step(w) \/ Fail(w)
      PROVE  ClaimInv'
  <2>1. CASE ReceivePull(w) \/ ReceiveAck(w)
    BY <2>1, ReceivePullClaimed, ReceiveAckClaimed
  <2>2. CASE ExpireRow(w)
    BY <2>2, ExpireRowClaimed
  <2>3. CASE RetryRegister(w) \/ RetryCheck(w) \/ RetryCommit(w)
    BY <2>3, RetryClaimed
  <2>4. CASE Assign(w) \/ PollMessage(w) \/ PollNothing(w)
    BY <2>4, AssignClaimed, PollMessageClaimed, PollNothingClaimed
  <2>5. CASE InsertRow(w) \/ Deliver(w)
    BY <2>5, InsertRowClaimed, DeliverClaimed
  <2>6. CASE Match(w) \/ CommitOffset(w)
    BY <2>6, MatchClaimed, CommitOffsetClaimed
  <2>7. CASE DeleteBatch(w) \/ Fail(w)
    BY <2>7, LeaveClaimed
  <2> QED
    BY <1>2, <2>1, <2>2, <2>3, <2>4, <2>5, <2>6, <2>7 DEF Step
<1> QED
  BY <1>1, <1>2 DEF Next

LEMMA ClaimInit == Init => ClaimInv
BY DEF Init, ClaimInv, Claimed, JobClaimed, Idle, Closed, CommittedWereClaimed

\* The skip in consume_messages: no consumer group commits past a message that no
\* pull has recorded, if the hash of a message and its timestamp tells the
\* messages apart.
THEOREM NoneUnclaimed ==
  ASSUME DistinctAckIds
  PROVE  Spec => []CommittedWereClaimed
<1>1. SoundInv /\ ClaimInv /\ [Next]_vars => ClaimInv'
  BY ClaimStep
<1>2. ClaimInv => CommittedWereClaimed
  BY DEF ClaimInv
<1> QED
  BY <1>1, <1>2, ClaimInit, Soundness, PTL DEF Spec

-----------------------------------------------------------------------------
(* What the steps do to the snapshot of a session and to the messages it   *)
(* has taken.                                                              *)

\* The pull is in consume_messages.
Consuming(j) == j.pc \in {"consume", "insert"}

\* Of the sessions that see no retry row for s although there may be one.
Unaware(s) == {w \in Worker : job[w].view.open /\ s \notin job[w].view.retried}

\* The inductive invariant behind RetryRowsBounded: each session that may still
\* insert a row counts as one.
RowsInv ==
  \A s \in Subscription :
    \/ retry[s] = <<>>
    \/ Len(retry[s]) + Cardinality(Unaware(s)) <= Cardinality(Worker)

\* A response has carried the message to s, or a pull of s will.
Taken(s, a) ==
  \/ a \in delivered[s]
  \/ \E w \in Worker : job[w].sub = s /\ a \in job[w].got

Message(c) == Log[c[1]][c[2] + 1]

\* The inductive invariant behind DeliveredOrInHand: a message that was claimed was
\* delivered, or is with a pull of a subscription to its topic.
HandInv ==
  /\ \A w \in Worker : Consuming(job[w]) \/ job[w].got = {}
  /\ \A s \in Subscription : \A c \in claimed : c[1] = TopicOf[s] => Taken(s, Message(c))

\* Only one job changes.
LEMMA OneJob ==
  ASSUME SoundInv, NEW w \in Worker, NEW j, Becomes(w, j)
  PROVE  job'[w] = j /\ \A v \in Worker \ {w} : job'[v] = job[v]
BY DEF Becomes, SoundInv, TypeOK

\* The job of w goes on: what it has taken stays, or is dropped.
Goes(w) ==
  /\ job'[w].view \in Views(w)
  /\ job'[w].got \in {job[w].got, {}}
  /\ \A v \in Worker \ {w} : job'[v] = job[v]

LEMMA GoesBy ==
  ASSUME SoundInv, NEW w \in Worker, NEW j, Becomes(w, j),
         j.view \in Views(w), j.got \in {job[w].got, {}}
  PROVE  Goes(w)
BY OneJob DEF Goes

\* A request ends.
LEMMA FinishGoes ==
  ASSUME SoundInv, NEW w \in Worker, Finish(w)
  PROVE  Goes(w) /\ job'[w].got = {} /\ ~job'[w].view.open
<1>1. Becomes(w, Idle) /\ Idle.view = Closed /\ Idle.got = {} /\ ~Closed.open
  BY DEF Finish, Idle, Closed
<1> QED
  BY <1>1, GoesBy, OneJob DEF Views

\* A consumer starts.
LEMMA StartGoes ==
  ASSUME SoundInv, NEW w \in Worker, NEW j \in Job, StartConsumer(w, j),
         j.view \in Views(w), j.got = job[w].got
  PROVE  Goes(w) /\ job'[w].view = j.view
<1> DEFINE k == [j EXCEPT !.pc = "consume", !.decision = Idle.decision, !.hit = 0,
                          !.polls = PollLimit, !.detector = clock]
<1>1. k.view = j.view /\ k.got = j.got
  BY DEF Job
<1>2. Becomes(w, k)
  BY DEF StartConsumer
<1> HIDE DEF k
<1> QED
  BY <1>1, <1>2, GoesBy, OneJob

\* A request is received.
LEMMA ReceiveGoes ==
  ASSUME SoundInv, NEW w \in Worker, ReceivePull(w) \/ ReceiveAck(w)
  PROVE  Goes(w) /\ ~Consuming(job[w])
<1>1. ASSUME NEW j \in Job, j.got = {}, Receive(w, j)
      PROVE  Goes(w) /\ ~Consuming(job[w])
  <2> DEFINE ids == {r.id : r \in Outstanding(ackIds)}
             k == [j EXCEPT !.pc = "expire", !.view = Snapshot, !.pending = ids]
  <2>1. Becomes(w, k) /\ job[w].pc = "idle"
    BY <1>1 DEF Receive
  <2>2. k.view = Snapshot /\ k.got = {}
    <3> HIDE DEF ids
    <3> QED BY <1>1 DEF Job
  <2> HIDE DEF k
  <2> QED BY <2>1, <2>2, GoesBy DEF Views, Consuming
<1>2. CASE ReceivePull(w)
  <2>1. PICK s \in Subscription, n \in 1..MaxMessages :
          Receive(w, [Idle EXCEPT !.op = "pull", !.sub = s, !.want = n])
    BY <1>2 DEF ReceivePull
  <2> DEFINE j == [Idle EXCEPT !.op = "pull", !.sub = s, !.want = n]
  <2>2. j \in Job
    <3>1. Idle \in Job /\ n \in Nat
      BY IdleSound
    <3> QED BY <3>1 DEF Job
  <2>3. j.got = {}
    BY DEF Idle
  <2> HIDE DEF j
  <2> QED BY <1>1, <2>1, <2>2, <2>3 DEF j
<1>3. CASE ReceiveAck(w)
  <2>1. PICK s \in Subscription, A \in SUBSET AckId :
          Receive(w, [Idle EXCEPT !.op = "ack", !.sub = s, !.asked = A, !.since = clock])
    BY <1>3 DEF ReceiveAck
  <2> DEFINE j == [Idle EXCEPT !.op = "ack", !.sub = s, !.asked = A, !.since = clock]
  <2>2. j \in Job
    BY IdleSound DEF Job, SoundInv, TypeOK
  <2>3. j.got = {}
    BY DEF Idle
  <2> HIDE DEF j
  <2> QED BY <1>1, <2>1, <2>2, <2>3 DEF j
<1> QED BY <1>2, <1>3

\* One loaded row is looked at.
LEMMA ExpireRowGoes ==
  ASSUME SoundInv, NEW w \in Worker, ExpireRow(w)
  PROVE  Goes(w) /\ ~Consuming(job[w])
<1>1. ASSUME NEW i \in job[w].pending, NEW v \in {Seen(w), Closed},
             Becomes(w, [job[w] EXCEPT !.pending = job[w].pending \ {i}, !.view = v])
      PROVE  Goes(w)
  <2> DEFINE rest == job[w].pending \ {i}
             j == [job[w] EXCEPT !.pending = rest, !.view = v]
  <2>1. j.view = v /\ j.got = job[w].got
    <3> HIDE DEF rest
    <3> QED BY JobFields DEF Job
  <2>2. Becomes(w, j)
    BY <1>1
  <2> HIDE DEF j
  <2> QED BY <2>1, <2>2, GoesBy DEF Views
<1>2. ~Consuming(job[w])
  BY DEF ExpireRow, Consuming
<1>3. CASE Finish(w)
  BY <1>2, <1>3, FinishGoes
<1> QED
  BY <1>1, <1>2, <1>3, Zenon DEF ExpireRow

\* The retry check.
LEMMA RetryGoes ==
  ASSUME SoundInv, NEW w \in Worker, RetryRegister(w) \/ RetryCheck(w) \/ RetryCommit(w)
  PROVE  Goes(w) /\ ~Consuming(job[w])
<1>1. ~Consuming(job[w])
  BY DEF RetryRegister, RetryCheck, RetryCommit, AckTableUpdated, Consuming
<1>2. ASSUME NEW v \in {Closed, Snapshot}, StartConsumer(w, [job[w] EXCEPT !.view = v])
      PROVE  Goes(w)
  <2> DEFINE j == [job[w] EXCEPT !.view = v]
  <2>1. v \in View
    BY ViewsSound DEF Views
  <2>j. job[w] \in Job
    BY JobFields
  <2>2. j \in Job /\ j.view = v /\ j.got = job[w].got
    BY <2>1, <2>j DEF Job
  <2> HIDE DEF j
  <2> QED BY <1>2, <2>2, StartGoes DEF j, Views
<1>3. CASE RetryRegister(w)
  BY <1>1, <1>2, <1>3 DEF RetryRegister
<1>4. CASE RetryCommit(w)
  BY <1>1, <1>4, JobFields, StartGoes DEF RetryCommit, Views
<1>5. CASE RetryCheck(w)
  <2> DEFINE s == job[w].sub
             d == RetryDecision(clock - retry[s][1].first, retry[s][1].hit,
                                MinBackoff[s], MaxBackoff[s], AckDeadline[s])
             n == retry[s][1].hit
             e == [job[w] EXCEPT !.pc = "retry", !.decision = d, !.view = Closed,
                                 !.hit = n, !.detector = clock]
             h == [job[w] EXCEPT !.pc = "hung"]
  <2>1. \/ StartConsumer(w, [job[w] EXCEPT !.view = Snapshot])
        \/ Becomes(w, e) \/ Becomes(w, h) \/ Finish(w)
    BY <1>5 DEF RetryCheck
  <2> HIDE DEF d, n
  <2>2. e.view = Closed /\ e.got = job[w].got
    BY JobFields DEF Job
  <2>3. h.view = job[w].view /\ h.got = job[w].got
    BY JobFields DEF Job
  <2> HIDE DEF e, h
  <2> QED BY <1>1, <1>2, <2>1, <2>2, <2>3, GoesBy, FinishGoes DEF Views
<1> QED BY <1>3, <1>4, <1>5

\* The acknowledgement's rows are matched, committed and deleted.
LEMMA AckGoes ==
  ASSUME SoundInv, NEW w \in Worker, Match(w) \/ CommitOffset(w) \/ DeleteBatch(w)
  PROVE  Goes(w) /\ ~Consuming(job[w])
<1>1. ~Consuming(job[w])
  BY DEF Match, CommitOffset, DeleteBatch, AckTableUpdated, Consuming
<1>2. CASE Finish(w)
  BY <1>1, <1>2, FinishGoes
<1>3. ASSUME NEW first,
             Becomes(w, [job[w] EXCEPT !.pc = "commit", !.view = Closed,
                           !.matched = MatchedRows(w), !.uniqueTime = first.time])
      PROVE  Goes(w)
  <2> DEFINE rows == MatchedRows(w)
             t == first.time
             j == [job[w] EXCEPT !.pc = "commit", !.view = Closed, !.matched = rows,
                                 !.uniqueTime = t]
  <2>1. j.view = Closed /\ j.got = job[w].got
    <3> HIDE DEF rows, t
    <3> QED BY JobFields DEF Job
  <2>2. Becomes(w, j)
    BY <1>3
  <2> HIDE DEF j
  <2> QED BY <2>1, <2>2, GoesBy DEF Views
<1>4. CASE CommitOffset(w)
  <2>1. PICK r \in job[w].matched : Becomes(w, [job[w] EXCEPT !.matched = @ \ {r}])
    BY <1>4 DEF CommitOffset
  <2> DEFINE j == [job[w] EXCEPT !.matched = @ \ {r}]
  <2>2. j.view = job[w].view /\ j.got = job[w].got
    BY JobFields DEF Job
  <2>3. Becomes(w, j)
    BY <2>1
  <2> HIDE DEF j
  <2> QED BY <1>1, <2>2, <2>3, GoesBy DEF Views
<1> QED BY <1>1, <1>2, <1>3, <1>4 DEF Match, DeleteBatch

\* The consumer polls: the messages taken stay with the pull.
LEMMA PollGoes ==
  ASSUME SoundInv, NEW w \in Worker, Assign(w) \/ PollMessage(w) \/ PollNothing(w)
  PROVE  /\ Goes(w)
         /\ Consuming(job'[w])
         /\ job'[w].sub = job[w].sub /\ job'[w].got = job[w].got
<1>0. job[w] \in Job
  BY JobFields
<1>1. ASSUME NEW j, Becomes(w, j), j.view \in Views(w), j.got = job[w].got,
             j.sub = job[w].sub, Consuming(j)
      PROVE  /\ Goes(w)
             /\ Consuming(job'[w])
             /\ job'[w].sub = job[w].sub /\ job'[w].got = job[w].got
  BY <1>1, GoesBy, OneJob
<1>2. CASE Assign(w)
  <2> DEFINE c == committed[job[w].sub][TopicFor(w)]
             j == [job[w] EXCEPT !.pos = c]
  <2>1. Becomes(w, j) /\ Consuming(job[w])
    BY <1>2 DEF Assign, Consuming
  <2> HIDE DEF c
  <2>2. /\ j.view = job[w].view /\ j.got = job[w].got
        /\ j.sub = job[w].sub /\ j.pc = job[w].pc
    BY <1>0 DEF Job
  <2> HIDE DEF j
  <2> QED BY <1>1, <2>1, <2>2 DEF Views, Consuming
<1>3. CASE PollMessage(w)
  <2>1. PICK n : n = job[w].pos + 1
    OBVIOUS
  <2> DEFINE j == [job[w] EXCEPT !.pos = n, !.view = Seen(w)]
             k == [job[w] EXCEPT !.pc = "insert", !.pos = n, !.hand = job[w].pos,
                                 !.view = Seen(w)]
  <2>2. (Becomes(w, j) \/ Becomes(w, k)) /\ job[w].pc = "consume"
    BY <1>3, <2>1 DEF PollMessage, Polling
  <2>3. /\ j.view = Seen(w) /\ j.got = job[w].got
        /\ j.sub = job[w].sub /\ j.pc = job[w].pc
    BY <1>0 DEF Job
  <2>4. /\ k.view = Seen(w) /\ k.got = job[w].got
        /\ k.sub = job[w].sub /\ k.pc = "insert"
    BY <1>0 DEF Job
  <2> HIDE DEF j, k
  <2> QED BY <1>1, <2>2, <2>3, <2>4 DEF Views, Consuming
<1>4. CASE PollNothing(w)
  <2>1. PICK n : n = job[w].polls - 1
    OBVIOUS
  <2> DEFINE j == [job[w] EXCEPT !.polls = n]
  <2>2. Becomes(w, j) /\ job[w].pc = "consume"
    BY <1>4, <2>1 DEF PollNothing, Polling
  <2>3. /\ j.view = job[w].view /\ j.got = job[w].got
        /\ j.sub = job[w].sub /\ j.pc = job[w].pc
    BY <1>0 DEF Job
  <2> HIDE DEF j
  <2> QED BY <1>1, <2>2, <2>3 DEF Views, Consuming
<1> QED BY <1>2, <1>3, <1>4

\* The message in hand gets its row: it is claimed and with the pull.
LEMMA InsertGoes ==
  ASSUME SoundInv, NEW w \in Worker, InsertRow(w)
  PROVE  /\ job'[w].view = Closed
         /\ Consuming(job'[w])
         /\ job'[w].sub = job[w].sub
         /\ job'[w].got = job[w].got \cup {Log[TopicFor(w)][job[w].hand + 1]}
         /\ claimed' = claimed \cup {<<TopicFor(w), job[w].hand>>}
         /\ \A v \in Worker \ {w} : job'[v] = job[v]
<1> DEFINE n == job[w].want - 1
           g == job[w].got \cup {Log[TopicFor(w)][job[w].hand + 1]}
           j == [job[w] EXCEPT !.pc = "consume", !.want = n, !.view = Closed,
                               !.hand = 0, !.got = g]
<1>1. Becomes(w, j)
  BY DEF InsertRow
<1>2. claimed' = claimed \cup {<<TopicFor(w), job[w].hand>>}
  BY DEF InsertRow
<1> HIDE DEF n, g
<1>3. /\ j.view = Closed /\ j.pc = "consume"
      /\ j.sub = job[w].sub /\ j.got = g
  BY JobFields DEF Job
<1> HIDE DEF j
<1>4. job'[w] = j /\ \A v \in Worker \ {w} : job'[v] = job[v]
  BY <1>1, OneJob
<1> QED BY <1>2, <1>3, <1>4 DEF Consuming, g

-----------------------------------------------------------------------------
(* Retry rows.                                                             *)

\* When the rows of a subscription stay as many, no session turns unaware of them.
LEMMA RowsKeptBounded ==
  ASSUME SoundInv, RowsInv, IsFiniteSet(Worker), NEW w \in Worker,
         job'[w].view \in Views(w), \A v \in Worker \ {w} : job'[v] = job[v],
         NEW s \in Subscription, Len(retry'[s]) = Len(retry[s]), retry'[s] # <<>>,
         retry[s] # <<>>
  PROVE  Len(retry'[s]) + Cardinality(Unaware(s)') <= Cardinality(Worker)
<1>1. Unaware(s)' \subseteq Unaware(s)
  <2> SUFFICES ASSUME NEW v \in Worker, job'[v].view.open, s \notin job'[v].view.retried
               PROVE  job[v].view.open /\ s \notin job[v].view.retried
    BY DEF Unaware
  <2>1. CASE v # w
    BY <2>1
  <2>2. CASE v = w
    <3>1. s \in Snapshot.retried
      BY DEF Snapshot
    <3>2. ~Closed.open
      BY DEF Closed
    <3>3. job'[w].view = job[w].view
      BY <2>2, <3>1, <3>2 DEF Views, Seen
    <3> QED BY <2>2, <3>3
  <2> QED BY <2>1, <2>2
<1>2. IsFiniteSet(Unaware(s))
  BY FS_Subset DEF Unaware
<1>3. /\ Cardinality(Unaware(s)') <= Cardinality(Unaware(s))
      /\ Cardinality(Unaware(s)') \in Nat /\ Cardinality(Unaware(s)) \in Nat
  BY <1>1, <1>2, FS_Subset, FS_CardinalityType
<1>4. Len(retry[s]) \in Nat /\ Cardinality(Worker) \in Nat
  BY FS_CardinalityType DEF SoundInv, TypeOK
<1>5. Len(retry[s]) + Cardinality(Unaware(s)) <= Cardinality(Worker)
  BY DEF RowsInv
<1> QED BY <1>3, <1>4, <1>5

\* A session inserts a row: it was unaware of the others, or there were none.
LEMMA RegisterBounded ==
  ASSUME SoundInv, RowsInv, IsFiniteSet(Worker), NEW w \in Worker, RetryRegister(w)
  PROVE  RowsInv'
<1>0. PICK x \in Subscription : x = job[w].sub
  BY JobFields
<1> DEFINE row == [first |-> Stored(clock), hit |-> 0]
<1>1. /\ Goes(w) /\ x \notin Seen(w).retried
      /\ retry' = [retry EXCEPT ![x] = Append(@, row)]
      /\ retry \in [Subscription -> Seq(RetryRow)]
  BY <1>0, RetryGoes, JobFields DEF RetryRegister, SoundInv, TypeOK
<1>2. ~job'[w].view.open
  <2> DEFINE j == [job[w] EXCEPT !.view = Closed]
  <2>1. j \in Job /\ j.view = Closed /\ j.got = job[w].got
    <3>1. job[w] \in Job
      BY JobFields
    <3>2. Closed \in View
      BY DEF Closed, View
    <3> QED BY <3>1, <3>2 DEF Job
  <2>2. StartConsumer(w, j)
    BY DEF RetryRegister
  <2> HIDE DEF j
  <2>3. job'[w].view = Closed
    BY <2>1, <2>2, StartGoes DEF Views
  <2> QED BY <2>3 DEF Closed
<1>3. row \in RetryRow
  BY StoredType DEF RetryRow, SoundInv, TypeOK
<1> HIDE DEF row
<1>4. \A s \in Subscription : Len(retry[s]) \in Nat /\ Cardinality(Worker) \in Nat
  BY <1>1, FS_CardinalityType
<1>5. Len(retry'[x]) = Len(retry[x]) + 1 /\ \A s \in Subscription \ {x} : retry'[s] = retry[s]
  BY <1>1, <1>3
<1>6. ASSUME NEW s \in Subscription \ {x}, retry'[s] # <<>>
      PROVE  Len(retry'[s]) + Cardinality(Unaware(s)') <= Cardinality(Worker)
  BY <1>1, <1>5, <1>6, RowsKeptBounded DEF Goes
<1>7. Len(retry'[x]) + Cardinality(Unaware(x)') <= Cardinality(Worker)
  <2>1. CASE retry[x] = <<>>
    <3>1. Unaware(x)' \subseteq Worker \ {w}
      BY <1>2 DEF Unaware
    <3>2. /\ IsFiniteSet(Worker \ {w})
          /\ Cardinality(Worker \ {w}) = Cardinality(Worker) - 1
      BY FS_RemoveElement
    <3>3. /\ Cardinality(Unaware(x)') <= Cardinality(Worker \ {w})
          /\ Cardinality(Unaware(x)') \in Nat
      BY <3>1, <3>2, FS_Subset, FS_CardinalityType
    <3>4. Len(retry'[x]) = 1
      BY <1>5, <2>1
    <3> QED BY <1>1, <1>4, <3>2, <3>3, <3>4
  <2>2. CASE retry[x] # <<>>
    <3>1. w \in Unaware(x)
      <4>1. x \in Snapshot.retried
        BY <1>1, <2>2 DEF Snapshot
      <4> QED BY <1>1, <4>1 DEF Unaware, Seen
    <3>2. Unaware(x)' \subseteq Unaware(x) \ {w}
      BY <1>1, <1>2 DEF Unaware, Goes
    <3>3. IsFiniteSet(Unaware(x))
      BY FS_Subset DEF Unaware
    <3>4. /\ IsFiniteSet(Unaware(x) \ {w})
          /\ Cardinality(Unaware(x) \ {w}) = Cardinality(Unaware(x)) - 1
      BY <3>1, <3>3, FS_RemoveElement
    <3>5. /\ Cardinality(Unaware(x)') <= Cardinality(Unaware(x) \ {w})
          /\ Cardinality(Unaware(x)') \in Nat /\ Cardinality(Unaware(x)) \in Nat
      BY <3>2, <3>3, <3>4, FS_Subset, FS_CardinalityType
    <3>6. Len(retry[x]) + Cardinality(Unaware(x)) <= Cardinality(Worker)
      BY <1>1, <2>2 DEF RowsInv
    <3> QED BY <1>1, <1>4, <1>5, <3>4, <3>5, <3>6
  <2> QED BY <2>1, <2>2
<1> QED BY <1>1, <1>6, <1>7 DEF RowsInv

\* The first row of a subscription is overwritten: the rows stay as many.
LEMMA CommitBounded ==
  ASSUME SoundInv, NEW w \in Worker, RetryCommit(w), NEW s \in Subscription
  PROVE  Len(retry'[s]) = Len(retry[s]) /\ (retry[s] = <<>> => retry'[s] = <<>>)
<1> DEFINE x == job[w].sub
           new == IF job[w].decision.kind = "reset"
                  THEN [first |-> Stored(job[w].detector),
                        hit |-> IF job[w].hit = 0 THEN retry[x][1].hit ELSE 0]
                  ELSE [retry[x][1] EXCEPT !.hit = job[w].decision.slot]
<1>1. /\ retry \in [Subscription -> Seq(RetryRow)] /\ x \in Subscription
      /\ retry' = [retry EXCEPT ![x][1] = new]
      /\ retry[x] # <<>>
  BY JobFields DEF RetryCommit, SoundInv, TypeOK, JobSound
<1> HIDE DEF new
<1>2. CASE s # x
  BY <1>1, <1>2
<1>3. CASE s = x
  <2>1. retry'[x] = [retry[x] EXCEPT ![1] = new]
    BY <1>1
  <2>2. retry[x] \in Seq(RetryRow)
    BY <1>1
  <2>3. Len([retry[x] EXCEPT ![1] = new]) = Len(retry[x])
    BY <2>2
  <2> QED BY <1>1, <1>3, <2>1, <2>3
<1> QED BY <1>2, <1>3

LEMMA RowsStep ==
  ASSUME IsFiniteSet(Worker)
  PROVE  SoundInv /\ RowsInv /\ [Next]_vars => RowsInv'
<1> SUFFICES ASSUME SoundInv, RowsInv, [Next]_vars PROVE RowsInv'
  OBVIOUS
<1>1. CASE Tick \/ UNCHANGED vars
  BY <1>1 DEF Tick, vars, dbVars, RowsInv, Unaware
<1>2. ASSUME NEW w \in Worker, job'[w].view \in Views(w),
             \A v \in Worker \ {w} : job'[v] = job[v],
             \A s \in Subscription : Len(retry'[s]) = Len(retry[s])
                                    /\ (retry[s] = <<>> => retry'[s] = <<>>)
      PROVE  RowsInv'
  BY <1>2, RowsKeptBounded DEF RowsInv
<1>3. ASSUME NEW w \in Worker, ReceivePull(w) \/ ReceiveAck(w) \/ Step(w) \/ Fail(w),
             ~RetryRegister(w)
      PROVE  RowsInv'
  <2>1. job'[w].view \in Views(w) /\ \A v \in Worker \ {w} : job'[v] = job[v]
    <3>1. CASE InsertRow(w)
      BY <3>1, InsertGoes DEF Views
    <3>2. CASE Fail(w) \/ Deliver(w)
      BY <3>2, FinishGoes DEF Fail, Deliver, Goes
    <3>3. CASE ReceivePull(w) \/ ReceiveAck(w) \/ (Step(w) /\ ~InsertRow(w) /\ ~Deliver(w))
      BY <1>3, <3>3, ReceiveGoes, ExpireRowGoes, RetryGoes, AckGoes, PollGoes DEF Step, Goes
    <3> QED BY <1>3, <3>1, <3>2, <3>3
  <2>2. ~RetryCommit(w) => retry' = retry
    BY <1>3 DEF ReceivePull, ReceiveAck, Receive, Step, Fail, ExpireRow, RetryCheck,
       Assign, PollMessage, PollNothing, InsertRow, Deliver, Match, CommitOffset,
       DeleteBatch, dbVars, kafkaVars, obsVars
  <2>3. \A s \in Subscription : Len(retry'[s]) = Len(retry[s])
                               /\ (retry[s] = <<>> => retry'[s] = <<>>)
    BY <2>2, CommitBounded
  <2> QED BY <1>2, <2>1, <2>3
<1> QED
  BY <1>1, <1>3, RegisterBounded DEF Next

LEMMA RowsInit == Init => RowsInv
BY DEF Init, RowsInv

\* retry_policy_check: for any finite number of workers, first pulls that race insert
\* at most one retry row each for a subscription.
THEOREM RetryRowsAtMostWorkers ==
  ASSUME IsFiniteSet(Worker)
  PROVE  Spec => []RetryRowsBounded
<1>1. SoundInv /\ RowsInv => RetryRowsBounded
  <2> SUFFICES ASSUME SoundInv, RowsInv, NEW s \in Subscription
               PROVE  Len(retry[s]) <= Cardinality(Worker)
    BY DEF RetryRowsBounded
  <2>1. Unaware(s) \subseteq Worker
    BY DEF Unaware
  <2>2. Cardinality(Unaware(s)) \in Nat /\ Cardinality(Worker) \in Nat
    BY <2>1, FS_Subset, FS_CardinalityType
  <2>3. Len(retry[s]) \in Nat
    BY DEF SoundInv, TypeOK
  <2>4. CASE retry[s] = <<>>
    BY <2>2, <2>4
  <2>5. CASE retry[s] # <<>>
    BY <2>2, <2>3, <2>5 DEF RowsInv
  <2> QED BY <2>4, <2>5
<1>2. SoundInv /\ RowsInv /\ [Next]_vars => RowsInv'
  BY RowsStep
<1> QED BY <1>1, <1>2, RowsInit, Soundness, PTL DEF Spec

-----------------------------------------------------------------------------
(* What was claimed is delivered or still with a pull.                     *)

\* No two subscriptions are on one topic.
OneSubscriptionPerTopic ==
  \A s, r \in Subscription : TopicOf[s] = TopicOf[r] => s = r

\* What was taken stays so, and what is claimed newly is taken.
LEMMA HandFromParts ==
  ASSUME HandInv, claimed \subseteq claimed',
         \A v \in Worker : Consuming(job[v])' \/ job'[v].got = {},
         \A s \in Subscription : \A a : Taken(s, a) => Taken(s, a)',
         \A s \in Subscription : \A c \in claimed' \ claimed :
           c[1] = TopicOf[s] => Taken(s, Message(c))'
  PROVE  HandInv'
<1> SUFFICES ASSUME NEW s \in Subscription, NEW c \in claimed', c[1] = TopicOf[s]
             PROVE  Taken(s, Message(c))'
  BY DEF HandInv, Consuming
<1>1. CASE c \in claimed
  <2>1. Taken(s, Message(c))
    BY <1>1 DEF HandInv
  <2> QED BY <2>1
<1>2. CASE c \notin claimed
  BY <1>2
<1> QED BY <1>1, <1>2

\* A request that is not consuming has taken nothing; what others took stays.
LEMMA QuietHand ==
  ASSUME SoundInv, HandInv, NEW w \in Worker, Goes(w), ~Consuming(job[w]),
         claimed' = claimed, delivered' = delivered
  PROVE  HandInv'
<1>1. job[w].got = {} /\ job'[w].got = {} /\ \A v \in Worker \ {w} : job'[v] = job[v]
  BY DEF HandInv, Goes
<1>2. \A v \in Worker : Consuming(job[v])' \/ job'[v].got = {}
  BY <1>1 DEF HandInv, Consuming
<1>3. \A s \in Subscription : \A a : Taken(s, a) => Taken(s, a)'
  BY <1>1 DEF Taken
<1> QED BY <1>2, <1>3, HandFromParts

\* What a pull has taken stays with it while it polls.
LEMMA PollHand ==
  ASSUME SoundInv, HandInv, NEW w \in Worker,
         Assign(w) \/ PollMessage(w) \/ PollNothing(w)
  PROVE  HandInv'
<1>1. claimed' = claimed /\ delivered' = delivered
  BY DEF Assign, PollMessage, PollNothing, obsVars
<1>2. /\ Consuming(job'[w])
      /\ job'[w].sub = job[w].sub /\ job'[w].got = job[w].got
      /\ \A v \in Worker \ {w} : job'[v] = job[v]
  BY PollGoes DEF Goes
<1>3. \A v \in Worker : job'[v].sub = job[v].sub /\ job'[v].got = job[v].got
  BY <1>2
<1>4. \A v \in Worker : Consuming(job[v])' \/ job'[v].got = {}
  BY <1>2 DEF HandInv, Consuming
<1>5. \A s \in Subscription : \A a : Taken(s, a) => Taken(s, a)'
  BY <1>1, <1>3 DEF Taken
<1> QED BY <1>1, <1>4, <1>5, HandFromParts

\* The message claimed by an insert is with the pull that inserts, whose subscription
\* is the only one on the topic.
LEMMA InsertHand ==
  ASSUME OneSubscriptionPerTopic, SoundInv, HandInv, NEW w \in Worker, InsertRow(w)
  PROVE  HandInv'
<1>0. PICK t, h, a : t = TopicFor(w) /\ h = job[w].hand /\ a = Log[t][h + 1]
  OBVIOUS
<1>1. /\ Consuming(job'[w]) /\ job'[w].sub = job[w].sub
      /\ job'[w].got = job[w].got \cup {a}
      /\ claimed' = claimed \cup {<<t, h>>}
      /\ \A v \in Worker \ {w} : job'[v] = job[v]
  BY <1>0, InsertGoes
<1>2. delivered' = delivered
  BY DEF InsertRow
<1>3. \A v \in Worker : job'[v].sub = job[v].sub /\ job[v].got \subseteq job'[v].got
  BY <1>1
<1>4. \A v \in Worker : Consuming(job[v])' \/ job'[v].got = {}
  BY <1>1 DEF HandInv, Consuming
<1>5. \A s \in Subscription : \A b : Taken(s, b) => Taken(s, b)'
  BY <1>2, <1>3 DEF Taken
<1>6. ASSUME NEW s \in Subscription, t = TopicOf[s]
      PROVE  Taken(s, a)'
  <2>1. s = job[w].sub
    BY <1>0, <1>6, JobFields DEF OneSubscriptionPerTopic, TopicFor
  <2> QED BY <1>1, <2>1 DEF Taken
<1>7. <<t, h>>[1] = t /\ Message(<<t, h>>) = a
  BY <1>0 DEF Message
<1>8. \A s \in Subscription : \A c \in claimed' \ claimed :
        c[1] = TopicOf[s] => Taken(s, Message(c))'
  <2> SUFFICES ASSUME NEW s \in Subscription, NEW c \in claimed' \ claimed, c[1] = TopicOf[s]
               PROVE  Taken(s, Message(c))'
    OBVIOUS
  <2>1. c = <<t, h>>
    BY <1>1
  <2>2. Taken(s, a)'
    BY <1>6, <1>7, <2>1
  <2>3. Message(c) = a
    BY <1>7, <2>1
  <2> QED BY <2>2, <2>3 DEF Taken, Message
<1>9. claimed \subseteq claimed'
  BY <1>1
<1> QED BY <1>4, <1>5, <1>8, <1>9, HandFromParts

\* A response delivers everything that its pull has taken.
LEMMA DeliverHand ==
  ASSUME SoundInv, HandInv, NEW w \in Worker, Deliver(w)
  PROVE  HandInv'
<1>1. job'[w].got = {} /\ \A v \in Worker \ {w} : job'[v] = job[v]
  BY FinishGoes DEF Deliver, Goes
<1>2. /\ claimed' = claimed
      /\ delivered' = [delivered EXCEPT ![job[w].sub] = @ \cup job[w].got]
      /\ delivered \in [Subscription -> SUBSET AckId] /\ job[w].sub \in Subscription
  BY JobFields DEF Deliver, SoundInv, TypeOK
<1>3. \A s \in Subscription : delivered[s] \subseteq delivered'[s]
  BY <1>2
<1>4. job[w].got \subseteq delivered'[job[w].sub]
  BY <1>2
<1>5. \A v \in Worker : Consuming(job[v])' \/ job'[v].got = {}
  BY <1>1 DEF HandInv, Consuming
<1>6. \A s \in Subscription : \A a : Taken(s, a) => Taken(s, a)'
  BY <1>1, <1>3, <1>4 DEF Taken
<1> QED BY <1>2, <1>5, <1>6, HandFromParts

LEMMA HandStep ==
  ASSUME ~MayFail, OneSubscriptionPerTopic
  PROVE  SoundInv /\ HandInv /\ [Next]_vars => HandInv'
<1> SUFFICES ASSUME SoundInv, HandInv, [Next]_vars PROVE HandInv'
  OBVIOUS
<1>1. CASE Tick \/ UNCHANGED vars
  <2>1. UNCHANGED <<job, claimed, delivered>>
    BY <1>1 DEF Tick, vars, obsVars
  <2> QED BY <2>1 DEF HandInv, Consuming, Taken, Message
<1>2. ASSUME NEW w \in Worker, ReceivePull(w) \/ ReceiveAck(w) \/ Step(w) \/ Fail(w)
      PROVE  HandInv'
  <2>1. CASE \/ ReceivePull(w) \/ ReceiveAck(w) \/ ExpireRow(w)
             \/ RetryRegister(w) \/ RetryCheck(w) \/ RetryCommit(w)
             \/ Match(w) \/ CommitOffset(w) \/ DeleteBatch(w)
    <3>1. Goes(w) /\ ~Consuming(job[w])
      BY <2>1, ReceiveGoes, ExpireRowGoes, RetryGoes, AckGoes
    <3>2. claimed' = claimed /\ delivered' = delivered
      BY <2>1 DEF ReceivePull, ReceiveAck, Receive, ExpireRow, RetryRegister, RetryCheck,
         RetryCommit, Match, CommitOffset, DeleteBatch, obsVars
    <3> QED BY <3>1, <3>2, QuietHand
  <2>2. CASE Assign(w) \/ PollMessage(w) \/ PollNothing(w)
    BY <2>2, PollHand
  <2>3. CASE InsertRow(w) \/ Deliver(w)
    BY <2>3, InsertHand, DeliverHand
  <2> QED BY <1>2, <2>1, <2>2, <2>3 DEF Step, Fail
<1> QED BY <1>1, <1>2 DEF Next

LEMMA HandInit == Init => HandInv
BY DEF Init, HandInv, Idle

\* The skip in consume_messages and the offset commit together, for any number of
\* workers and messages: while no worker dies and a topic has one subscription, a message
\* below a committed offset was delivered or is with a pull that will deliver it.
THEOREM NoneDropped ==
  ASSUME DistinctAckIds, ~MayFail, OneSubscriptionPerTopic
  PROVE  Spec => []DeliveredOrInHand
<1>1. SoundInv /\ ClaimInv /\ [Next]_vars => ClaimInv'
  BY ClaimStep
<1>2. SoundInv /\ HandInv /\ [Next]_vars => HandInv'
  BY HandStep
<1>3. SoundInv /\ ClaimInv /\ HandInv => DeliveredOrInHand
  <2> SUFFICES ASSUME SoundInv, ClaimInv, HandInv, NEW s \in Subscription,
                      NEW o \in 1..committed[s][TopicOf[s]]
               PROVE  \/ Log[TopicOf[s]][o] \in delivered[s]
                      \/ \E w \in Worker : job[w].sub = s /\ Log[TopicOf[s]][o] \in job[w].got
    BY DEF DeliveredOrInHand
  <2>1. TopicOf[s] \in Topic /\ committed[s][TopicOf[s]] \in Nat
    BY DEF SoundInv, TypeOK
  <2>2. o - 1 \in 0..(committed[s][TopicOf[s]] - 1) /\ (o - 1) + 1 = o
    BY <2>1
  <2>3. <<TopicOf[s], o - 1>> \in claimed
    BY <2>1, <2>2 DEF ClaimInv, CommittedWereClaimed
  <2>4. <<TopicOf[s], o - 1>>[1] = TopicOf[s] /\ Message(<<TopicOf[s], o - 1>>) = Log[TopicOf[s]][o]
    BY <2>2 DEF Message
  <2>5. Taken(s, Message(<<TopicOf[s], o - 1>>))
    BY <2>3, <2>4, Zenon DEF HandInv
  <2> QED BY <2>4, <2>5 DEF Taken
<1> QED BY <1>1, <1>2, <1>3, ClaimInit, HandInit, Soundness, PTL DEF Spec
=============================================================================
