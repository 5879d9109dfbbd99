-------------------------- MODULE PullLease_proofs --------------------------
(***************************************************************************)
(* Proof that one worker keeps the promises of Lease: a message has one    *)
(* lease at most, a response carries leased messages, an acknowledgement   *)
(* that counts is about a message whose lease stands.                      *)
(* SerialPullInv is inductive relative to SoundInv.                        *)
(***************************************************************************)
EXTENDS PullLease, PullSubscription_proofs

USE ConstantsAssumption

\* JobCurrent in the next state, of a job that is given.
JobCurrentNext(j) ==
  /\ j.view.open => j.view.rows = ackIds'
  /\ j.pc = "insert" =>
       \A r \in Outstanding(ackIds') : r.ackId # Log[TopicOf[j.sub]][j.hand + 1]
  /\ \A a \in j.got : \E r \in Outstanding(ackIds') : r.ackId = a /\ r.sub = j.sub
  /\ j.matched \subseteq Outstanding(ackIds')
  /\ j.got # {} => j.pc \in {"consume", "insert"}
  /\ j.matched # {} => j.pc = "commit"
  /\ j.since <= clock'
  /\ j.op = "ack" /\ j.pc = "expire" =>
       \A r \in Outstanding(ackIds') :
         r.id \in j.pending \/ r.time >= j.since - AckDeadline[r.sub]

RowsApart ==
  /\ \A r \in ackIds' : r.id < nextId'
  /\ \A q, r \in ackIds' : q.id = r.id => q = r
  /\ \A q, r \in Outstanding(ackIds') : q.ackId = r.ackId => q = r

-----------------------------------------------------------------------------
(* The only worker takes a step.                                           *)

LEMMA SerialFromParts ==
  ASSUME \A v, u \in Worker : v = u, SoundInv, NEW w \in Worker, NEW j, Becomes(w, j),
         RowsApart, JobCurrentNext(j),
         \A r \in j.matched : r.time >= j.since - AckDeadline[r.sub]
  PROVE  SerialPullInv'
<1>1. \A v \in Worker : job'[v] = j
  BY DEF Becomes, SoundInv, TypeOK
<1>2. KeyedRows' /\ OneOutstandingRow'
  BY DEF RowsApart, KeyedRows, OneOutstandingRow
<1>3. (\A v \in Worker : JobCurrent(job[v]))'
  <2>1. \A v \in Worker : JobCurrentNext(job'[v])
    BY <1>1
  <2> QED BY <2>1 DEF JobCurrentNext, JobCurrent
<1>4. AckInTime'
  BY <1>1 DEF AckInTime
<1> QED BY <1>2, <1>3, <1>4 DEF SerialPullInv

\* Rows that are not touched stay apart.
LEMMA RowsStayApart ==
  ASSUME SerialPullInv, ackIds' \subseteq ackIds, nextId' = nextId
  PROVE  RowsApart
BY DEF SerialPullInv, KeyedRows, OneOutstandingRow, RowsApart, Outstanding

\* A request ends.
LEMMA SerialEnd ==
  ASSUME \A v, u \in Worker : v = u, SoundInv, SoundInv', NEW w \in Worker,
         Becomes(w, Idle), RowsApart
  PROVE  SerialPullInv'
<1>1. /\ Idle.view.open = FALSE /\ Idle.pc = "idle" /\ Idle.got = {}
      /\ Idle.matched = {} /\ Idle.since = 0
  BY DEF Idle, Closed
<1>2. clock' \in Nat
  BY DEF SoundInv, TypeOK
<1>3. JobCurrentNext(Idle)
  BY <1>1, <1>2 DEF JobCurrentNext
<1> QED BY <1>1, <1>3, SerialFromParts

\* The rows stay as they are, and the request goes on with what it knows.
LEMMA SerialGoesOn ==
  ASSUME \A v, u \in Worker : v = u, SoundInv, SerialPullInv, NEW w \in Worker,
         NEW j, Becomes(w, j), UNCHANGED <<clock, ackIds, nextId>>,
         j.view.open => j.view.rows = ackIds,
         j.sub = job[w].sub, j.op = job[w].op, j.since = job[w].since,
         j.got = job[w].got, j.matched = job[w].matched,
         job[w].got # {} => j.pc \in {"consume", "insert"},
         job[w].matched # {} => j.pc = "commit",
         j.op = "ack" => j.pc # "expire",
         j.pc = "insert" =>
           \A r \in Outstanding(ackIds) : r.ackId # Log[TopicOf[j.sub]][j.hand + 1]
  PROVE  SerialPullInv'
<1>1. RowsApart
  BY RowsStayApart
<1>2. JobCurrent(job[w]) /\ \A r \in j.matched : r.time >= j.since - AckDeadline[r.sub]
  BY DEF SerialPullInv, AckInTime
<1>3. JobCurrentNext(j)
  BY <1>2 DEF JobCurrent, JobCurrentNext
<1> QED BY <1>1, <1>2, <1>3, SerialFromParts

LEMMA SerialTick ==
  ASSUME SoundInv, SerialPullInv, Tick
  PROVE  SerialPullInv'
<1>1. /\ ackIds' = ackIds /\ nextId' = nextId /\ job' = job
      /\ clock \in Nat /\ clock' = clock + 1
  BY DEF Tick, dbVars, SoundInv, TypeOK
<1>2. \A w \in Worker : job[w].since \in Nat
  BY DEF SoundInv, TypeOK, Job
<1>3. KeyedRows' /\ OneOutstandingRow' /\ AckInTime'
  BY <1>1 DEF SerialPullInv, KeyedRows, OneOutstandingRow, AckInTime
<1>4. (\A w \in Worker : JobCurrent(job[w]))'
  BY <1>1, <1>2 DEF SerialPullInv, JobCurrent
<1> QED BY <1>3, <1>4 DEF SerialPullInv

LEMMA SerialReceive ==
  ASSUME \A v, u \in Worker : v = u, SoundInv, SerialPullInv, NEW w \in Worker,
         ReceivePull(w) \/ ReceiveAck(w)
  PROVE  SerialPullInv'
<1>1. ASSUME NEW j \in Job, Receive(w, j), j.got = {}, j.matched = {}, j.since \in {0, clock}
      PROVE  SerialPullInv'
  <2> DEFINE ids == {r.id : r \in Outstanding(ackIds)}
             k == [j EXCEPT !.pc = "expire", !.view = Snapshot, !.pending = ids]
  <2>1. Becomes(w, k) /\ UNCHANGED <<clock, ackIds, nextId>>
    BY <1>1 DEF Receive, dbVars
  <2>2. /\ k.view = Snapshot /\ k.got = {} /\ k.matched = {} /\ k.since = j.since
        /\ k.pending = ids /\ k.pc = "expire"
    BY <1>1 DEF Job
  <2>3. Snapshot.rows = ackIds
    BY DEF Snapshot
  <2>4. \A r \in Outstanding(ackIds) : r.id \in ids
    OBVIOUS
  <2>5. k.since <= clock
    BY <1>1, <2>2 DEF SoundInv, TypeOK
  <2> HIDE DEF k, ids
  <2>6. JobCurrentNext(k)
    BY <2>1, <2>2, <2>3, <2>4, <2>5 DEF JobCurrentNext
  <2> QED BY <2>1, <2>2, <2>6, RowsStayApart, SerialFromParts
<1>2. CASE ReceivePull(w)
  <2>1. PICK s \in Subscription, n \in 1..MaxMessages :
          Receive(w, [Idle EXCEPT !.op = "pull", !.sub = s, !.want = n])
    BY <1>2 DEF ReceivePull
  <2> DEFINE j == [Idle EXCEPT !.op = "pull", !.sub = s, !.want = n]
  <2>2. j \in Job
    <3>1. Idle \in Job /\ n \in Nat
      BY IdleSound
    <3> QED BY <3>1 DEF Job
  <2>3. j.got = {} /\ j.matched = {} /\ j.since = 0
    BY DEF Idle
  <2> QED BY <1>1, <2>1, <2>2, <2>3
<1>3. CASE ReceiveAck(w)
  <2>1. PICK s \in Subscription, A \in SUBSET AckId :
          Receive(w, [Idle EXCEPT !.op = "ack", !.sub = s, !.asked = A, !.since = clock])
    BY <1>3 DEF ReceiveAck
  <2> DEFINE j == [Idle EXCEPT !.op = "ack", !.sub = s, !.asked = A, !.since = clock]
  <2>2. j \in Job
    BY IdleSound DEF Job, SoundInv, TypeOK
  <2>3. j.got = {} /\ j.matched = {} /\ j.since = clock
    BY DEF Idle
  <2> QED BY <1>1, <2>1, <2>2, <2>3
<1> QED BY <1>2, <1>3

\* The rows of a session that is open are those of the table.
LEMMA SeenRows ==
  ASSUME SerialPullInv, NEW w \in Worker
  PROVE  Seen(w).rows = ackIds
BY DEF SerialPullInv, JobCurrent, Seen, Snapshot

\* The steps of the retry check.
LEMMA SerialStart ==
  ASSUME \A v, u \in Worker : v = u, SoundInv, SerialPullInv, NEW w \in Worker,
         NEW x, StartConsumer(w, [job[w] EXCEPT !.view = x]), UNCHANGED <<clock, ackIds, nextId>>,
         x.open => x.rows = ackIds, job[w].pc \in {"expire", "retry"}
  PROVE  SerialPullInv'
<1> DEFINE k == [[job[w] EXCEPT !.view = x] EXCEPT !.pc = "consume", !.decision = Idle.decision,
                                                   !.hit = 0, !.polls = PollLimit, !.detector = clock]
<1>1. Becomes(w, k)
  BY DEF StartConsumer
<1>2. job[w] \in Job /\ JobCurrent(job[w])
  BY DEF SoundInv, TypeOK, SerialPullInv
<1>3. /\ k.pc = "consume" /\ k.view = x /\ k.sub = job[w].sub /\ k.op = job[w].op
      /\ k.since = job[w].since /\ k.got = job[w].got /\ k.matched = job[w].matched
  BY <1>2 DEF Job
<1>4. job[w].matched = {}
  BY <1>2 DEF JobCurrent
<1> HIDE DEF k
<1> QED BY <1>1, <1>3, <1>4, SerialGoesOn

LEMMA SerialRetry ==
  ASSUME \A v, u \in Worker : v = u, SoundInv, SoundInv', SerialPullInv, NEW w \in Worker,
         RetryRegister(w) \/ RetryCheck(w) \/ RetryCommit(w)
  PROVE  SerialPullInv'
<1>0. job[w] \in Job /\ JobCurrent(job[w])
  BY DEF SoundInv, TypeOK, SerialPullInv
<1>1. UNCHANGED <<clock, ackIds, nextId>>
  BY DEF RetryRegister, RetryCheck, RetryCommit, dbVars
<1>2. RowsApart
  BY <1>1, RowsStayApart
<1>3. CASE RetryRegister(w)
  BY <1>1, <1>3, SerialStart DEF RetryRegister, AckTableUpdated, Closed
<1>4. CASE RetryCommit(w)
  <2>1. [job[w] EXCEPT !.view = job[w].view] = job[w]
    BY <1>0 DEF Job
  <2> QED BY <1>0, <1>1, <1>4, <2>1, SerialStart DEF RetryCommit, JobCurrent
<1>5. CASE RetryCheck(w)
  <2>1. /\ job[w].pc = "expire" /\ job[w].op = "pull"
        /\ \/ StartConsumer(w, [job[w] EXCEPT !.view = Snapshot])
           \/ \E d, n : Becomes(w, [job[w] EXCEPT !.pc = "retry", !.decision = d, !.view = Closed,
                                                  !.hit = n, !.detector = clock])
           \/ Becomes(w, Idle)
           \/ Becomes(w, [job[w] EXCEPT !.pc = "hung"])
    BY <1>5 DEF RetryCheck, AckTableUpdated, Finish
  <2>2. CASE StartConsumer(w, [job[w] EXCEPT !.view = Snapshot])
    BY <1>1, <2>1, <2>2, SerialStart DEF Snapshot
  <2>3. ASSUME NEW d, NEW n,
               Becomes(w, [job[w] EXCEPT !.pc = "retry", !.decision = d, !.view = Closed,
                                         !.hit = n, !.detector = clock])
        PROVE  SerialPullInv'
    <3> DEFINE k == [job[w] EXCEPT !.pc = "retry", !.decision = d, !.view = Closed,
                                   !.hit = n, !.detector = clock]
    <3>1. /\ k.pc = "retry" /\ k.sub = job[w].sub /\ k.op = job[w].op
          /\ k.since = job[w].since /\ k.got = job[w].got /\ k.matched = job[w].matched
          /\ k.view.open = FALSE
      BY <1>0 DEF Job, Closed
    <3>2. job[w].got = {} /\ job[w].matched = {}
      BY <1>0, <2>1 DEF JobCurrent
    <3>3. Becomes(w, k)
      BY <2>3
    <3> HIDE DEF k
    <3> QED BY <1>1, <3>1, <3>2, <3>3, SerialGoesOn
  <2>4. CASE Becomes(w, Idle)
    BY <1>2, <2>4, SerialEnd
  <2>5. CASE Becomes(w, [job[w] EXCEPT !.pc = "hung"])
    <3> DEFINE k == [job[w] EXCEPT !.pc = "hung"]
    <3>1. /\ k.pc = "hung" /\ k.view = job[w].view /\ k.sub = job[w].sub /\ k.op = job[w].op
          /\ k.since = job[w].since /\ k.got = job[w].got /\ k.matched = job[w].matched
      BY <1>0 DEF Job
    <3>2. /\ job[w].got = {} /\ job[w].matched = {}
          /\ job[w].view.open => job[w].view.rows = ackIds
      BY <1>0, <2>1 DEF JobCurrent
    <3>3. Becomes(w, k)
      BY <2>5
    <3> HIDE DEF k
    <3> QED BY <1>1, <3>1, <3>2, <3>3, SerialGoesOn
  <2> QED BY <2>1, <2>2, <2>3, <2>4, <2>5
<1> QED BY <1>3, <1>4, <1>5

\* The steps of the loop that polls.
LEMMA SerialPoll ==
  ASSUME \A v, u \in Worker : v = u, SoundInv, SerialPullInv, NEW w \in Worker,
         Assign(w) \/ PollMessage(w) \/ PollNothing(w)
  PROVE  SerialPullInv'
<1>0. job[w] \in Job /\ JobCurrent(job[w])
  BY DEF SoundInv, TypeOK, SerialPullInv
<1>1. UNCHANGED <<clock, ackIds, nextId>>
  BY DEF Assign, PollMessage, PollNothing, dbVars
<1>2. CASE Assign(w)
  <2> DEFINE k == [job[w] EXCEPT !.pos = committed[job[w].sub][TopicFor(w)]]
  <2>1. Becomes(w, k) /\ job[w].pc \in {"consume", "insert"}
    BY <1>2 DEF Assign
  <2>2. /\ k.pc = job[w].pc /\ k.view = job[w].view /\ k.sub = job[w].sub
        /\ k.op = job[w].op /\ k.hand = job[w].hand
        /\ k.since = job[w].since /\ k.got = job[w].got /\ k.matched = job[w].matched
    BY <1>0 DEF Job
  <2> HIDE DEF k
  <2> QED BY <1>0, <1>1, <2>1, <2>2, SerialGoesOn DEF JobCurrent
<1>3. CASE PollNothing(w)
  <2> DEFINE k == [job[w] EXCEPT !.polls = @ - 1]
  <2>1. Becomes(w, k) /\ job[w].pc = "consume"
    BY <1>3 DEF PollNothing, Polling
  <2>2. /\ k.pc = job[w].pc /\ k.view = job[w].view /\ k.sub = job[w].sub
        /\ k.op = job[w].op
        /\ k.since = job[w].since /\ k.got = job[w].got /\ k.matched = job[w].matched
    BY <1>0 DEF Job
  <2> HIDE DEF k
  <2> QED BY <1>0, <1>1, <2>1, <2>2, SerialGoesOn DEF JobCurrent
<1>4. CASE PollMessage(w)
  <2> DEFINE a == Log[TopicFor(w)][job[w].pos + 1]
             skip == [job[w] EXCEPT !.pos = @ + 1, !.view = Seen(w)]
             take == [job[w] EXCEPT !.pc = "insert", !.pos = @ + 1, !.hand = job[w].pos,
                                    !.view = Seen(w)]
  <2>1. /\ job[w].pc = "consume" /\ Seen(w).rows = ackIds
        /\ IF UnderDeadline(w, a) THEN Becomes(w, skip) ELSE Becomes(w, take)
    BY <1>4, SeenRows DEF PollMessage, Polling
  <2>2. job[w].matched = {}
    BY <1>0, <2>1 DEF JobCurrent
  <2>3. CASE UnderDeadline(w, a)
    <3>1. /\ skip.pc = "consume" /\ skip.view = Seen(w) /\ skip.sub = job[w].sub
          /\ skip.op = job[w].op /\ skip.since = job[w].since
          /\ skip.got = job[w].got /\ skip.matched = job[w].matched
      BY <1>0, <2>1 DEF Job
    <3>2. Becomes(w, skip)
      BY <2>1, <2>3
    <3> HIDE DEF skip
    <3> QED BY <1>1, <2>1, <2>2, <3>1, <3>2, SerialGoesOn
  <2>4. CASE ~UnderDeadline(w, a)
    <3>1. /\ take.pc = "insert" /\ take.view = Seen(w) /\ take.sub = job[w].sub
          /\ take.op = job[w].op /\ take.since = job[w].since /\ take.hand = job[w].pos
          /\ take.got = job[w].got /\ take.matched = job[w].matched
      BY <1>0 DEF Job
    <3>2. Becomes(w, take)
      BY <2>1, <2>4
    <3>3. \A r \in Outstanding(ackIds) : r.ackId # Log[TopicOf[job[w].sub]][job[w].pos + 1]
      BY <2>1, <2>4 DEF UnderDeadline, TopicFor
    <3> HIDE DEF take
    <3> QED BY <1>1, <2>1, <2>2, <3>1, <3>2, <3>3, SerialGoesOn
  <2> QED BY <2>3, <2>4
<1> QED BY <1>2, <1>3, <1>4

LEMMA SerialInsertRow ==
  ASSUME \A v, u \in Worker : v = u, SoundInv, SerialPullInv, NEW w \in Worker, InsertRow(w)
  PROVE  SerialPullInv'
<1> DEFINE a == Log[TopicFor(w)][job[w].hand + 1]
           row == [id |-> nextId, ackId |-> a, sub |-> job[w].sub,
                   topic |-> TopicFor(w), offset |-> job[w].hand,
                   time |-> Stored(job[w].detector), status |-> "deadLine"]
           k == [job[w] EXCEPT !.pc = "consume", !.want = @ - 1, !.view = Closed,
                               !.hand = 0, !.got = @ \cup {a}]
<1>0. job[w] \in Job /\ JobCurrent(job[w])
  BY DEF SoundInv, TypeOK, SerialPullInv
<1>1. /\ job[w].pc = "insert" /\ ackIds' = ackIds \cup {row} /\ nextId' = nextId + 1
      /\ Becomes(w, k) /\ clock' = clock /\ nextId \in Nat
  BY DEF InsertRow, SoundInv, TypeOK
<1>2. /\ k.pc = "consume" /\ k.sub = job[w].sub /\ k.since = job[w].since
      /\ k.got = job[w].got \cup {a} /\ k.matched = job[w].matched /\ k.view.open = FALSE
  BY <1>0 DEF Job, Closed
<1>3. row.id = nextId /\ row.ackId = a /\ row.sub = job[w].sub /\ row.status = "deadLine"
  OBVIOUS
<1>4. /\ \A r \in Outstanding(ackIds) : r.ackId # a
      /\ job[w].matched = {} /\ job[w].since <= clock
  BY <1>0, <1>1 DEF JobCurrent, TopicFor
<1> HIDE DEF row, k, a
<1>5. Outstanding(ackIds') = Outstanding(ackIds) \cup {row}
  BY <1>1, <1>3 DEF Outstanding
<1>6. \A r \in ackIds : r.id \in Nat
  BY DEF SoundInv, TypeOK, Row
<1>7. RowsApart
  <2>1. \A r \in ackIds' : r.id < nextId'
    BY <1>1, <1>3, <1>6 DEF SerialPullInv, KeyedRows
  <2>2. \A q, r \in ackIds' : q.id = r.id => q = r
    BY <1>1, <1>3, <1>6 DEF SerialPullInv, KeyedRows
  <2>3. \A q, r \in Outstanding(ackIds') : q.ackId = r.ackId => q = r
    BY <1>3, <1>4, <1>5 DEF SerialPullInv, OneOutstandingRow
  <2> QED BY <2>1, <2>2, <2>3 DEF RowsApart
<1>8. JobCurrentNext(k)
  <2>1. \A b \in k.got : \E r \in Outstanding(ackIds') : r.ackId = b /\ r.sub = k.sub
    BY <1>0, <1>2, <1>3, <1>5 DEF JobCurrent
  <2> QED BY <1>1, <1>2, <1>4, <2>1 DEF JobCurrentNext
<1> QED BY <1>1, <1>2, <1>4, <1>7, <1>8, SerialFromParts

\* The answers: rows get the delivery time, or rows are deleted.
LEMMA SerialAnswer ==
  ASSUME \A v, u \in Worker : v = u, SoundInv, SoundInv', SerialPullInv, NEW w \in Worker,
         Deliver(w) \/ DeleteBatch(w) \/ Fail(w)
  PROVE  SerialPullInv'
<1>1. Becomes(w, Idle) /\ nextId' = nextId
  BY DEF Deliver, DeleteBatch, Fail, Finish, dbVars
<1>2. CASE Deliver(w)
  <2> DEFINE upd(r) == IF r.time = job[w].detector THEN [r EXCEPT !.time = Stored(clock)] ELSE r
  <2>1. ackIds' = {upd(r) : r \in ackIds}
    BY <1>2 DEF Deliver
  <2>2. \A r \in ackIds : /\ upd(r).id = r.id /\ upd(r).ackId = r.ackId
                           /\ upd(r).status = r.status
    BY DEF SoundInv, TypeOK, Row
  <2> HIDE DEF upd
  <2>3. RowsApart
    <3>1. \A r \in ackIds' : r.id < nextId'
      BY <1>1, <2>1, <2>2 DEF SerialPullInv, KeyedRows
    <3>2. \A q, r \in ackIds' : q.id = r.id => q = r
      BY <2>1, <2>2 DEF SerialPullInv, KeyedRows
    <3>3. \A q, r \in Outstanding(ackIds') : q.ackId = r.ackId => q = r
      <4>1. \A q \in Outstanding(ackIds') : \E p \in Outstanding(ackIds) : q = upd(p)
        BY <2>1, <2>2 DEF Outstanding
      <4>2. \A p \in Outstanding(ackIds) : upd(p).ackId = p.ackId
        BY <2>2 DEF Outstanding
      <4> QED BY <4>1, <4>2 DEF SerialPullInv, OneOutstandingRow
    <3> QED BY <3>1, <3>2, <3>3 DEF RowsApart
  <2> QED BY <1>1, <2>3, SerialEnd
<1>3. CASE DeleteBatch(w) \/ Fail(w)
  <2>1. ackIds' \subseteq ackIds
    BY <1>3 DEF DeleteBatch, Fail, dbVars
  <2> QED BY <1>1, <2>1, RowsStayApart, SerialEnd
<1> QED BY <1>2, <1>3

\* The steps of the acknowledge handler.
LEMMA SerialMatch ==
  ASSUME \A v, u \in Worker : v = u, SoundInv, SoundInv', SerialPullInv, NEW w \in Worker,
         Match(w)
  PROVE  SerialPullInv'
<1>0. job[w] \in Job /\ JobCurrent(job[w])
  BY DEF SoundInv, TypeOK, SerialPullInv
<1>1. /\ UNCHANGED <<clock, ackIds, nextId>>
      /\ job[w].op = "ack" /\ job[w].pc = "expire" /\ job[w].pending = {}
  BY DEF Match, AckTableUpdated, dbVars
<1>2. RowsApart
  BY <1>1, RowsStayApart
<1>3. CASE Finish(w)
  BY <1>2, <1>3, SerialEnd DEF Finish
<1>4. ASSUME NEW first,
             Becomes(w, [job[w] EXCEPT !.pc = "commit", !.view = Closed,
                           !.matched = MatchedRows(w), !.uniqueTime = first.time])
      PROVE  SerialPullInv'
  <2> DEFINE k == [job[w] EXCEPT !.pc = "commit", !.view = Closed,
                     !.matched = MatchedRows(w), !.uniqueTime = first.time]
  <2>1. /\ k.pc = "commit" /\ k.since = job[w].since /\ k.got = job[w].got
        /\ k.matched = MatchedRows(w) /\ k.view.open = FALSE
    BY <1>0 DEF Job, Closed
  <2>2. MatchedRows(w) \subseteq Outstanding(ackIds)
    BY SeenRows DEF MatchedRows
  <2>3. \A r \in Outstanding(ackIds) : r.time >= job[w].since - AckDeadline[r.sub]
    BY <1>0, <1>1 DEF JobCurrent
  <2>4. job[w].got = {} /\ job[w].since <= clock
    BY <1>0, <1>1 DEF JobCurrent
  <2>5. Becomes(w, k)
    BY <1>4
  <2> HIDE DEF k
  <2>6. JobCurrentNext(k)
    BY <1>1, <2>1, <2>2, <2>4 DEF JobCurrentNext
  <2> QED BY <1>2, <2>1, <2>2, <2>3, <2>5, <2>6, SerialFromParts
<1> QED BY <1>3, <1>4 DEF Match

LEMMA SerialCommitOffset ==
  ASSUME \A v, u \in Worker : v = u, SoundInv, SerialPullInv, NEW w \in Worker,
         CommitOffset(w)
  PROVE  SerialPullInv'
<1>0. job[w] \in Job /\ JobCurrent(job[w])
  BY DEF SoundInv, TypeOK, SerialPullInv
<1>1. UNCHANGED <<clock, ackIds, nextId>> /\ job[w].pc = "commit"
  BY DEF CommitOffset, dbVars
<1>2. PICK r : Becomes(w, [job[w] EXCEPT !.matched = @ \ {r}])
  BY DEF CommitOffset
<1> DEFINE k == [job[w] EXCEPT !.matched = @ \ {r}]
<1>3. /\ k.pc = "commit" /\ k.since = job[w].since /\ k.got = job[w].got
      /\ k.view = job[w].view /\ k.matched \subseteq job[w].matched
  BY <1>0, <1>1 DEF Job
<1>4. Becomes(w, k)
  BY <1>2
<1>5. job[w].got = {} /\ \A q \in job[w].matched : q.time >= job[w].since - AckDeadline[q.sub]
  BY <1>0, <1>1 DEF JobCurrent, SerialPullInv, AckInTime
<1>6. RowsApart
  BY <1>1, RowsStayApart
<1> HIDE DEF k
<1>7. JobCurrentNext(k)
  BY <1>0, <1>1, <1>3, <1>5 DEF JobCurrent, JobCurrentNext
<1>8. k.since = job[w].since /\ \A q \in k.matched : q.time >= k.since - AckDeadline[q.sub]
  BY <1>3, <1>5
<1> QED BY <1>4, <1>6, <1>7, <1>8, SerialFromParts

LEMMA LateEnough ==
  ASSUME NEW t \in Int, NEW c \in Nat, NEW s \in Nat, NEW d \in Nat, s <= c, ~(t < c - d)
  PROVE  t >= s - d
OBVIOUS

\* One row of the loop in auto_update_the_ack_table.
LEMMA SerialExpireRow ==
  ASSUME \A v, u \in Worker : v = u, SoundInv, SoundInv', SerialPullInv, NEW w \in Worker,
         ExpireRow(w)
  PROVE  SerialPullInv'
<1>0. /\ job[w] \in Job /\ JobCurrent(job[w]) /\ Seen(w).rows = ackIds
      /\ clock \in Nat /\ ackIds \subseteq Row /\ job[w].since \in Nat
      /\ AckDeadline \in [Subscription -> Nat]
  BY SeenRows DEF SoundInv, TypeOK, SerialPullInv, Job
<1>1. job[w].pc = "expire" /\ clock' = clock /\ nextId' = nextId
  BY DEF ExpireRow
<1>2. job[w].got = {} /\ job[w].matched = {} /\ job[w].since <= clock
  BY <1>0, <1>1 DEF JobCurrent
<1>3. PICK i \in job[w].pending :
        LET copies == {r \in Seen(w).rows : r.id = i}
            late   == Outstanding({r \in copies : Expired(r)})
            rest   == job[w].pending \ {i}
        IN \/ /\ \E r \in copies : ~Expired(r)
              /\ Becomes(w, [job[w] EXCEPT !.pending = rest, !.view = Seen(w)])
              /\ UNCHANGED <<ackIds, owner>>
           \/ /\ \E r \in copies : Expired(r) /\ r.status = "unAck"
              /\ Becomes(w, [job[w] EXCEPT !.pending = rest, !.view = Closed])
              /\ UNCHANGED <<ackIds, owner>>
           \/ /\ late # {}
              /\ \E r \in ackIds :
                   /\ r.id = i
                   /\ ackIds' = (ackIds \ {r}) \cup {[r EXCEPT !.status = "unAck"]}
              /\ Becomes(w, [job[w] EXCEPT !.pending = rest, !.view = Closed])
              /\ UNCHANGED owner
           \/ /\ copies = {} \/ (late # {} /\ \A r \in ackIds : r.id # i)
              /\ Finish(w)
              /\ UNCHANGED ackIds
  BY DEF ExpireRow
<1>4. ASSUME NEW x, x.open => x.rows = ackIds', RowsApart,
             Becomes(w, [job[w] EXCEPT !.pending = job[w].pending \ {i}, !.view = x]),
             Outstanding(ackIds') \subseteq Outstanding(ackIds),
             \A r \in Outstanding(ackIds') : r.id = i => ~Expired(r)
      PROVE  SerialPullInv'
  <2> DEFINE rest == job[w].pending \ {i}
             k == [job[w] EXCEPT !.pending = rest, !.view = x]
  <2>1. /\ k.pc = "expire" /\ k.since = job[w].since /\ k.got = {} /\ k.matched = {}
        /\ k.view = x /\ k.op = job[w].op /\ k.pending = rest
    BY <1>0, <1>1, <1>2 DEF Job
  <2>2. ASSUME NEW r \in Outstanding(ackIds'), k.op = "ack"
        PROVE  r.id \in rest \/ r.time >= job[w].since - AckDeadline[r.sub]
    <3>1. CASE r.id = i
      <4>1. ~(r.time < clock - AckDeadline[r.sub])
        BY <1>4, <3>1 DEF Expired
      <4>2. r \in Row
        BY <1>0, <1>4 DEF Outstanding
      <4>3. r.time \in Int /\ AckDeadline[r.sub] \in Nat
        BY <1>0, <4>2 DEF Row
      <4>4. job[w].since \in Nat /\ clock \in Nat /\ job[w].since <= clock
        BY <1>0, <1>2
      <4> QED BY <4>1, <4>3, <4>4, LateEnough
    <3>2. CASE r.id # i
      BY <1>0, <1>1, <1>4, <2>1, <2>2, <3>2 DEF JobCurrent
    <3> QED BY <3>1, <3>2
  <2>3. Becomes(w, k)
    BY <1>4
  <2> HIDE DEF k, rest
  <2>4. JobCurrentNext(k)
    BY <1>1, <1>2, <1>4, <2>1, <2>2 DEF JobCurrentNext
  <2> QED BY <1>4, <2>1, <2>3, <2>4, SerialFromParts
<1>5. \A q, r \in ackIds : q.id = r.id => q = r
  BY DEF SerialPullInv, KeyedRows
<1>6. CASE /\ \E r \in {q \in Seen(w).rows : q.id = i} : ~Expired(r)
           /\ Becomes(w, [job[w] EXCEPT !.pending = job[w].pending \ {i}, !.view = Seen(w)])
           /\ UNCHANGED <<ackIds, owner>>
  <2>1. \A r \in Outstanding(ackIds') : r.id = i => ~Expired(r)
    BY <1>0, <1>5, <1>6 DEF Outstanding
  <2> QED BY <1>0, <1>1, <1>4, <1>6, <2>1, RowsStayApart
<1>7. CASE /\ \E r \in {q \in Seen(w).rows : q.id = i} : Expired(r) /\ r.status = "unAck"
           /\ Becomes(w, [job[w] EXCEPT !.pending = job[w].pending \ {i}, !.view = Closed])
           /\ UNCHANGED <<ackIds, owner>>
  <2>1. \A r \in Outstanding(ackIds') : r.id # i
    BY <1>0, <1>5, <1>7 DEF Outstanding
  <2>2. Closed.open = FALSE
    BY DEF Closed
  <2> QED BY <1>1, <1>4, <1>7, <2>1, <2>2, RowsStayApart
<1>8. CASE /\ \E r \in ackIds :
                /\ r.id = i
                /\ ackIds' = (ackIds \ {r}) \cup {[r EXCEPT !.status = "unAck"]}
           /\ Becomes(w, [job[w] EXCEPT !.pending = job[w].pending \ {i}, !.view = Closed])
  <2>1. PICK r \in ackIds :
          r.id = i /\ ackIds' = (ackIds \ {r}) \cup {[r EXCEPT !.status = "unAck"]}
    BY <1>8
  <2> DEFINE e == [r EXCEPT !.status = "unAck"]
  <2>2. e.id = i /\ e.status = "unAck"
    BY <1>0, <2>1 DEF Row
  <2> HIDE DEF e
  <2>3. Outstanding(ackIds') = Outstanding(ackIds) \ {r}
    BY <2>1, <2>2 DEF e, Outstanding
  <2>4. RowsApart
    BY <1>1, <1>5, <2>1, <2>2, <2>3
    DEF e, RowsApart, SerialPullInv, KeyedRows, OneOutstandingRow
  <2>5. \A q \in Outstanding(ackIds') : q.id # i
    BY <1>5, <2>1, <2>3 DEF Outstanding
  <2>6. Closed.open = FALSE
    BY DEF Closed
  <2> QED BY <1>4, <1>8, <2>3, <2>4, <2>5, <2>6
<1>9. CASE Finish(w) /\ UNCHANGED ackIds
  BY <1>1, <1>9, RowsStayApart, SerialEnd DEF Finish
<1> QED BY <1>3, <1>6, <1>7, <1>8, <1>9

LEMMA SerialInit ==
  ASSUME Init
  PROVE  SerialPullInv
<1>1. /\ Idle.view.open = FALSE /\ Idle.pc = "idle" /\ Idle.got = {}
      /\ Idle.matched = {} /\ Idle.since = 0
  BY DEF Idle, Closed
<1>2. ackIds = {} /\ clock = 0 /\ \A w \in Worker : job[w] = Idle
  BY DEF Init
<1>3. KeyedRows /\ OneOutstandingRow
  BY <1>2 DEF KeyedRows, OneOutstandingRow, Outstanding
<1>4. \A w \in Worker : JobCurrent(job[w])
  BY <1>1, <1>2 DEF JobCurrent
<1>5. AckInTime
  BY <1>1, <1>2 DEF AckInTime
<1> QED BY <1>3, <1>4, <1>5 DEF SerialPullInv

LEMMA SerialStep ==
  ASSUME \A v, u \in Worker : v = u, SoundInv, SerialPullInv, [Next]_vars
  PROVE  SerialPullInv'
<1>1. SoundInv'
  BY SoundStep
<1>2. CASE Tick
  BY <1>2, SerialTick
<1>3. ASSUME NEW w \in Worker, ReceivePull(w) \/ ReceiveAck(w) \/ Step(w) \/ Fail(w)
      PROVE  SerialPullInv'
  BY <1>1, <1>3, SerialReceive, SerialExpireRow, SerialRetry, SerialPoll, SerialInsertRow,
     SerialAnswer, SerialMatch, SerialCommitOffset DEF Step
<1>4. CASE UNCHANGED vars
  <2>1. \A w \in Worker : JobCurrent(job[w])
    BY DEF SerialPullInv
  <2>2. (\A w \in Worker : JobCurrent(job[w]))'
    BY <1>4, <2>1 DEF vars, JobCurrent
  <2>3. KeyedRows' /\ OneOutstandingRow' /\ AckInTime'
    BY <1>4 DEF vars, SerialPullInv, KeyedRows, OneOutstandingRow, AckInTime
  <2> QED BY <2>2, <2>3 DEF SerialPullInv
<1> QED BY <1>2, <1>3, <1>4 DEF Next

\* consume_messages with one worker: a message has at most one row under deadline.
THEOREM SerialOneRow ==
  ASSUME \A v, u \in Worker : v = u
  PROVE  Spec => []OneOutstandingRow
<1>1. Init => SoundInv /\ SerialPullInv
  BY SoundInit, SerialInit
<1>2. SoundInv /\ SerialPullInv /\ [Next]_vars => (SoundInv /\ SerialPullInv)'
  BY SoundStep, SerialStep
<1>3. SerialPullInv => OneOutstandingRow
  BY DEF SerialPullInv
<1> QED BY <1>1, <1>2, <1>3, PTL DEF Spec

\* acknowledges_the_ack_ids with one worker: the offsets an acknowledgement commits
\* are those of messages whose deadline had not passed when it came in.
THEOREM SerialAckInTime ==
  ASSUME \A v, u \in Worker : v = u
  PROVE  Spec => []AckInTime
<1>1. Init => SoundInv /\ SerialPullInv
  BY SoundInit, SerialInit
<1>2. SoundInv /\ SerialPullInv /\ [Next]_vars => (SoundInv /\ SerialPullInv)'
  BY SoundStep, SerialStep
<1>3. SerialPullInv => AckInTime
  BY DEF SerialPullInv
<1> QED BY <1>1, <1>2, <1>3, PTL DEF Spec
-----------------------------------------------------------------------------
(* Every step is one of Lease, or none.                                    *)

\* At most one row of a message is under deadline.
Apart(rows) == \A q, r \in Outstanding(rows) : q.ackId = r.ackId => q = r

\* A message is leased to the subscription of its row.
LEMMA HolderIs ==
  ASSUME NEW rows, Apart(rows), NEW a \in AckId
  PROVE  /\ \A r \in Outstanding(rows) : r.ackId = a => HolderIn(rows)[a] = r.sub
         /\ (\A r \in Outstanding(rows) : r.ackId # a) => HolderIn(rows)[a] = NoWorker
<1> DEFINE f == HolderIn(rows)[a]
           c == CHOOSE q \in Outstanding(rows) : q.ackId = a
<1>1. f = IF \E r \in Outstanding(rows) : r.ackId = a THEN c.sub ELSE NoWorker
  BY DEF HolderIn
<1>2. ASSUME NEW r \in Outstanding(rows), r.ackId = a PROVE f = r.sub
  <2>1. c \in Outstanding(rows) /\ c.ackId = a
    BY <1>2
  <2>2. c = r
    BY <1>2, <2>1 DEF Apart
  <2> QED BY <1>1, <1>2, <2>2
<1>3. ASSUME \A r \in Outstanding(rows) : r.ackId # a PROVE f = NoWorker
  BY <1>1, <1>3
<1> QED BY <1>2, <1>3

\* Rows that are no more under deadline release their leases.
LEMMA LeasesEnd ==
  ASSUME NEW old, NEW new, Apart(old), Outstanding(new) \subseteq Outstanding(old)
  PROVE  \E A \in SUBSET AckId :
           HolderIn(new) = [a \in AckId |-> IF a \in A THEN NoWorker ELSE HolderIn(old)[a]]
<1> DEFINE A == {a \in AckId : \A r \in Outstanding(new) : r.ackId # a}
           G == [a \in AckId |-> IF a \in A THEN NoWorker ELSE HolderIn(old)[a]]
<1>1. Apart(new)
  BY DEF Apart
<1>2. ASSUME NEW a \in AckId PROVE HolderIn(new)[a] = G[a]
  <2>1. CASE a \in A
    BY <1>1, <2>1, HolderIs
  <2>2. CASE a \notin A
    <3>1. PICK r \in Outstanding(new) : r.ackId = a
      BY <2>2
    <3>2. HolderIn(new)[a] = r.sub /\ HolderIn(old)[a] = r.sub
      BY <1>1, <3>1, HolderIs
    <3> QED BY <2>2, <3>2
  <2> QED BY <2>1, <2>2
<1>3. HolderIn(new) = [a \in AckId |-> HolderIn(new)[a]]
  BY DEF HolderIn
<1>4. G = [a \in AckId |-> G[a]]
  OBVIOUS
<1>5. HolderIn(new) = G
  BY <1>2, <1>3, <1>4
<1> QED BY <1>5

\* Rows whose times change keep their leases.
LEMMA LeasesStay ==
  ASSUME NEW old, NEW new, Apart(old), Apart(new),
         \A r \in Outstanding(new) : \E q \in Outstanding(old) : q.ackId = r.ackId /\ q.sub = r.sub,
         \A q \in Outstanding(old) : \E r \in Outstanding(new) : q.ackId = r.ackId
  PROVE  HolderIn(new) = HolderIn(old)
<1>1. ASSUME NEW a \in AckId PROVE HolderIn(new)[a] = HolderIn(old)[a]
  <2>1. CASE \E r \in Outstanding(new) : r.ackId = a
    <3>1. PICK r \in Outstanding(new) : r.ackId = a
      BY <2>1
    <3>2. PICK q \in Outstanding(old) : q.ackId = r.ackId /\ q.sub = r.sub
      OBVIOUS
    <3>3. HolderIn(new)[a] = r.sub
      BY <3>1, HolderIs
    <3>4. HolderIn(old)[a] = q.sub
      BY <3>1, <3>2, HolderIs
    <3> QED BY <3>2, <3>3, <3>4
  <2>2. CASE \A r \in Outstanding(new) : r.ackId # a
    <3>1. \A q \in Outstanding(old) : q.ackId # a
      BY <2>2
    <3>2. HolderIn(new)[a] = NoWorker
      BY <2>2, HolderIs
    <3>3. HolderIn(old)[a] = NoWorker
      BY <3>1, HolderIs
    <3> QED BY <3>2, <3>3
  <2> QED BY <2>1, <2>2
<1>2. HolderIn(new) = [a \in AckId |-> HolderIn(new)[a]]
  BY DEF HolderIn
<1>3. HolderIn(old) = [a \in AckId |-> HolderIn(old)[a]]
  BY DEF HolderIn
<1> QED BY <1>1, <1>2, <1>3

LEMMA LeaseStartsEmpty == Init => L!LeaseInit
<1> SUFFICES ASSUME Init PROVE L!LeaseInit
  OBVIOUS
<1>1. Outstanding(ackIds) = {}
  BY DEF Init, Outstanding
<1>2. Holder = [a \in AckId |-> NoWorker]
  BY <1>1 DEF Holder, HolderIn
<1>3. LastCommitted = [s \in Subscription |-> [t \in Topic |-> NoWorker]]
  BY DEF Init, LastCommitted
<1> QED BY <1>2, <1>3 DEF Init, L!LeaseInit

\* Nothing of a lease is touched.
LEMMA LeaseUntouched ==
  ASSUME UNCHANGED <<ackIds, committed, delivered>>
  PROVE  UNCHANGED L!leaseVars
<1>1. Holder' = Holder
  BY DEF Holder
<1>2. LastCommitted' = LastCommitted
  BY DEF LastCommitted
<1> QED BY <1>1, <1>2 DEF L!leaseVars

\* Rows expire or are deleted.
LEMMA LeaseReleased ==
  ASSUME SerialPullInv, Outstanding(ackIds') \subseteq Outstanding(ackIds),
         UNCHANGED <<committed, delivered>>
  PROVE  L!LeaseNext
<1>1. PICK A \in SUBSET AckId :
        HolderIn(ackIds') = [a \in AckId |-> IF a \in A THEN NoWorker ELSE HolderIn(ackIds)[a]]
  BY LeasesEnd DEF SerialPullInv, OneOutstandingRow, Apart
<1>2. LastCommitted' = LastCommitted
  BY DEF LastCommitted
<1>3. L!Release(A)
  BY <1>1, <1>2 DEF Holder, L!Release
<1> QED BY <1>3 DEF L!LeaseNext

LEMMA LeaseGranted ==
  ASSUME SoundInv, SerialPullInv, NEW w \in Worker, InsertRow(w), SerialPullInv'
  PROVE  L!LeaseNext
<1> DEFINE s == job[w].sub
           a == Log[TopicFor(w)][job[w].hand + 1]
           row == [id |-> nextId, ackId |-> a, sub |-> s,
                   topic |-> TopicFor(w), offset |-> job[w].hand,
                   time |-> Stored(job[w].detector), status |-> "deadLine"]
<1>1. /\ ackIds' = ackIds \cup {row} /\ UNCHANGED <<committed, delivered>>
      /\ job[w].pc = "insert"
  BY DEF InsertRow, kafkaVars
<1>2. \A r \in Outstanding(ackIds) : r.ackId # a
  BY <1>1 DEF SerialPullInv, JobCurrent, TopicFor
<1>3. s \in Subscription /\ a \in AckId
  <2>1. /\ job[w].hand \in Nat /\ s \in Subscription
        /\ job[w].hand < Len(Log[TopicOf[s]]) /\ TopicOf[s] \in Topic
    BY <1>1, JobNumbers, JobFields DEF JobSound
  <2>2. Log[TopicOf[s]] \in Seq(AckId)
    BY <2>1
  <2> HIDE DEF s
  <2>3. Log[TopicOf[s]][job[w].hand + 1] \in AckId
    BY <2>1, <2>2
  <2> QED BY <2>1, <2>3 DEF s, TopicFor
<1>4. row.ackId = a /\ row.sub = s /\ row.status = "deadLine"
  OBVIOUS
<1> HIDE DEF row, a, s
<1>5. Outstanding(ackIds') = Outstanding(ackIds) \cup {row}
  BY <1>1, <1>4 DEF Outstanding
<1>6. Apart(ackIds) /\ Apart(ackIds')
  BY DEF SerialPullInv, OneOutstandingRow, Apart
<1>7. HolderIn(ackIds)[a] = NoWorker
  BY <1>2, <1>3, <1>6, HolderIs
<1>8. HolderIn(ackIds') = [HolderIn(ackIds) EXCEPT ![a] = s]
  <2>1. ASSUME NEW b \in AckId
        PROVE  HolderIn(ackIds')[b] = IF b = a THEN s ELSE HolderIn(ackIds)[b]
    <3>1. CASE b = a
      BY <1>4, <1>5, <1>6, <3>1, HolderIs
    <3>2. CASE b # a /\ \E r \in Outstanding(ackIds) : r.ackId = b
      <4>1. PICK r \in Outstanding(ackIds) : r.ackId = b
        BY <3>2
      <4>2. HolderIn(ackIds)[b] = r.sub
        BY <1>6, <4>1, HolderIs
      <4>3. HolderIn(ackIds')[b] = r.sub
        BY <1>5, <1>6, <4>1, HolderIs
      <4> QED BY <3>2, <4>2, <4>3
    <3>3. CASE b # a /\ \A r \in Outstanding(ackIds) : r.ackId # b
      <4>1. \A r \in Outstanding(ackIds') : r.ackId # b
        BY <1>4, <1>5, <3>3
      <4>2. HolderIn(ackIds)[b] = NoWorker
        BY <1>6, <3>3, HolderIs
      <4>3. HolderIn(ackIds')[b] = NoWorker
        BY <1>6, <4>1, HolderIs
      <4> QED BY <3>3, <4>2, <4>3
    <3> QED BY <3>1, <3>2, <3>3
  <2>2. HolderIn(ackIds') = [b \in AckId |-> HolderIn(ackIds')[b]]
    BY DEF HolderIn
  <2>3. HolderIn(ackIds) = [b \in AckId |-> HolderIn(ackIds)[b]]
    BY DEF HolderIn
  <2>4. [HolderIn(ackIds) EXCEPT ![a] = s]
          = [b \in AckId |-> IF b = a THEN s ELSE HolderIn(ackIds)[b]]
    BY <2>3
  <2> QED BY <2>1, <2>2, <2>4
<1>9. LastCommitted' = LastCommitted
  BY <1>1 DEF LastCommitted
<1>10. L!Grant(a, s)
  BY <1>1, <1>7, <1>8, <1>9 DEF Holder, L!Grant
<1> QED BY <1>3, <1>10 DEF L!LeaseNext

LEMMA LeaseDelivered ==
  ASSUME SoundInv, SerialPullInv, SerialPullInv', NEW w \in Worker, Deliver(w)
  PROVE  L!LeaseNext
<1> DEFINE upd(r) == IF r.time = job[w].detector THEN [r EXCEPT !.time = Stored(clock)] ELSE r
<1>1. /\ ackIds' = {upd(r) : r \in ackIds} /\ UNCHANGED committed
      /\ delivered' = [delivered EXCEPT ![job[w].sub] = @ \cup job[w].got]
  BY DEF Deliver
<1>2. \A r \in ackIds : /\ upd(r).ackId = r.ackId /\ upd(r).sub = r.sub
                         /\ upd(r).status = r.status
  BY DEF SoundInv, TypeOK, Row
<1> HIDE DEF upd
<1>3. Apart(ackIds) /\ Apart(ackIds')
  BY DEF SerialPullInv, OneOutstandingRow, Apart
<1>4. \A r \in Outstanding(ackIds') :
        \E q \in Outstanding(ackIds) : q.ackId = r.ackId /\ q.sub = r.sub
  <2>1. \A r \in ackIds' : \E q \in ackIds : r = upd(q)
    BY <1>1
  <2> QED BY <1>2, <2>1 DEF Outstanding
<1>5. \A q \in Outstanding(ackIds) : \E r \in Outstanding(ackIds') : q.ackId = r.ackId
  BY <1>1, <1>2 DEF Outstanding
<1>6. Holder' = Holder
  BY <1>3, <1>4, <1>5, LeasesStay DEF Holder
<1>7. LastCommitted' = LastCommitted
  BY <1>1 DEF LastCommitted
<1>8. job[w].sub \in Subscription /\ job[w].got \subseteq AckId
  BY DEF SoundInv, TypeOK, Job
<1>9. ASSUME NEW a \in job[w].got PROVE Holder[a] = job[w].sub
  <2>1. PICK r \in Outstanding(ackIds) : r.ackId = a /\ r.sub = job[w].sub
    BY <1>9 DEF SerialPullInv, JobCurrent
  <2> QED BY <1>3, <1>8, <1>9, <2>1, HolderIs DEF Holder
<1>10. L!Deliver(job[w].sub, job[w].got)
  BY <1>1, <1>6, <1>7, <1>9 DEF L!Deliver
<1> QED BY <1>8, <1>10 DEF L!LeaseNext

LEMMA LeaseAcknowledged ==
  ASSUME SoundInv, SerialPullInv, NEW w \in Worker, CommitOffset(w)
  PROVE  L!LeaseNext
<1> DEFINE s == job[w].sub
<1>1. PICK r \in job[w].matched :
        committed' = [committed EXCEPT ![s][r.topic] = NextOffset(r)]
  BY DEF CommitOffset
<1>2. UNCHANGED <<ackIds, delivered>>
  BY DEF CommitOffset, dbVars, obsVars
<1>3. /\ r \in Row /\ s \in Subscription /\ Faithful(r)
      /\ r \in Outstanding(ackIds)
  BY JobFields DEF JobSound, Job, SerialPullInv, JobCurrent
<1>4. r.ackId \in AckId /\ r.topic \in Topic /\ r.offset \in Nat /\ r.sub \in Subscription
  BY <1>3 DEF Row
<1>5. NextOffset(r) # 0 /\ Log[r.topic][NextOffset(r)] = r.ackId
  BY <1>3, <1>4 DEF NextOffset, Faithful
<1>6. committed \in [Subscription -> [Topic -> Nat]]
  BY DEF SoundInv, TypeOK
<1> DEFINE u(c, x, t) == IF c[x][t] = 0 THEN NoWorker ELSE Log[t][c[x][t]]
<1>7. LastCommitted' = [LastCommitted EXCEPT ![s][r.topic] = r.ackId]
  <2>1. ASSUME NEW x \in Subscription, NEW t \in Topic
        PROVE  u(committed', x, t) = IF x = s /\ t = r.topic THEN r.ackId ELSE u(committed, x, t)
    <3>1. committed'[x][t] = IF x = s /\ t = r.topic THEN NextOffset(r) ELSE committed[x][t]
      BY <1>1, <1>3, <1>4, <1>6
    <3> QED BY <1>5, <3>1
  <2>2. LastCommitted = [x \in Subscription |-> [t \in Topic |-> u(committed, x, t)]]
    BY DEF LastCommitted
  <2>3. LastCommitted' = [x \in Subscription |-> [t \in Topic |-> u(committed', x, t)]]
    BY DEF LastCommitted
  <2> HIDE DEF u, s
  <2>4. LastCommitted' = [x \in Subscription |-> [t \in Topic |->
          IF x = s /\ t = r.topic THEN r.ackId ELSE u(committed, x, t)]]
    BY <2>1, <2>3
  <2>5. [LastCommitted EXCEPT ![s][r.topic] = r.ackId]
          = [x \in Subscription |-> [t \in Topic |->
               IF x = s /\ t = r.topic THEN r.ackId ELSE u(committed, x, t)]]
    BY <1>3, <1>4, <2>2
  <2> QED BY <2>4, <2>5
<1>8. Holder' = Holder
  BY <1>2 DEF Holder
<1>9. Holder[r.ackId] # NoWorker
  <2>1. Holder[r.ackId] = r.sub
    BY <1>3, <1>4, HolderIs DEF Holder, Apart, SerialPullInv, OneOutstandingRow
  <2> QED BY <1>4, <2>1, LeaseAssumption
<1>10. L!Acknowledge(s, r.topic, r.ackId)
  BY <1>2, <1>3, <1>7, <1>8, <1>9 DEF L!Acknowledge
<1> QED BY <1>3, <1>4, <1>10 DEF L!LeaseNext

LEMMA LeaseStep ==
  ASSUME \A v, u \in Worker : v = u, SoundInv, SerialPullInv, [Next]_vars
  PROVE  [L!LeaseNext]_(L!leaseVars)
<1>1. SerialPullInv'
  BY SerialStep
<1>2. CASE UNCHANGED <<ackIds, committed, delivered>>
  BY <1>2, LeaseUntouched
<1>3. CASE Tick \/ UNCHANGED vars
  BY <1>3, LeaseUntouched DEF Tick, dbVars, kafkaVars, obsVars, vars
<1>4. ASSUME NEW w \in Worker, ReceivePull(w) \/ ReceiveAck(w) \/ Step(w) \/ Fail(w)
      PROVE  [L!LeaseNext]_(L!leaseVars)
  <2>1. CASE ReceivePull(w) \/ ReceiveAck(w)
    BY <2>1, LeaseUntouched DEF ReceivePull, ReceiveAck, Receive, dbVars, kafkaVars
  <2>2. CASE \/ RetryRegister(w) \/ RetryCheck(w) \/ RetryCommit(w) \/ Assign(w)
             \/ PollMessage(w) \/ PollNothing(w) \/ Match(w) \/ Fail(w)
    BY <2>2, LeaseUntouched
    DEF RetryRegister, RetryCheck, RetryCommit, Assign, PollMessage, PollNothing, Match, Fail,
        dbVars, kafkaVars, obsVars
  <2>3. CASE ExpireRow(w)
    <3>1. UNCHANGED <<committed, delivered>>
      BY <2>3 DEF ExpireRow, obsVars
    <3>2. \/ ackIds' = ackIds
          \/ \E r \in ackIds : ackIds' = (ackIds \ {r}) \cup {[r EXCEPT !.status = "unAck"]}
      BY <2>3 DEF ExpireRow
    <3>3. Outstanding(ackIds') \subseteq Outstanding(ackIds)
      <4>1. \A r \in ackIds : [r EXCEPT !.status = "unAck"].status = "unAck"
        BY DEF SoundInv, TypeOK, Row
      <4> QED BY <3>2, <4>1 DEF Outstanding
    <3> QED BY <3>1, <3>3, LeaseReleased
  <2>4. CASE DeleteBatch(w)
    <3>1. UNCHANGED <<committed, delivered>> /\ ackIds' \subseteq ackIds
      BY <2>4 DEF DeleteBatch, obsVars
    <3>2. Outstanding(ackIds') \subseteq Outstanding(ackIds)
      BY <3>1 DEF Outstanding
    <3> QED BY <3>1, <3>2, LeaseReleased
  <2>5. CASE InsertRow(w)
    BY <1>1, <2>5, LeaseGranted
  <2>6. CASE Deliver(w)
    BY <1>1, <2>6, LeaseDelivered
  <2>7. CASE CommitOffset(w)
    BY <2>7, LeaseAcknowledged
  <2> QED BY <1>4, <2>1, <2>2, <2>3, <2>4, <2>5, <2>6, <2>7 DEF Step
<1> QED BY <1>3, <1>4 DEF Next

\* The pull and acknowledge endpoints of one worker implement Lease, for any number
\* of subscriptions, topics and messages.
THEOREM SerialLease ==
  ASSUME \A v, u \in Worker : v = u
  PROVE  Spec => ImplementsLease
<1>1. Init => SoundInv /\ SerialPullInv /\ L!LeaseInit
  BY SoundInit, SerialInit, LeaseStartsEmpty
<1>2. SoundInv /\ SerialPullInv /\ [Next]_vars => (SoundInv /\ SerialPullInv)'
  BY SoundStep, SerialStep
<1>3. SoundInv /\ SerialPullInv /\ [Next]_vars => [L!LeaseNext]_(L!leaseVars)
  BY LeaseStep
<1> QED BY <1>1, <1>2, <1>3, PTL DEF Spec, ImplementsLease, L!LeaseSpec
=============================================================================
