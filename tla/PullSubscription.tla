-------------------------- MODULE PullSubscription --------------------------
(***************************************************************************)
(* The pull and acknowledge handlers of pull_subscription_service.py, run  *)
(* by several worker processes over one MySQL database and one Kafka       *)
(* cluster.                                                                *)
(*                                                                         *)
(* A worker serves one request at a time (the handlers are "async def" and *)
(* block); the steps of different workers interleave at every database     *)
(* commit and at every Kafka call.  Each request has a SQLAlchemy session; *)
(* InnoDB's REPEATABLE READ makes its reads come from the snapshot taken   *)
(* by the first read after the last commit, kept here in "view".  UPDATE   *)
(* and DELETE see the latest rows instead.                                 *)
(***************************************************************************)
EXTENDS RetryPolicy, FiniteSets, Sequences

CONSTANTS
  Worker,          \* server processes
  NoWorker,        \* a value that is no worker
  Subscription,
  Topic,
  AckId,           \* sha512 of a message and its timestamp
  Log,             \* Log[t]: the ackIds of topic t's messages, in offset order
  TopicOf,         \* the topic of a subscription
  AckDeadline,     \* ackDeadlineSeconds of a subscription, in ticks
  MinBackoff,      \* minimumBackoff of a subscription, in ticks
  MaxBackoff,      \* maximumBackoff of a subscription, in ticks
  TicksPerSecond,  \* a DATETIME column keeps whole seconds
  MayFail,         \* whether workers crash and calls fail
  MaxMessages,     \* MAX_MESSAGES_TO_CONSUME
  PollLimit,       \* un_consume_poll_limit
  MaxTime,         \* bound on the clock
  MaxRequests      \* bound on the requests ever received

ASSUME ConstantsAssumption ==
  /\ NoWorker \notin Worker
  /\ Subscription # {}
  /\ Log \in [Topic -> Seq(AckId)]
  /\ TopicOf \in [Subscription -> Topic]
  /\ AckDeadline \in [Subscription -> Nat]
  /\ MinBackoff \in [Subscription -> Nat]
  /\ MaxBackoff \in [Subscription -> Nat]
  /\ TicksPerSecond \in Nat \ {0}
  /\ MayFail \in BOOLEAN
  /\ MaxMessages \in Nat
  /\ PollLimit \in Nat
  /\ MaxTime \in Nat
  /\ MaxRequests \in Nat

VARIABLES
  clock,
  \* the database
  ackIds,      \* the rows of table ackIds
  nextId,      \* its AUTO_INCREMENT counter
  retry,       \* retry[s]: the rows of table retry for s, in primary key order
  \* Kafka
  committed,   \* committed[s][t]: the offset s's consumer group has committed
  owner,       \* owner[s]: the member that holds the partition of s's topic
  \* the workers
  job,         \* job[w]: the request worker w is serving, see Job
  \* what the clients and an observer know
  requests,    \* requests received so far
  delivered,   \* delivered[s]: the ackIds some response has carried to s
  claimed,     \* the <<topic, offset>> pairs that ever had a row in ackIds
  strayed      \* strayed[s]: the ackIds that acknowledgements of s have named
               \* before any response carried them to s

dbVars    == <<ackIds, nextId, retry>>
kafkaVars == <<committed, owner>>
obsVars   == <<requests, delivered, claimed, strayed>>
vars == <<clock, ackIds, nextId, retry, committed, owner, job, requests,
          delivered, claimed, strayed>>

-----------------------------------------------------------------------------
(* The rows, the snapshots and the clock.                                  *)

Row == [id : Nat, ackId : AckId, sub : Subscription, topic : Topic,
        offset : Nat, time : Int, status : {"deadLine", "unAck"}]

RetryRow == [first : Int, hit : Nat]

\* A DATETIME column has no fractional seconds: MySQL rounds what it stores,
\* while the value the handler keeps and later compares with stays exact.
Stored(t) ==
  TicksPerSecond * ((2 * t + TicksPerSecond) \div (2 * TicksPerSecond))

Expired(r) == r.time < clock - AckDeadline[r.sub]

Outstanding(rows) == {r \in rows : r.status = "deadLine"}

View == [open : BOOLEAN, rows : SUBSET Row, retried : SUBSET Subscription]

Closed == [open |-> FALSE, rows |-> {}, retried |-> {}]

Snapshot == [open    |-> TRUE, rows |-> ackIds,
             retried |-> {s \in Subscription : retry[s] # <<>>}]

\* Rows come in primary key order.
Lowest(r, rows) == r \in rows /\ \A q \in rows : r.id <= q.id

-----------------------------------------------------------------------------
(* The request a worker serves.                                            *)

Job == [pc       : {"idle", "expire", "retry", "consume", "insert", "commit",
                    "hung"},
        op       : {"pull", "ack"},
        sub      : Subscription,             \* SubscriptionName
        asked    : SUBSET AckId,             \* ack: ackIds sent by the user
        since    : Nat,                      \* ack: when it was received
        view     : View,                     \* the session's snapshot
        pending  : SUBSET Nat,               \* ids of rows still to be expired
        decision : Decision,                 \* pull: the retry check's answer
        hit      : Nat,                      \* pull: hit_backoff as it was read
        want     : Nat,                      \* pull: msg_count
        polls    : Nat,                      \* pull: un_consume_poll_limit
        detector : Nat,                      \* pull: marks this pull's rows
        pos      : Nat,                      \* pull: position in the topic
        hand     : Nat,                      \* pull: offset of the message in hand
        got      : SUBSET AckId,             \* pull: messages to render
        matched  : SUBSET Row,               \* ack: rows still to be committed
        uniqueTime : Int]                    \* ack: time of the first match

Idle == [pc |-> "idle", op |-> "pull", sub |-> CHOOSE s \in Subscription : TRUE,
         asked |-> {}, since |-> 0, view |-> Closed, pending |-> {},
         decision |-> Decide("open", 0), hit |-> 0, want |-> 0, polls |-> 0,
         detector |-> 0, pos |-> 0, hand |-> 0, got |-> {}, matched |-> {},
         uniqueTime |-> 0]

Becomes(w, j) == job' = [job EXCEPT ![w] = j]

\* What a SELECT of worker w's session reads.
Seen(w) == IF job[w].view.open THEN job[w].view ELSE Snapshot

TopicFor(w) == TopicOf[job[w].sub]

\* A member joins or leaves s's group: the partition is taken away from whoever
\* holds it, to be assigned anew.
Rebalance(s) == owner' = [owner EXCEPT ![s] = NoWorker]

\* The handler returns or raises; the session is rolled back and a consumer,
\* if there is one, leaves its group.
Finish(w) ==
  /\ Becomes(w, Idle)
  /\ IF job[w].pc \in {"consume", "insert", "commit"}
     THEN Rebalance(job[w].sub)
     ELSE UNCHANGED owner

Init ==
  /\ clock = 0
  /\ ackIds = {} /\ nextId = 1
  /\ retry = [s \in Subscription |-> <<>>]
  /\ committed = [s \in Subscription |-> [t \in Topic |-> 0]]
  /\ owner = [s \in Subscription |-> NoWorker]
  /\ job = [w \in Worker |-> Idle]
  /\ requests = 0
  /\ delivered = [s \in Subscription |-> {}]
  /\ claimed = {}
  /\ strayed = [s \in Subscription |-> {}]

-----------------------------------------------------------------------------
(* Both handlers: the request and auto_update_the_ack_table.               *)

\* get_subscription_detail found the subscription, and the rows under deadline
\* have been loaded.  A request that ends before this point changes nothing.
Receive(w, j) ==
  /\ job[w].pc = "idle"
  /\ requests < MaxRequests
  /\ requests' = requests + 1
  /\ Becomes(w, [j EXCEPT !.pc = "expire", !.view = Snapshot,
                          !.pending = {r.id : r \in Outstanding(ackIds)}])
  /\ UNCHANGED <<clock, dbVars, kafkaVars, delivered, claimed>>

ReceivePull(w) ==
  /\ \E s \in Subscription, n \in 1..MaxMessages :
       Receive(w, [Idle EXCEPT !.op = "pull", !.sub = s, !.want = n])
  /\ UNCHANGED strayed

\* The user sends any list of strings: ackIds it was given for this subscription, or
\* for another one of the topic (they are the same), or before anyone was given them.
\* Strings that are no message's ackId match nothing.
ReceiveAck(w) ==
  \E s \in Subscription, A \in SUBSET AckId :
    /\ Receive(w, [Idle EXCEPT !.op = "ack", !.sub = s, !.asked = A,
                             !.since = clock])
    /\ strayed' = [strayed EXCEPT ![s] = @ \cup (A \ delivered[s])]

\* One turn of the loop over the loaded rows.  After a commit the row is read
\* again, and has gone if an acknowledgement deleted it: ObjectDeletedError.  A
\* row that another worker has expired is not written again.  A row that has gone
\* since the snapshot cannot be written: StaleDataError.
ExpireRow(w) ==
  /\ job[w].pc = "expire"
  /\ \E i \in job[w].pending :
       /\ \A k \in job[w].pending : i <= k
       /\ LET copies == {r \in Seen(w).rows : r.id = i}
              late   == Outstanding({r \in copies : Expired(r)})
              rest   == job[w].pending \ {i}
          IN \/ /\ \E r \in copies : ~Expired(r)
                /\ Becomes(w, [job[w] EXCEPT !.pending = rest, !.view = Seen(w)])
                /\ UNCHANGED <<ackIds, owner>>
             \/ /\ \E r \in copies : Expired(r) /\ r.status = "unAck"
                /\ Becomes(w, [job[w] EXCEPT !.pending = rest, !.view = Closed])
                /\ UNCHANGED <<ackIds, owner>>
             \/ /\ late # {}
                /\ \E r \in ackIds :
                     /\ r.id = i
                     /\ ackIds' = (ackIds \ {r})
                                    \cup {[r EXCEPT !.status = "unAck"]}
                /\ Becomes(w, [job[w] EXCEPT !.pending = rest, !.view = Closed])
                /\ UNCHANGED owner
             \/ /\ copies = {} \/ (late # {} /\ \A r \in ackIds : r.id # i)
                /\ Finish(w)
                /\ UNCHANGED ackIds
  /\ UNCHANGED <<clock, nextId, retry, committed, obsVars>>

AckTableUpdated(w) == job[w].pc = "expire" /\ job[w].pending = {}

-----------------------------------------------------------------------------
(* The pull handler.                                                       *)

\* A consumer is created and joins the group; detector is taken.
StartConsumer(w, j) ==
  /\ Becomes(w, [j EXCEPT !.pc = "consume", !.decision = Idle.decision, !.hit = 0,
                          !.polls = PollLimit, !.detector = clock])
  /\ Rebalance(j.sub)

\* Mutant: the row is not looked up, one is inserted for every pull.
MutantRetryRegister(w) ==
  LET s == job[w].sub IN
  /\ AckTableUpdated(w) /\ job[w].op = "pull"
  /\ retry' = [retry EXCEPT ![s] = Append(@, [first |-> Stored(clock), hit |-> 0])]
  /\ StartConsumer(w, [job[w] EXCEPT !.view = Closed])
  /\ UNCHANGED <<clock, ackIds, nextId, committed, obsVars>>

\* The session has not seen a row for the subscription: one is inserted.
RetryRegister(w) ==
  LET s == job[w].sub IN
  /\ AckTableUpdated(w) /\ job[w].op = "pull"
  /\ s \notin Seen(w).retried
  /\ retry' = [retry EXCEPT ![s] = Append(@, [first |-> Stored(clock), hit |-> 0])]
  /\ StartConsumer(w, [job[w] EXCEPT !.view = Closed])
  /\ UNCHANGED <<clock, ackIds, nextId, committed, obsVars>>

\* most_recent_pull_time is updated and committed, the row is read again in a
\* new transaction, and the answer is worked out.  A grant that writes nothing
\* leaves that transaction open.
RetryCheck(w) ==
  LET s == job[w].sub
      d == RetryDecision(clock - retry[s][1].first, retry[s][1].hit,
                         MinBackoff[s], MaxBackoff[s], AckDeadline[s])
  IN
  /\ AckTableUpdated(w) /\ job[w].op = "pull"
  /\ s \in Seen(w).retried
  /\ \/ /\ d.kind = "open"
        /\ StartConsumer(w, [job[w] EXCEPT !.view = Snapshot])
     \/ /\ d.kind \in {"reset", "slot"}
        /\ Becomes(w, [job[w] EXCEPT !.pc = "retry", !.decision = d, !.view = Closed,
                                     !.hit = retry[s][1].hit, !.detector = clock])
        /\ UNCHANGED owner
     \/ /\ d.kind \in {"empty", "error"}
        /\ Finish(w)
     \/ /\ d.kind = "hang"
        /\ Becomes(w, [job[w] EXCEPT !.pc = "hung"])
        /\ UNCHANGED owner
  /\ UNCHANGED <<clock, dbVars, committed, obsVars>>

\* The new cycle or the used slot is committed.  SQLAlchemy does not write a hit_backoff
\* of 0 that it has read as 0.
RetryCommit(w) ==
  LET s == job[w].sub
      d == job[w].decision
  IN
  /\ job[w].pc = "retry"
  /\ retry' = [retry EXCEPT ![s][1] =
                 IF d.kind = "reset"
                 THEN [first |-> Stored(job[w].detector),
                       hit |-> IF job[w].hit = 0 THEN @.hit ELSE 0]
                 ELSE [@ EXCEPT !.hit = d.slot]]
  /\ StartConsumer(w, job[w])
  /\ UNCHANGED <<clock, ackIds, nextId, committed, obsVars>>

\* The group coordinator gives the partition to a member, which starts from the
\* committed offset ('auto.offset.reset': 'earliest').
Assign(w) ==
  LET s == job[w].sub IN
  /\ job[w].pc \in {"consume", "insert"}
  /\ owner[s] = NoWorker
  /\ owner' = [owner EXCEPT ![s] = w]
  /\ Becomes(w, [job[w] EXCEPT !.pos = committed[s][TopicFor(w)]])
  /\ UNCHANGED <<clock, dbVars, committed, obsVars>>

\* Mutant: the loop does not look at un_consume_poll_limit.
MutantPolling(w) == job[w].pc = "consume" /\ job[w].want > 0

\* The loop of consume_messages goes on.
Polling(w) == job[w].pc = "consume" /\ job[w].want > 0 /\ job[w].polls > 0

\* Mutant: only rows of the subscription itself are searched for.
MutantUnderDeadline(w, a) ==
  \E r \in Outstanding(Seen(w).rows) : r.ackId = a /\ r.sub = job[w].sub

\* The ackIds table has a row, of any subscription, that is under deadline.
UnderDeadline(w, a) == \E r \in Outstanding(Seen(w).rows) : r.ackId = a

\* poll returns the next message, which is skipped or kept for insertion.
PollMessage(w) ==
  LET j == job[w]
      a == Log[TopicFor(w)][j.pos + 1]
  IN
  /\ Polling(w)
  /\ owner[j.sub] = w
  /\ j.pos < Len(Log[TopicFor(w)])
  /\ IF UnderDeadline(w, a)
     THEN Becomes(w, [j EXCEPT !.pos = @ + 1, !.view = Seen(w)])
     ELSE Becomes(w, [j EXCEPT !.pc = "insert", !.pos = @ + 1, !.hand = j.pos,
                               !.view = Seen(w)])
  /\ UNCHANGED <<clock, dbVars, kafkaVars, obsVars>>

\* Mutant: a poll without a message is not counted.
MutantPollNothing(w) ==
  /\ Polling(w)
  /\ UNCHANGED vars

\* poll times out: no message in five seconds.
PollNothing(w) ==
  /\ Polling(w)
  /\ Becomes(w, [job[w] EXCEPT !.polls = @ - 1])
  /\ UNCHANGED <<clock, dbVars, kafkaVars, obsVars>>

\* The message in hand gets a row, which is committed.
InsertRow(w) ==
  LET j == job[w]
      a == Log[TopicFor(w)][j.hand + 1]
  IN
  /\ j.pc = "insert"
  /\ ackIds' = ackIds \cup {[id |-> nextId, ackId |-> a, sub |-> j.sub,
                             topic |-> TopicFor(w), offset |-> j.hand,
                             time |-> Stored(j.detector), status |-> "deadLine"]}
  /\ nextId' = nextId + 1
  /\ claimed' = claimed \cup {<<TopicFor(w), j.hand>>}
  /\ Becomes(w, [j EXCEPT !.pc = "consume", !.want = @ - 1, !.view = Closed,
                          !.hand = 0, !.got = @ \cup {a}])
  /\ UNCHANGED <<clock, retry, kafkaVars, requests, delivered, strayed>>

\* The rows whose time is still the detector's get the delivery time, and the
\* response carries the messages.
Deliver(w) ==
  LET j == job[w] IN
  /\ j.pc = "consume" /\ ~Polling(w)
  /\ ackIds' = {IF r.time = j.detector THEN [r EXCEPT !.time = Stored(clock)]
                                       ELSE r : r \in ackIds}
  /\ delivered' = [delivered EXCEPT ![j.sub] = @ \cup j.got]
  /\ Finish(w)
  /\ UNCHANGED <<clock, nextId, retry, committed, requests, claimed, strayed>>

-----------------------------------------------------------------------------
(* The acknowledge handler.                                                *)

\* Mutant: the ackIds of the request are not looked at.
MutantAnyMatched(w) == Outstanding(Seen(w).rows)

\* Mutant: the status of the rows is not looked at.
MutantStaleMatched(w) == {r \in Seen(w).rows : r.ackId \in job[w].asked}

\* The rows of any subscription that carry one of the ackIds and are still under
\* deadline.
MatchedRows(w) == {r \in Outstanding(Seen(w).rows) : r.ackId \in job[w].asked}

\* With no match the answer is 400 "acknowledgement deadline over".  The session's
\* snapshot is not read any more after this.
Match(w) ==
  LET j == job[w]
      rows == MatchedRows(w)
  IN
  /\ AckTableUpdated(w) /\ j.op = "ack"
  /\ \/ /\ rows = {}
        /\ Finish(w)
     \/ \E first \in rows :
          /\ Lowest(first, rows)
          /\ Becomes(w, [j EXCEPT !.pc = "commit", !.view = Closed,
                                  !.matched = rows, !.uniqueTime = first.time])
          /\ Rebalance(j.sub)
  /\ UNCHANGED <<clock, dbVars, committed, obsVars>>

\* Mutant: one too many.
MutantNextOffset(r) == r.offset + 2

\* A group commits the offset of the message it wants next.
NextOffset(r) == r.offset + 1

\* One synchronous offset commit, in the name of the subscription of the request.
CommitOffset(w) ==
  LET j == job[w] IN
  /\ j.pc = "commit"
  /\ \E r \in j.matched :
       /\ Lowest(r, j.matched)
       /\ committed' = [committed EXCEPT ![j.sub][r.topic] = NextOffset(r)]
       /\ Becomes(w, [j EXCEPT !.matched = @ \ {r}])
  /\ UNCHANGED <<clock, dbVars, owner, obsVars>>

\* Every row with the time of the first match is deleted.
DeleteBatch(w) ==
  /\ job[w].pc = "commit" /\ job[w].matched = {}
  /\ ackIds' = {r \in ackIds : r.time # job[w].uniqueTime}
  /\ Finish(w)
  /\ UNCHANGED <<clock, nextId, retry, committed, obsVars>>

-----------------------------------------------------------------------------
\* A call raises, or the process is killed and replaced: what was committed stays.
Fail(w) ==
  /\ MayFail
  /\ job[w].pc # "idle"
  /\ Finish(w)
  /\ UNCHANGED <<clock, dbVars, committed, obsVars>>

Tick ==
  /\ clock < MaxTime
  /\ clock' = clock + 1
  /\ UNCHANGED <<dbVars, kafkaVars, job, obsVars>>

\* The steps of the handlers, once a request is there.
Step(w) ==
  \/ ExpireRow(w)
  \/ RetryRegister(w) \/ RetryCheck(w) \/ RetryCommit(w)
  \/ Assign(w) \/ PollMessage(w) \/ PollNothing(w) \/ InsertRow(w) \/ Deliver(w)
  \/ Match(w) \/ CommitOffset(w) \/ DeleteBatch(w)

Next ==
  \/ Tick
  \/ \E w \in Worker : ReceivePull(w) \/ ReceiveAck(w) \/ Step(w) \/ Fail(w)

Spec == Init /\ [][Next]_vars

FairSpec == Spec /\ \A w \in Worker : WF_vars(Step(w))
-----------------------------------------------------------------------------
(* Properties.                                                             *)

\* Every variable has its type; the rows are keyed by id.
TypeOK ==
  /\ clock \in Nat
  /\ ackIds \in SUBSET Row
  /\ nextId \in Nat
  /\ retry \in [Subscription -> Seq(RetryRow)]
  /\ committed \in [Subscription -> [Topic -> Nat]]
  /\ owner \in [Subscription -> Worker \cup {NoWorker}]
  /\ job \in [Worker -> Job]
  /\ requests \in Nat
  /\ delivered \in [Subscription -> SUBSET AckId]
  /\ claimed \in SUBSET (Topic \X Nat)
  /\ strayed \in [Subscription -> SUBSET AckId]

\* sha512(message:timestamp) tells the messages of all topics apart.
DistinctAckIds ==
  \A t, u \in Topic : \A i \in 1..Len(Log[t]), k \in 1..Len(Log[u]) :
    Log[t][i] = Log[u][k] => t = u /\ i = k

\* consumer.commit in acknowledges_the_ack_ids: the last message a consumer group
\* has committed is one that a response carried to that very subscription, or that an
\* acknowledgement of that very subscription had named without being given it.  The
\* handler looks at no row's subscription, yet what the clients of other subscriptions
\* acknowledge, and the order of pulls, expiries and failures, make no difference.
CommitsFollowDelivery ==
  \A s \in Subscription, t \in Topic :
    committed[s][t] > 0 =>
      \E a \in delivered[s] \cup strayed[s] :
        /\ committed[s][t] \in 1..Len(Log[t])
        /\ a = Log[t][committed[s][t]]

\* consume_messages: offsets are never committed past a message that no pull has
\* recorded; the skipped ones were recorded by some pull, of any subscription.
CommittedWereClaimed ==
  \A s \in Subscription, t \in Topic :
    \A o \in 0..(committed[s][t] - 1) : <<t, o>> \in claimed

\* The check before the insert in consume_messages: a message has at most one row
\* under deadline.
OneOutstandingRow ==
  \A q, r \in Outstanding(ackIds) : q.ackId = r.ackId => q = r


\* The same among the pulls of one subscription, as long as no worker dies: a message
\* below the committed offset was delivered, or some pull that is still at work will
\* deliver it, although that pull may have taken it before another skipped it.
DeliveredOrInHand ==
  \A s \in Subscription :
    \A o \in 1..committed[s][TopicOf[s]] :
      \/ Log[TopicOf[s]][o] \in delivered[s]
      \/ \E w \in Worker : job[w].sub = s /\ Log[TopicOf[s]][o] \in job[w].got

\* auto_update_the_ack_table before the match in acknowledges_the_ack_ids: the
\* offsets an acknowledgement commits are those of messages whose deadline had
\* not passed when the acknowledgement came in.
AckInTime ==
  \A w \in Worker : \A r \in job[w].matched :
    r.time >= job[w].since - AckDeadline[r.sub]

\* retry_policy_check: the look-up and the insert of the retry row
\* together; when first pulls race, there are at most as many rows as workers.
RetryRowsBounded == \A s \in Subscription : Len(retry[s]) <= Cardinality(Worker)

\* Every request is answered, or its worker dies.
RequestsEnd == \A w \in Worker : job[w].pc # "idle" ~> job[w].pc = "idle"
-----------------------------------------------------------------------------
(* The inductive invariants behind TypeOK, CommitsFollowDelivery and           *)
(* CommittedWereClaimed.                                                   *)

\* A row carries the ackId of the message at its topic and offset.
Faithful(r) ==
  r.offset < Len(Log[r.topic]) /\ r.ackId = Log[r.topic][r.offset + 1]

Claimed(r) == <<r.topic, r.offset>> \in claimed

\* Every offset of t below n was claimed.
ClaimedBelow(t, n) == \A o \in 0..(n - 1) : <<t, o>> \in claimed

JobSound(j) ==
  /\ \A r \in j.view.rows : Faithful(r)
  /\ \A s \in j.view.retried : retry[s] # <<>>
  /\ j.asked \subseteq delivered[j.sub] \cup strayed[j.sub]
  /\ \A r \in j.matched : Faithful(r) /\ r.ackId \in j.asked
  /\ j.pc = "retry" => retry[j.sub] # <<>>
  /\ j.pc = "insert" => j.want > 0 /\ j.hand < Len(Log[TopicOf[j.sub]])

SoundInv ==
  /\ TypeOK
  /\ \A r \in ackIds : Faithful(r)
  /\ \A w \in Worker : JobSound(job[w])
  /\ CommitsFollowDelivery

JobClaimed(j) ==
  /\ \A r \in j.view.rows \cup j.matched : Claimed(r)
  /\ j.pc = "insert" => ClaimedBelow(TopicOf[j.sub], j.hand)
  /\ \A o \in 0..(j.pos - 1) :
       (j.pc = "insert" /\ o = j.hand) \/ <<TopicOf[j.sub], o>> \in claimed

ClaimInv ==
  /\ \A r \in ackIds : Claimed(r)
  /\ \A c \in claimed : ClaimedBelow(c[1], c[2])
  /\ \A w \in Worker : JobClaimed(job[w])
  /\ CommittedWereClaimed
=============================================================================
