------------------------------ MODULE PullLease ------------------------------
(***************************************************************************)
(* PullSubscription implements Lease when one worker serves the requests:  *)
(* a lease is a row of table ackIds that is under deadline.  The inductive *)
(* invariant that makes it so is here too.                                 *)
(***************************************************************************)
EXTENDS PullSubscription

ASSUME LeaseAssumption == NoWorker \notin Subscription

\* The subscription whose row in the table is under deadline, if there is one.
HolderIn(rows) ==
  [a \in AckId |-> IF \E r \in Outstanding(rows) : r.ackId = a
                   THEN (CHOOSE r \in Outstanding(rows) : r.ackId = a).sub
                   ELSE NoWorker]

Holder == HolderIn(ackIds)

\* The message just below the committed offset.
LastCommitted ==
  [s \in Subscription |->
    [t \in Topic |-> IF committed[s][t] = 0 THEN NoWorker
                                            ELSE Log[t][committed[s][t]]]]

L == INSTANCE Lease WITH Nobody <- NoWorker, holder <- Holder, last <- LastCommitted

\* consume_messages and acknowledges_the_ack_ids keep the promises of Lease, through
\* expiries, failures and acknowledgements of every subscription.
ImplementsLease == L!LeaseSpec
-----------------------------------------------------------------------------
\* Ids are used once.
KeyedRows ==
  /\ \A r \in ackIds : r.id < nextId
  /\ \A q, r \in ackIds : q.id = r.id => q = r

\* What the only worker has read is still so.
JobCurrent(j) ==
  /\ j.view.open => j.view.rows = ackIds
  /\ j.pc = "insert" =>
       \A r \in Outstanding(ackIds) : r.ackId # Log[TopicOf[j.sub]][j.hand + 1]
  /\ \A a \in j.got : \E r \in Outstanding(ackIds) : r.ackId = a /\ r.sub = j.sub
  /\ j.matched \subseteq Outstanding(ackIds)
  /\ j.got # {} => j.pc \in {"consume", "insert"}
  /\ j.matched # {} => j.pc = "commit"
  /\ j.since <= clock
  /\ j.op = "ack" /\ j.pc = "expire" =>
       \A r \in Outstanding(ackIds) :
         r.id \in j.pending \/ r.time >= j.since - AckDeadline[r.sub]

SerialPullInv ==
  /\ KeyedRows
  /\ \A w \in Worker : JobCurrent(job[w])
  /\ OneOutstandingRow
  /\ AckInTime
=============================================================================
