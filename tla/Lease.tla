-------------------------------- MODULE Lease --------------------------------
(***************************************************************************)
(* What the pull and acknowledge endpoints promise to the subscriptions of *)
(* a topic: a message is leased to one subscription at a time, a response  *)
(* carries messages leased to its subscription, and an acknowledgement     *)
(* counts only for a message whose lease still stands, be it another       *)
(* subscription's.  A lease ends when its deadline has passed, or with an  *)
(* acknowledgement, which may end leases it was not about.                 *)
(***************************************************************************)
CONSTANTS
  Subscription,
  Topic,
  AckId,
  Nobody    \* neither a subscription nor an ackId

VARIABLES
  holder,     \* holder[a]: the subscription a is leased to, or Nobody
  delivered,  \* delivered[s]: the ackIds some response has carried to s
  last        \* last[s][t]: the ackId s has acknowledged last in t, or Nobody

leaseVars == <<holder, delivered, last>>

LeaseInit ==
  /\ holder = [a \in AckId |-> Nobody]
  /\ delivered = [s \in Subscription |-> {}]
  /\ last = [s \in Subscription |-> [t \in Topic |-> Nobody]]

\* A pull of s claims the message.
Grant(a, s) ==
  /\ holder[a] = Nobody
  /\ holder' = [holder EXCEPT ![a] = s]
  /\ UNCHANGED <<delivered, last>>

\* Leases end.
Release(A) ==
  /\ holder' = [a \in AckId |-> IF a \in A THEN Nobody ELSE holder[a]]
  /\ UNCHANGED <<delivered, last>>

\* A response carries messages that are leased to s.
Deliver(s, A) ==
  /\ \A a \in A : holder[a] = s
  /\ delivered' = [delivered EXCEPT ![s] = @ \cup A]
  /\ UNCHANGED <<holder, last>>

\* An acknowledgement of s counts, whoever holds the message.
Acknowledge(s, t, a) ==
  /\ holder[a] # Nobody
  /\ last' = [last EXCEPT ![s][t] = a]
  /\ UNCHANGED <<holder, delivered>>

LeaseNext ==
  \/ \E a \in AckId, s \in Subscription : Grant(a, s)
  \/ \E A \in SUBSET AckId : Release(A)
  \/ \E s \in Subscription, A \in SUBSET AckId : Deliver(s, A)
  \/ \E s \in Subscription, t \in Topic, a \in AckId : Acknowledge(s, t, a)

LeaseSpec == LeaseInit /\ [][LeaseNext]_leaseVars
=============================================================================
