------------------------- MODULE MCPullSubscription -------------------------
(* Values of PullSubscription's constants for TLC. *)
EXTENDS PullLease, TLC

CONSTANTS w1, w2, s1, s2, t1, a1, a2

\* One topic with two messages.
OneTopicLog == t1 :> <<a1, a2>>
BothOnT1 == s1 :> t1 @@ s2 :> t1
OnlyS1 == s1 :> t1

All(n) == [s \in Subscription |-> n]
Zero == All(0)
One == All(1)
Two == All(2)
Four == All(4)

\* s1 backs off between one and two ticks, s2 between none and two.
MixedMin == s1 :> 1 @@ s2 :> 0

Symmetry == Permutations(Worker)
=============================================================================
