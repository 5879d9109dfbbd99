--------------------------- MODULE MCSubscriptions ---------------------------
(* Values of the constants of Subscriptions for TLC. *)
EXTENDS Subscriptions

CONSTANTS n1, t1, t2, q1, q2

\* Two configurations that have nothing in common, and one that mixes them.
Configs == {[topic |-> t1, policy |-> q1], [topic |-> t2, policy |-> q2],
            [topic |-> t1, policy |-> q2]}

\* One subscription at the start.
OneRow == {[id |-> 1, name |-> n1, topic |-> t1, policy |-> q1]}
=============================================================================
