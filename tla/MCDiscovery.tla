----------------------------- MODULE MCDiscovery -----------------------------
(* Values of the constants of Catalog and Discovery for TLC. *)
EXTENDS Discovery, TLC

CONSTANTS w1, j1, j2, b1, b2, n1, n2, a1, a2

Some(s) == [shape |-> s]

\* A topic whose messages may have either schema, or that may have none.
Plain(n) == [name |-> n, seen |-> {Some(a1), Some(a2), NoMessage}]

\* A schema of a registry.
Registered(n) == [name |-> n, seen |-> {Some(a1)}]

\* Both buses know n1, and the registry n2 too.
Found == b1 :> {Plain(n1)} @@ b2 :> {Registered(n1), Registered(n2)}

\* Both jobs discover bus b1.
Overlapping == j1 :> {b1} @@ j2 :> {b1, b2}
=============================================================================
