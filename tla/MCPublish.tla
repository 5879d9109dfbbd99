------------------------------ MODULE MCPublish ------------------------------
(* Values of the constants of Buses and Publish for TLC. *)
EXTENDS AvroReference, TLC

CONSTANTS h1, h2, p1, p2, g1, g2, c1, c2, Plain, Kerberos

\* Two payloads for h1 that have nothing else in common; each registry has one host
\* that starts with it.
Payloads == {[host |-> h1, port |-> p1, auth |-> OAuth, registry |-> g1],
             [host |-> h1, port |-> p2, auth |-> None, registry |-> None],
             [host |-> h2, port |-> p1, auth |-> OAuth, registry |-> g2]}

\* One mechanism on two hosts, its credentials changed on one of them; a second
\* mechanism, and one that raises.
AuthPayloads == {[kind |-> OAuth, host |-> h1, credentials |-> c1],
                 [kind |-> OAuth, host |-> h1, credentials |-> c2],
                 [kind |-> OAuth, host |-> h2, credentials |-> c2],
                 [kind |-> Plain, host |-> h1, credentials |-> c2],
                 [kind |-> Kerberos, host |-> h1, credentials |-> c1]}

Topics == {[host |-> h1, definition |-> NoDefinition],
           [host |-> h1, definition |-> [type |-> "int"]],
           [host |-> h2, definition |-> SomeText],
           [host |-> h2, definition |-> [type |-> "boolean"]]}

Scalar(k) == [kind |-> k]
List(s) == [kind |-> "list", items |-> s]

\* {"a": [true, true], "b": []}, and a list of two kinds.
Nested == [kind |-> "dict",
           fields |-> "a" :> List(<<Scalar("bool"), Scalar("bool")>>) @@ "b" :> List(<<>>)]
Mixed == List(<<Scalar("int"), Scalar("str")>>)

\* The JSON values of the batches and their parts.
Values == {Scalar(k) : k \in {"str", "bool", "int", "float", "null"}}
          \cup {List(<<>>), List(<<Scalar("bool"), Scalar("bool")>>), Mixed, Nested}

Depths == [v \in Values |-> CASE v.kind = "dict" -> 2 [] v.kind = "list" -> 1 [] OTHER -> 0]

Batches == {<<Scalar("int"), Scalar("int")>>, <<Scalar("bool"), Scalar("int")>>,
            <<Nested>>, <<Mixed, Scalar("float"), Scalar("null")>>, <<List(<<>>), NotJson>>,
            <<Scalar("str"), NotEncoded>>,
            <<Scalar("int"), Scalar("int"), Scalar("int"), Scalar("int")>>}
=============================================================================
