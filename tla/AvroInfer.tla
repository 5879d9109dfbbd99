------------------------------ MODULE AvroInfer ------------------------------
(***************************************************************************)
(* Inference of an Avro schema from a JSON value, api/utils/utils.py (the  *)
(* same code as the discovery plugin's utils/avro_utils.py).               *)
(*                                                                         *)
(* A JSON value is [kind |-> "dict", fields |-> a function], [kind |->     *)
(* "list", items |-> a sequence] or [kind |-> k] for a scalar.  The names  *)
(* of records are left out: nothing here depends on them.                  *)
(***************************************************************************)
EXTENDS Naturals, Sequences

CONSTANTS
  Json,    \* JSON values, with all their parts
  Depth    \* how deep a value is nested: json.loads builds finite trees

\* The parts of a value, none for a scalar.
Parts(v) ==
  CASE v.kind = "dict" -> {v.fields[k] : k \in DOMAIN v.fields}
    [] v.kind = "list" -> {v.items[i] : i \in DOMAIN v.items}
    [] OTHER -> {}

ASSUME JsonAssumption ==
  /\ Depth \in [Json -> Nat]
  /\ \A v \in Json :
       /\ v.kind \in {"dict", "list", "str", "bool", "int", "float", "null"}
       /\ v.kind = "list" => v.items \in Seq(Json)
       /\ \A p \in Parts(v) : p \in Json /\ Depth[p] < Depth[v]

\* Python's None as the result of to_avro_schema: nothing can be inferred.
NoSchema == [type |-> "none"]

\* The primitive types, and the kinds of the scalars they are inferred from.
Primitive == {"string", "boolean", "int", "float", "null"}

\* Mutant: int before bool.
MutantInferScalar(kind) ==
  CASE kind = "str" -> [type |-> "string"]
    [] kind \in {"bool", "int"} -> [type |-> "int"]
    [] kind = "float" -> [type |-> "float"]
    [] kind = "null" -> [type |-> "null"]

\* A Python bool is an int, so the test for bool comes before that for int.
InferScalar(kind) ==
  CASE kind = "str" -> [type |-> "string"]
    [] kind = "bool" -> [type |-> "boolean"]
    [] kind = "int" -> [type |-> "int"]
    [] kind = "float" -> [type |-> "float"]
    [] kind = "null" -> [type |-> "null"]

\* The schema of a value, given those of its parts.  A part without a schema is left
\* out of a record, and a list takes the first schema of its items.
Infer(node, schema) ==
  CASE node.kind = "dict" ->
         LET fields == {k \in DOMAIN node.fields : schema[node.fields[k]] # NoSchema}
         IN [type |-> "record", fields |-> [k \in fields |-> schema[node.fields[k]]]]
    [] node.kind = "list" ->
         LET known == {i \in DOMAIN node.items : schema[node.items[i]] # NoSchema}
             first == CHOOSE i \in known : \A k \in known : i <= k
         IN IF known = {} THEN NoSchema
            ELSE [type |-> "array", items |-> schema[node.items[first]]]
    [] OTHER -> InferScalar(node.kind)

ToAvro(node) ==
  LET schema[v \in Json] == Infer(v, schema)
  IN Infer(node, schema)

\* The reference for scalars: whether a value is an instance of a primitive type, by
\* the Avro specification.
IsInstance(node, type) ==
  type = CASE node.kind = "str" -> "string" [] node.kind = "bool" -> "boolean"
           [] OTHER -> node.kind
=============================================================================
