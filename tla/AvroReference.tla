---------------------------- MODULE AvroReference ----------------------------
(***************************************************************************)
(* The reference for the inference of schemas: what it is for a JSON value *)
(* to be an instance of a schema, by the Avro specification.               *)
(***************************************************************************)
EXTENDS Publish

\* The schemas inferred from JSON values.
Schemas == {ToAvro(v) : v \in Json}

\* Whether a value is an instance of a schema, given the schemas that its parts are
\* instances of.
Fits(v, s, conforming) ==
  CASE s.type = "record" ->
         /\ v.kind = "dict"
         /\ \A k \in DOMAIN s.fields :
              k \in DOMAIN v.fields /\ s.fields[k] \in conforming[v.fields[k]]
    [] s.type = "array" ->
         v.kind = "list" /\ \A i \in DOMAIN v.items : s.items \in conforming[v.items[i]]
    [] OTHER -> IsInstance(v, s.type)

\* The schemas that a value is an instance of.
Conforming[v \in Json] == {s \in Schemas : Fits(v, s, Conforming)}

\* All items have the same schema.
UniformList(v) ==
  \A i, k \in DOMAIN v.items : ToAvro(v.items[i]) = ToAvro(v.items[k])

\* The values in which every list is uniform, at any depth.
UniformValues ==
  {m \in Json :
     \E P \in SUBSET Json :
       /\ m \in P
       /\ \A v \in P : Parts(v) \subseteq P /\ (v.kind = "list" => UniformList(v))}

\* The values that are instances of the schema inferred from them, or have none.
WellInferred == {v \in Json : ToAvro(v) # NoSchema => ToAvro(v) \in Conforming[v]}

\* infer_avro_schema: a message whose lists each have items of one schema is an
\* instance of the schema inferred from it.
InferenceConforms ==
  \A r \in Publisher :
    pub[r] # NotReceived =>
      \A i \in DOMAIN pub[r].batch :
        pub[r].batch[i] \in UniformValues => pub[r].batch[i] \in WellInferred
=============================================================================
