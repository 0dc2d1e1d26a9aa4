--------------------------- MODULE JsonValidation ---------------------------
(***************************************************************************)
(* basic_json_validate of src/schema_registry.rs.  A schema is kept as the *)
(* names in its `type` keyword (none if it is absent), whether they are a  *)
(* list, and the strings of its `required`; a value as its kind and, if it *)
(* is an object, its fields.  Every other keyword is ignored by the code.  *)
(***************************************************************************)
EXTENDS Naturals, FiniteSets

JsonTypes == {"object", "array", "string", "number", "integer", "boolean", "null"}

\* The kinds of values: a number is an integer or has a fraction.
JsonKinds == (JsonTypes \ {"number"}) \union {"fraction"}

Numbers == {"integer", "fraction"}

\* A schema has one type unless it lists them, and a list is not empty.
IsSchema(schema) ==
    /\ schema.types \subseteq JsonTypes
    /\ schema.listed \in BOOLEAN
    /\ IF schema.listed THEN schema.types # {} ELSE Cardinality(schema.types) <= 1

\* schema.get("type").as_str(): no string if there is a list, be it of one.
StringType(schema) == IF schema.listed THEN {} ELSE schema.types

ObjectAcceptedByType(schema, value) == value.kind = "object"
ObjectAccepted(schema, value) ==
    value.kind = "object" /\ schema.required \subseteq value.fields

basic_json_validate(schema, value) ==
    \A type \in StringType(schema) :
        CASE type = "object"                -> ObjectAccepted(schema, value)
          [] type \in {"number", "integer"} -> value.kind \in Numbers
          [] type \in {"array", "string", "boolean", "null"} -> value.kind = type
          [] OTHER                          -> TRUE

(***************************************************************************)
(* What JSON Schema says of the two keywords.                              *)
(***************************************************************************)
HasType(value, type) ==
    value.kind = type \/ (type = "number" /\ value.kind \in Numbers)

Conforms(schema, value) ==
    /\ schema.types # {} => \E type \in schema.types : HasType(value, type)
    /\ value.kind = "object" => schema.required \subseteq value.fields

\* Where the code says less than JSON Schema: no type, types in a list, even
\* of one, and "integer", which it takes for "number".
CheckedInFull(schema) == StringType(schema) \notin {{}, {"integer"}}
=============================================================================
