--------------------------- MODULE MCHttpClient ---------------------------
(* HttpClient on a small instance, for TLC.                                *)
EXTENDS HttpClient, TLC

\* "a/b", "..", "", and names of 249 and 250 characters.
SomeNames ==
    {Name(3, FALSE, FALSE), Name(2, TRUE, TRUE), Name(0, TRUE, TRUE),
     Name(249, FALSE, TRUE), Name(250, FALSE, TRUE)}

AllKinds == DOMAIN OperationsOf

Fields == {"f", "g"}

\* No type, each single type, and lists of one and of two types.
SomeSchemas ==
    {schema \in [types : {types \in SUBSET JsonTypes : Cardinality(types) <= 2},
                 listed : BOOLEAN, required : SUBSET Fields] : IsSchema(schema)}
SomeValues ==
    [kind : JsonKinds \ {"object"}, fields : {{}}]
        \union [kind : {"object"}, fields : SUBSET Fields]

Perms == Permutations(Calls) \union Permutations(Tokens)
===========================================================================
