\* Each client, two calls at a time, names at the edges of what is valid.
CONSTANTS
    Kinds <- AllKinds
    Calls = {c1, c2}
    Names <- SomeNames
    NoName = NoName
    Tokens = {t1, t2}
    NoToken = NoToken
    Schemas <- SomeSchemas
    Values <- SomeValues
    Unchecked = Unchecked
SPECIFICATION HttpSpec
SYMMETRY Perms
INVARIANTS
    TokenOfTheClient
    AddressesItsResource
    OkMeansDone
    ReadsWhatItNamed
    JsonVerdict
