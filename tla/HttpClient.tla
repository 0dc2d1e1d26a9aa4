----------------------------- MODULE HttpClient -----------------------------
(***************************************************************************)
(* The HTTP clients of src/admin.rs, src/schema_registry.rs and            *)
(* src/moonshot.rs, and Consumer::search of src/lib.rs.                    *)
(*                                                                         *)
(* An exported async method returns a promise.  Its body runs as a task of *)
(* its own, from a later microtask on, in three pieces: up to the await of *)
(* fetch(), up to the await of text(), and the rest.  The wrapper is       *)
(* borrowed from the first piece to the end, and not yet when the promise  *)
(* is returned, so that a method that takes &mut self throws only once the *)
(* body has begun; other async methods may be called all the time.         *)
(*                                                                         *)
(* External: fetch(), the server, and what stands between (a proxy or a    *)
(* portal may answer with a page of its own).                              *)
(***************************************************************************)
EXTENDS TopicName, JsonValidation, HttpOperations

CONSTANTS
    Kinds,      \* the clients the application may make, one of them in a run
    Calls,      \* the promises it may hold at a time
    Names,      \* the arguments that name a topic, a group, a subject, an agent
    NoName,     \* of a method that has no such argument
    Tokens, NoToken,
    Schemas, Values, Unchecked   \* arguments of validate_json; none as yet

ASSUME KindAssumption == Kinds \subseteq DOMAIN OperationsOf
ASSUME NameAssumption ==
    /\ Names \subseteq [length : Nat, dots : BOOLEAN, clean : BOOLEAN]
    /\ NoName \notin Names
ASSUME TokenAssumption == NoToken \notin Tokens
\* The names of types that JSON Schema has (the code accepts anything for
\* another name), and the kinds of values that JSON has.
ASSUME JsonAssumption ==
    /\ \A schema \in Schemas : IsSchema(schema)
    /\ \A value \in Values : value.kind \in JsonKinds

VARIABLES
    kind,       \* the client
    token,      \* auth_token
    call,       \* the promises
    verdict     \* the last validate_json: what was asked, and its answer

httpVars == <<kind, token, call, verdict>>

\* `target`: the URL is that of the "own" resource, or of some other ("else").
\* `applied`: the server did what was asked.
NoCall == [phase |-> "idle", op |-> "none", name |-> NoName, blank |-> FALSE,
           target |-> "none", auth |-> <<>>, applied |-> FALSE,
           body |-> "none", result |-> "none"]

Phases == {"idle", "begun", "sent", "reading", "settled"}

OpOf(c) == OperationsOf[kind][call[c].op]

\* The borrow of the wrapper: a call made ("begun") has none until its body
\* runs, which gets as far as the fetch in one piece.
Borrowed(c) == call[c].phase \in {"sent", "reading"}

\* health() catches every error of its request.
Failure(c) == IF call[c].op = "health" THEN "Ok(false)" ELSE "Err"

(***************************************************************************)
(* Calls                                                                   *)
(***************************************************************************)
\* `blank`: the query is empty, or k is 0.
Begin(c, op, name, blank) ==
    /\ call[c].phase = "idle"
    /\ call' = [call EXCEPT ![c] =
                  [NoCall EXCEPT !.phase = "begun", !.op = op, !.name = name,
                                 !.blank = blank]]
    /\ verdict' = Unchecked
    /\ UNCHANGED <<kind, token>>

\* set_auth_token, which takes &mut self; the mutated form takes &self and a
\* shared token.  Consumer has none.
SetSharedAuthToken(t) ==
    /\ kind # "Consumer"
    /\ token' = t
    /\ UNCHANGED <<kind, call, verdict>>
SetAuthToken(t) ==
    /\ kind # "Consumer"
    /\ \A c \in Calls : ~Borrowed(c)
    /\ token' = t
    /\ UNCHANGED <<kind, call, verdict>>

\* The checks a method makes before it sends.
Accepts(op, name, blank) ==
    /\ "topic_name" \in op.checks => validate_topic_name(name)
    /\ "name" \in op.checks => name.length # 0
    /\ "query" \in op.checks => ~blank

\* encodeURIComponent; Consumer::search leaves its topic as it is.
UnencodedSegment(name) == OwnRawSegment(name)
EncodedSegment(name) ==
    IF kind = "Consumer" THEN OwnRawSegment(name) ELSE OwnSegment(name)

Target(op, name) ==
    IF op.name = "path" /\ ~EncodedSegment(name) THEN "else" ELSE "own"

\* set_headers: no header without a token.
Authorization == IF token = NoToken THEN <<>> ELSE <<token>>

\* The borrow ends, and what the request was made of goes with it.
Settle(c, result, applied) ==
    call' = [call EXCEPT ![c] = [@ EXCEPT !.phase = "settled", !.result = result,
                                          !.applied = applied, !.auth = <<>>,
                                          !.blank = FALSE]]

\* An error before the request is sent: a check, or there is no window.
Refuse(c) ==
    /\ call[c].phase = "begun"
    /\ Settle(c, Failure(c), FALSE)
    /\ UNCHANGED <<kind, token, verdict>>

Send(c) ==
    LET op == OpOf(c) IN
    /\ call[c].phase = "begun"
    /\ Accepts(op, call[c].name, call[c].blank)
    /\ call' = [call EXCEPT ![c].phase = "sent", ![c].auth = Authorization,
                            ![c].blank = FALSE, ![c].target = Target(op, call[c].name)]
    /\ UNCHANGED <<kind, token, verdict>>

(***************************************************************************)
(* External: the answers.                                                  *)
(***************************************************************************)
\* What was asked was done, if the request was for its own resource.
MayApply(c) == {FALSE, call[c].target = "own" /\ OpOf(c).writes}

\* The promise of fetch() is rejected: before or after the server was reached.
NetworkFails(c) ==
    /\ call[c].phase = "sent"
    /\ \E applied \in MayApply(c) : Settle(c, Failure(c), applied)
    /\ UNCHANGED <<kind, token, verdict>>

\* A response arrives; resp.ok() is looked at before the body is read.
StatusUnchecked(c, status) == TRUE
StatusChecked(c, status) == status = "ok"

Responds(c, status, body, applied) ==
    /\ call[c].phase = "sent"
    /\ IF StatusChecked(c, status)
         THEN call' = [call EXCEPT ![c].phase = "reading", ![c].body = body,
                                   ![c].applied = applied]
         ELSE Settle(c, Failure(c), applied)
    /\ UNCHANGED <<kind, token, verdict>>

\* The server does what is asked of its own resource and answers with what
\* was asked for; of another resource it makes some other JSON.
Served(c) ==
    IF call[c].target = "own"
      THEN Responds(c, "ok", "asked", OpOf(c).writes)
      ELSE Responds(c, "ok", "other", FALSE)
Failed(c) == \E applied \in MayApply(c) : Responds(c, "error", "error", applied)
Page(c) == Responds(c, "ok", "page", FALSE)

(***************************************************************************)
(* The rest of the method                                                  *)
(***************************************************************************)
\* Whether the text of the body is parsed, and what the method returns then.
Parses(c) ==
    IsParsed(OpOf(c).result) =>
        \/ call[c].body = "asked"
        \/ call[c].body = "other" /\ Lenient(OpOf(c).result)

\* text() may be rejected too: the connection is lost in the body.
Read(c) ==
    /\ call[c].phase = "reading"
    /\ \/ Parses(c) /\ Settle(c, "Ok", call[c].applied)
       \/ Settle(c, Failure(c), call[c].applied)
    /\ UNCHANGED <<kind, token, verdict>>

\* The application has seen the result.
Forget(c) ==
    /\ call[c].phase = "settled"
    /\ call' = [call EXCEPT ![c] = NoCall]
    /\ UNCHANGED <<kind, token, verdict>>

\* validate_json: synchronous, and it reads no state; once between two calls.
ValidateJson(schema, value) ==
    /\ kind = "SchemaRegistryClient"
    /\ verdict = Unchecked
    /\ \A c \in Calls : call[c].phase = "idle"
    /\ verdict' = [schema |-> schema, value |-> value,
                   answer |-> basic_json_validate(schema, value)]
    /\ UNCHANGED <<kind, token, call>>

(***************************************************************************)
(* The specification                                                       *)
(***************************************************************************)
HttpInit ==
    /\ kind \in Kinds
    /\ token = NoToken
    /\ call = [c \in Calls |-> NoCall]
    /\ verdict = Unchecked

Application ==
    \/ \E c \in Calls, op \in DOMAIN OperationsOf[kind] :
          \E name \in (IF OperationsOf[kind][op].name = "nowhere" THEN {NoName} ELSE Names),
             blank \in (IF "query" \in OperationsOf[kind][op].checks THEN BOOLEAN ELSE {FALSE}) :
            Begin(c, op, name, blank)
    \/ \E t \in Tokens : SetAuthToken(t)
    \/ \E c \in Calls : Forget(c)
    \/ \E schema \in Schemas, value \in Values : ValidateJson(schema, value)

\* What every method does with http_get, http_post or http_delete, to the end.
Method(c) ==
    \/ Refuse(c) \/ Send(c) \/ Read(c)
    \/ NetworkFails(c) \/ Served(c) \/ Failed(c) \/ Page(c)

HttpNext ==
    \/ Application
    \/ \E c \in Calls : Method(c)

HttpSpec == HttpInit /\ [][HttpNext]_httpVars

(***************************************************************************)
(* Properties                                                              *)
(***************************************************************************)
\* The types of the promises; the only header is one with a token, and a
\* request has no target before it is sent.
Methods == UNION {DOMAIN OperationsOf[k] : k \in Kinds}
Promise == [phase : Phases, op : Methods \union {"none"}, name : Names \union {NoName},
            blank : BOOLEAN, target : {"none", "own", "else"},
            auth : {<<>>} \union {<<t>> : t \in Tokens}, applied : BOOLEAN,
            body : {"none", "asked", "other", "error", "page"},
            result : {"none", "Ok", "Ok(false)", "Err"}]

HttpTypeOK ==
    /\ kind \in Kinds
    /\ token \in Tokens \union {NoToken}
    /\ call \in [Calls -> Promise]
    /\ \A c \in Calls :
          /\ call[c].phase # "idle" => call[c].op \in DOMAIN OperationsOf[kind]
          /\ call[c].phase \in {"idle", "begun"} => call[c].target = "none"

\* While a request is under way it carries the client's token of now:
\* set_auth_token cannot come between the parts of a method and leave
\* requests with an older token behind it, and a call whose body has not begun
\* when it comes sends the new one.
TokenOfTheClient ==
    \A c \in Calls :
        call[c].phase \in {"sent", "reading"} => call[c].auth = Authorization

\* A request for a named topic, group or subject goes to its own resource and
\* to no other, whatever characters the name has.  The code makes two
\* exceptions: methods that do not validate the name, given an empty one, "."
\* or "..", and Consumer::search, which does not encode it.
AddressesItsResource ==
    \A c \in Calls :
        call[c].target = "else" =>
            \/ kind = "Consumer"
            \/ /\ "topic_name" \notin OpOf(c).checks
               /\ call[c].name.length = 0 \/ IsDotSegment(call[c].name)

\* A method that returns Ok has done what it was called for, if it changes
\* anything and reached its own resource.  The code makes one exception: a
\* method that returns nothing does not look at the body either, and takes a
\* page of a proxy's for success.
OkMeansDone ==
    \A c \in Calls :
        /\ call[c].result = "Ok" /\ OpOf(c).writes /\ call[c].target = "own"
        /\ call[c].body = "page" => OpOf(c).result # "()"
        => call[c].applied

\* A method that returns a description of a named topic, group or subject has
\* read it from that resource: a name that leads elsewhere is an error, not
\* an empty description.
ReadsWhatItNamed ==
    \A c \in Calls :
        /\ call[c].result = "Ok" /\ OpOf(c).name = "path"
        /\ OpOf(c).method = "GET"
        => call[c].target = "own" /\ call[c].body = "asked"

\* validate_json rejects no value that conforms to its schema, and accepts
\* none that does not, as far as it looks (its doc: "true if the value
\* conforms"; basic_json_validate: "full JSON Schema validation is too heavy").
JsonVerdict ==
    verdict # Unchecked =>
        /\ Conforms(verdict.schema, verdict.value) => verdict.answer
        /\ verdict.answer /\ CheckedInFull(verdict.schema)
             => Conforms(verdict.schema, verdict.value)

=============================================================================
