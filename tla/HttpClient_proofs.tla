------------------------- MODULE HttpClient_proofs -------------------------
(***************************************************************************)
(* The HTTP clients for any number of calls under way, names and tokens:   *)
(* the types, the token of the requests, the resource a request is sent    *)
(* to, and what a method that returns Ok has done or read.  The invariant  *)
(* is of each promise by itself, but for the token, which they share.      *)
(***************************************************************************)
EXTENDS HttpClient, FiniteSetTheorems, TLAPS

\* Between two calls nothing is in flight, and that has its type.
LEMMA NoCallType ==
    /\ NoCall \in Promise
    /\ NoCall.phase = "idle" /\ NoCall.target = "none"
BY DEF NoCall, Promise, Phases

\* The first state has its types.
LEMMA InitTypes == HttpInit => HttpTypeOK
BY NoCallType DEF HttpInit, HttpTypeOK

\* What is sent as authorization is a token or none.
LEMMA AuthorizationType ==
    ASSUME token \in Tokens \union {NoToken}
    PROVE  Authorization \in {<<>>} \union {<<t>> : t \in Tokens}
BY DEF Authorization

(***************************************************************************)
(* The invariant of a promise                                              *)
(***************************************************************************)
\* What has been read is the answer to what was asked, of its own resource;
\* or some other JSON, of another; or a page.
Answered(c) ==
    /\ call[c].body = "asked" =>
          call[c].target = "own" /\ (OpOf(c).writes => call[c].applied)
    /\ call[c].body = "other" => call[c].target = "else"

\* Which of the resources a request goes to.
Addressed(c) ==
    call[c].target = "else" =>
        \/ kind = "Consumer"
        \/ /\ "topic_name" \notin OpOf(c).checks
           /\ call[c].name.length = 0 \/ IsDotSegment(call[c].name)

PromiseInv(c) ==
    /\ call[c] \in Promise
    /\ call[c].phase # "idle" => call[c].op \in DOMAIN OperationsOf[kind]
    /\ call[c].phase \in {"idle", "begun"} => call[c].target = "none"
    /\ call[c].phase # "settled" => call[c].result = "none"
    /\ call[c].phase \in {"idle", "begun", "sent"} => call[c].body = "none"
    /\ Addressed(c)
    /\ Answered(c)
    /\ call[c].result = "Ok" => Parses(c) /\ call[c].body \in {"asked", "other", "page"}
    /\ call[c].phase = "reading" => call[c].body \in {"asked", "other", "page"}
    /\ call[c].phase \in {"sent", "reading"} =>
          call[c].auth = Authorization /\ call[c].target \in {"own", "else"}

HttpInv ==
    /\ kind \in Kinds
    /\ token \in Tokens \union {NoToken}
    /\ call \in [Calls -> Promise]
    /\ \A c \in Calls : PromiseInv(c)

\* Between two calls there is nothing to keep.
LEMMA IdleInv ==
    ASSUME NEW c \in Calls, call[c] = NoCall
    PROVE  PromiseInv(c)
BY NoCallType DEF PromiseInv, NoCall, Addressed, Answered

\* The first state is between two calls.
LEMMA InitHttp == HttpInit => HttpInv
BY IdleInv, NoCallType DEF HttpInit, HttpInv

\* A promise that is not touched keeps its invariant while the token stays.
LEMMA OthersKept ==
    ASSUME NEW c \in Calls, PromiseInv(c), call'[c] = call[c], kind' = kind,
           token' = token \/ call[c].phase \notin {"sent", "reading"}
    PROVE  PromiseInv(c)'
BY DEF PromiseInv, Promise, Addressed, Answered, Parses, OpOf, Authorization

IsOperation(op) ==
    /\ DOMAIN op = {"method", "resource", "name", "checks", "writes", "result"}
    /\ op = [f \in DOMAIN op |-> op[f]]
    /\ op.writes \in BOOLEAN

\* What Operation, Writing and Checking build is an operation.
LEMMA OperationsBuilt ==
    /\ \A m, r, n, t : IsOperation(Operation(m, r, n, t))
    /\ \A op : IsOperation(op) => IsOperation(Writing(op))
    /\ \A op, checks : IsOperation(op) => IsOperation(Checking(op, checks))
<1>1. ASSUME NEW m, NEW r, NEW n, NEW t
      PROVE  IsOperation(Operation(m, r, n, t))
  BY DEF IsOperation, Operation
<1>2. ASSUME NEW op, IsOperation(op)
      PROVE  IsOperation(Writing(op))
  BY <1>2 DEF IsOperation, Writing
<1>3. ASSUME NEW op, NEW checks, IsOperation(op)
      PROVE  IsOperation(Checking(op, checks))
  BY <1>3 DEF IsOperation, Checking
<1> QED  BY <1>1, <1>2, <1>3

\* Every method of HttpOperations is a record of this kind.
LEMMA AllOperations ==
    ASSUME NEW k \in DOMAIN OperationsOf, NEW o \in DOMAIN OperationsOf[k]
    PROVE  IsOperation(OperationsOf[k][o])
<1>1. \A p \in DOMAIN AdminOperations : IsOperation(AdminOperations[p])
  BY OperationsBuilt DEF AdminOperations
<1>2. \A p \in DOMAIN QueryOperations : IsOperation(QueryOperations[p])
  BY OperationsBuilt DEF QueryOperations
<1>3. \A p \in DOMAIN RegistryOperations : IsOperation(RegistryOperations[p])
  BY OperationsBuilt DEF RegistryOperations
<1>4. \A p \in DOMAIN SearchOperations : IsOperation(SearchOperations[p])
  BY OperationsBuilt DEF SearchOperations
<1>5. \A p \in DOMAIN MemoryOperations : IsOperation(MemoryOperations[p])
  BY OperationsBuilt DEF MemoryOperations
<1>6. \A p \in DOMAIN ConsumerOperations : IsOperation(ConsumerOperations[p])
  BY OperationsBuilt DEF ConsumerOperations
<1> QED  BY <1>1, <1>2, <1>3, <1>4, <1>5, <1>6 DEF OperationsOf

(***************************************************************************)
(* The steps of a method                                                   *)
(***************************************************************************)
\* A step of c leaves client, token and the other promises as they are.
StepOf(c) ==
    /\ call' = [call EXCEPT ![c] = call'[c]]
    /\ kind' = kind /\ token' = token

\* A step within one method keeps the invariant.
LEMMA StepKeeps ==
    ASSUME HttpInv, NEW c \in Calls, StepOf(c), PromiseInv(c)'
    PROVE  HttpInv'
<1>1. \A d \in Calls : PromiseInv(d)'
  <2> SUFFICES ASSUME NEW d \in Calls, d # c
               PROVE  PromiseInv(d)'
    OBVIOUS
  <2>1. call'[d] = call[d]
    BY DEF StepOf, HttpInv
  <2> QED  BY <2>1, OthersKept DEF StepOf, HttpInv
<1>2. call'[c] \in Promise'
  BY DEF PromiseInv
<1>3. Promise' = Promise
  BY DEF Promise, Methods
<1> QED  BY <1>1, <1>2, <1>3 DEF StepOf, HttpInv

\* A method that ends with an error, or reads what it can parse.
LEMMA SettleKeeps ==
    ASSUME HttpInv, NEW c \in Calls, NEW applied \in BOOLEAN,
           NEW result \in {"Ok", "Ok(false)", "Err"}, Settle(c, result, applied),
           call[c].phase \in {"begun", "sent", "reading"}, kind' = kind, token' = token,
           applied = call[c].applied \/ call[c].body = "none",
           result = "Ok" => Parses(c) /\ call[c].phase = "reading"
    PROVE  HttpInv'
<1>1. PromiseInv(c) /\ call[c] \in Promise
  BY DEF HttpInv
<1>2. call'[c] = [call[c] EXCEPT !.phase = "settled", !.result = result,
                                 !.applied = applied, !.auth = <<>>, !.blank = FALSE]
  BY DEF Settle, HttpInv
<1>3. StepOf(c)
  BY <1>2 DEF Settle, StepOf
<1>4. /\ call'[c].phase = "settled" /\ call'[c].target = call[c].target
      /\ call'[c].op = call[c].op /\ call'[c].name = call[c].name
      /\ call'[c].body = call[c].body /\ call'[c].applied = applied
      /\ call'[c].result = result
  BY <1>1, <1>2 DEF Promise
<1>5. call'[c] \in Promise
  BY <1>1, <1>2 DEF Promise, Phases
<1>6. OpOf(c)' = OpOf(c) /\ Promise' = Promise
  BY <1>4 DEF OpOf, Promise, Methods
<1>7. Addressed(c)'
  BY <1>1, <1>4, <1>6 DEF PromiseInv, Addressed
<1>8. Answered(c)'
  BY <1>1, <1>4, <1>6 DEF PromiseInv, Answered
<1>9. result = "Ok" => Parses(c)' /\ call[c].body \in {"asked", "other", "page"}
  BY <1>1, <1>4, <1>6 DEF PromiseInv, Parses
<1>10. PromiseInv(c)'
  BY <1>1, <1>4, <1>5, <1>6, <1>7, <1>8, <1>9 DEF PromiseInv
<1> QED  BY <1>3, <1>10, StepKeeps

\* A method that fails has another result than one that has succeeded.
LEMMA FailureIsNotOk ==
    ASSUME NEW c
    PROVE  Failure(c) \in {"Ok", "Ok(false)", "Err"} /\ Failure(c) # "Ok"
BY DEF Failure

\* A request is sent where its name leads.
LEMMA SendKeeps ==
    ASSUME HttpInv, NEW c \in Calls, Send(c)
    PROVE  HttpInv'
<1> DEFINE target == Target(OpOf(c), call[c].name)
<1>1. /\ call[c] \in Promise /\ PromiseInv(c) /\ call[c].phase = "begun"
      /\ kind' = kind /\ token' = token
      /\ Accepts(OpOf(c), call[c].name, call[c].blank)
  BY DEF HttpInv, Send
<1>2. /\ target \in {"own", "else"}
      /\ target = "else" =>
            \/ kind = "Consumer"
            \/ /\ "topic_name" \notin OpOf(c).checks
               /\ call[c].name.length = 0 \/ IsDotSegment(call[c].name)
  BY <1>1 DEF Target, EncodedSegment, OwnSegment, Accepts, validate_topic_name
<1>3. Authorization \in {<<>>} \union {<<t>> : t \in Tokens}
  BY AuthorizationType DEF HttpInv
<1>4. call'[c] = [call[c] EXCEPT !.phase = "sent", !.auth = Authorization,
                                 !.blank = FALSE, !.target = target]
  BY <1>1 DEF Send, HttpInv, Promise
<1> HIDE DEF target
<1>5. StepOf(c)
  BY <1>1, <1>4 DEF Send, HttpInv, StepOf, target
<1>6. call'[c] \in Promise
  BY <1>1, <1>2, <1>3, <1>4 DEF Promise, Phases
<1>7. /\ call'[c].phase = "sent" /\ call'[c].auth = Authorization
      /\ call'[c].target = target /\ call'[c].body = call[c].body
      /\ call'[c].op = call[c].op /\ call'[c].name = call[c].name
      /\ call'[c].result = call[c].result
  BY <1>1, <1>4 DEF Promise
<1>8. OpOf(c)' = OpOf(c) /\ Promise' = Promise /\ Authorization' = Authorization
  BY <1>1, <1>7 DEF OpOf, Promise, Methods, Authorization
<1>9. Addressed(c)'
  BY <1>1, <1>2, <1>7, <1>8 DEF Addressed
<1>10. call[c].body = "none" /\ call[c].result = "none"
  BY <1>1 DEF PromiseInv
<1>11. Answered(c)'
  BY <1>7, <1>10 DEF Answered
<1>12. PromiseInv(c)'
  BY <1>1, <1>2, <1>6, <1>7, <1>8, <1>9, <1>10, <1>11 DEF PromiseInv
<1> QED  BY <1>5, <1>12, StepKeeps

\* An answer.
LEMMA RespondsKeeps ==
    ASSUME HttpInv, NEW c \in Calls, NEW status, NEW applied \in BOOLEAN,
           NEW body \in {"asked", "other", "error", "page"},
           Responds(c, status, body, applied),
           status = "ok" => body # "error",
           body = "asked" => call[c].target = "own" /\ (OpOf(c).writes => applied),
           body = "other" => call[c].target = "else"
    PROVE  HttpInv'
<1>1. /\ call[c] \in Promise /\ PromiseInv(c) /\ call[c].phase = "sent"
      /\ kind' = kind /\ token' = token
  BY DEF HttpInv, Responds
<1>2. CASE status = "ok"
  <2>1. call'[c] = [call[c] EXCEPT !.phase = "reading", !.body = body,
                                   !.applied = applied]
    BY <1>1, <1>2 DEF Responds, StatusChecked, HttpInv, Promise
  <2>2. StepOf(c)
    BY <1>1, <1>2, <2>1 DEF Responds, StatusChecked, HttpInv, StepOf
  <2>3. call'[c] \in Promise
    BY <1>1, <2>1 DEF Promise, Phases
  <2>4. /\ call'[c].phase = "reading" /\ call'[c].auth = call[c].auth
        /\ call'[c].target = call[c].target /\ call'[c].body = body
        /\ call'[c].op = call[c].op /\ call'[c].name = call[c].name
        /\ call'[c].result = call[c].result /\ call'[c].applied = applied
    BY <1>1, <2>1 DEF Promise
  <2>5. OpOf(c)' = OpOf(c) /\ Promise' = Promise /\ Authorization' = Authorization
    BY <1>1, <2>4 DEF OpOf, Promise, Methods, Authorization
  <2>6. Addressed(c)'
    BY <1>1, <2>4, <2>5 DEF PromiseInv, Addressed
  <2>7. Answered(c)'
    BY <2>4, <2>5 DEF Answered
  <2>8. PromiseInv(c)'
    BY <1>1, <1>2, <2>3, <2>4, <2>5, <2>6, <2>7 DEF PromiseInv
  <2> QED  BY <2>2, <2>8, StepKeeps
<1>3. CASE status # "ok"
  <2>1. Settle(c, Failure(c), applied) /\ call[c].body = "none"
    BY <1>1, <1>3 DEF Responds, StatusChecked, PromiseInv
  <2> QED  BY <1>1, <2>1, FailureIsNotOk, SettleKeeps
<1> QED  BY <1>2, <1>3

\* Every step of a method does.
LEMMA MethodKeeps ==
    ASSUME HttpInv, NEW c \in Calls, Method(c)
    PROVE  HttpInv'
<1>1. call[c] \in Promise /\ PromiseInv(c) /\ kind \in DOMAIN OperationsOf
  BY KindAssumption DEF HttpInv
<1>2. MayApply(c) \subseteq BOOLEAN
  BY Zenon DEF MayApply
<1>3. call[c].applied \in BOOLEAN
  BY <1>1 DEF Promise
<1>4. CASE Refuse(c)
  <2>1. call[c].body = "none"
    BY <1>1, <1>4 DEF Refuse, PromiseInv
  <2> QED  BY <1>4, <2>1, FailureIsNotOk, SettleKeeps DEF Refuse
<1>5. CASE Send(c)
  BY <1>5, SendKeeps
<1>6. CASE Read(c)
  <2>1. CASE Parses(c) /\ Settle(c, "Ok", call[c].applied)
    BY <1>3, <1>6, <2>1, SettleKeeps DEF Read
  <2>2. CASE Settle(c, Failure(c), call[c].applied)
    BY <1>3, <1>6, <2>2, FailureIsNotOk, SettleKeeps DEF Read
  <2> QED  BY <1>6, <2>1, <2>2 DEF Read
<1>7. CASE NetworkFails(c)
  <2>1. call[c].body = "none"
    BY <1>1, <1>7 DEF NetworkFails, PromiseInv
  <2>2. PICK applied \in BOOLEAN : Settle(c, Failure(c), applied)
    BY <1>2, <1>7 DEF NetworkFails
  <2> QED  BY <1>7, <2>1, <2>2, FailureIsNotOk, SettleKeeps DEF NetworkFails
<1>8. CASE Served(c)
  <2>1. OpOf(c).writes \in BOOLEAN
    <3>1. call[c].op \in DOMAIN OperationsOf[kind]
      BY <1>1, <1>8 DEF Served, Responds, PromiseInv
    <3> QED  BY <1>1, <3>1, AllOperations DEF IsOperation, OpOf
  <2>2. call[c].target \in {"own", "else"}
    BY <1>1, <1>8 DEF Served, Responds, PromiseInv
  <2>3. CASE call[c].target = "own"
    BY <1>8, <2>1, <2>3, RespondsKeeps DEF Served
  <2>4. CASE call[c].target = "else"
    BY <1>8, <2>4, RespondsKeeps DEF Served
  <2> QED  BY <2>2, <2>3, <2>4
<1>9. CASE Failed(c)
  <2>1. PICK applied \in BOOLEAN : Responds(c, "error", "error", applied)
    BY <1>2, <1>9 DEF Failed
  <2> QED  BY <2>1, RespondsKeeps
<1>10. CASE Page(c)
  BY <1>10, RespondsKeeps DEF Page
<1> QED  BY <1>4, <1>5, <1>6, <1>7, <1>8, <1>9, <1>10 DEF Method

(***************************************************************************)
(* The application's steps                                                 *)
(***************************************************************************)
LEMMA BeginKeeps ==
    ASSUME HttpInv, NEW c \in Calls, NEW op \in DOMAIN OperationsOf[kind],
           NEW name \in Names \union {NoName}, NEW blank \in BOOLEAN,
           Begin(c, op, name, blank)
    PROVE  HttpInv'
<1>1. /\ call'[c] = [NoCall EXCEPT !.phase = "begun", !.op = op, !.name = name,
                                   !.blank = blank]
      /\ kind' = kind /\ token' = token
  BY DEF Begin, HttpInv
<1>2. StepOf(c)
  BY <1>1 DEF Begin, StepOf
<1>3. op \in Methods
  BY DEF HttpInv, Methods
<1>4. call'[c] \in Promise
  BY <1>1, <1>3 DEF NoCall, Promise, Phases
<1>5. /\ call'[c].phase = "begun" /\ call'[c].op = op /\ call'[c].target = "none"
      /\ call'[c].result = "none" /\ call'[c].body = "none"
  BY <1>1 DEF NoCall
<1>6. Promise' = Promise
  BY DEF Promise, Methods
<1>7. PromiseInv(c)'
  BY <1>1, <1>4, <1>5, <1>6 DEF PromiseInv, Addressed, Answered
<1> QED  BY <1>2, <1>7, StepKeeps

\* So does the drop of a pending call.
LEMMA ForgetKeeps ==
    ASSUME HttpInv, NEW c \in Calls, Forget(c)
    PROVE  HttpInv'
<1>1. call'[c] = NoCall /\ kind' = kind /\ token' = token
  BY DEF Forget, HttpInv
<1>2. StepOf(c)
  BY <1>1 DEF Forget, StepOf
<1>3. Promise' = Promise
  BY DEF Promise, Methods
<1>4. PromiseInv(c)'
  BY <1>1, <1>3, NoCallType DEF PromiseInv, NoCall, Addressed, Answered
<1> QED  BY <1>2, <1>4, StepKeeps

\* No request is under way when the token changes.
LEMMA TokenKeeps ==
    ASSUME HttpInv, NEW t \in Tokens, SetAuthToken(t)
    PROVE  HttpInv'
<1>1. \A c \in Calls : PromiseInv(c)'
  BY OthersKept DEF HttpInv, SetAuthToken, Borrowed
<1>2. Promise' = Promise
  BY DEF Promise, Methods
<1> QED  BY <1>1, <1>2 DEF HttpInv, SetAuthToken

\* And a step of somebody else.
LEMMA StutterKeeps ==
    ASSUME HttpInv, UNCHANGED <<kind, token, call>>
    PROVE  HttpInv'
<1>1. \A c \in Calls : PromiseInv(c)'
  BY OthersKept DEF HttpInv
<1>2. Promise' = Promise
  BY DEF Promise, Methods
<1> QED  BY <1>1, <1>2 DEF HttpInv

\* Every step keeps the invariant.
LEMMA NextHttp == HttpInv /\ [HttpNext]_httpVars => HttpInv'
<1> SUFFICES ASSUME HttpInv, [HttpNext]_httpVars
             PROVE  HttpInv'
  OBVIOUS
<1>1. CASE UNCHANGED httpVars
  BY <1>1, StutterKeeps DEF httpVars
<1>2. CASE HttpNext
  <2>1. ASSUME NEW c \in Calls, NEW op \in DOMAIN OperationsOf[kind],
               NEW name, NEW blank, Begin(c, op, name, blank),
               name \in Names \union {NoName}, blank \in BOOLEAN
        PROVE  HttpInv'
    BY <2>1, BeginKeeps
  <2>2. ASSUME NEW t \in Tokens, SetAuthToken(t)
        PROVE  HttpInv'
    BY <2>2, TokenKeeps
  <2>3. ASSUME NEW c \in Calls, Forget(c)
        PROVE  HttpInv'
    BY <2>3, ForgetKeeps
  <2>4. ASSUME NEW schema \in Schemas, NEW value \in Values, ValidateJson(schema, value)
        PROVE  HttpInv'
    BY <2>4, StutterKeeps DEF ValidateJson
  <2>5. CASE Application
    BY <2>1, <2>2, <2>3, <2>4, <2>5 DEF Application
  <2> QED  BY <1>2, <2>5, MethodKeeps DEF HttpNext
<1> QED  BY <1>1, <1>2

\* The inductive invariant of the HTTP clients.
THEOREM HttpInvariant == HttpSpec => []HttpInv
BY InitHttp, NextHttp, PTL DEF HttpSpec

(***************************************************************************)
(* What follows                                                            *)
(***************************************************************************)
\* Promises keep their types, and no header is sent without a token
\* (set_headers), for any number of calls under way.
THEOREM HttpTypes == HttpSpec => []HttpTypeOK
<1>1. HttpInv => HttpTypeOK
  BY DEF HttpInv, PromiseInv, HttpTypeOK
<1> QED  BY <1>1, HttpInvariant, PTL

\* A request under way carries the client's token of now (set_auth_token).
THEOREM TokenIsCurrent == HttpSpec => []TokenOfTheClient
<1>1. HttpInv => TokenOfTheClient
  BY DEF HttpInv, PromiseInv, TokenOfTheClient
<1> QED  BY <1>1, HttpInvariant, PTL

\* A name leads to its own resource, but for the names that the code leaves
\* unchecked or unencoded (encode and validate_topic_name).
THEOREM ResourceIsOwn == HttpSpec => []AddressesItsResource
<1>1. HttpInv => AddressesItsResource
  BY DEF HttpInv, PromiseInv, Addressed, AddressesItsResource
<1> QED  BY <1>1, HttpInvariant, PTL

\* What a method is made of.
LEMMA OperationFields ==
    /\ \A m, r, n, t :
          LET op == Operation(m, r, n, t) IN
          /\ op.method = m /\ op.name = n /\ op.result = t
          /\ op.writes <=> m = "DELETE"
    /\ \A op : IsOperation(op) =>
          LET w == Writing(op) IN
          w.method = op.method /\ w.name = op.name /\ w.result = op.result
    /\ \A op, checks : IsOperation(op) =>
          LET w == Checking(op, checks) IN
          /\ w.method = op.method /\ w.name = op.name /\ w.result = op.result
          /\ w.writes = op.writes
BY DEF IsOperation, Operation, Writing, Checking

\* A method that changes something returns nothing, or something that is
\* parsed; one that gets a named resource, a description that is not lenient.
WellTyped(op) ==
    /\ op.writes => op.result \in {"()", "RegisterResponse", "Vec<u32>"}
    /\ op.name = "path" /\ op.method = "GET" =>
          op.result \in {"TopicDescription", "ConsumerGroupDescription", "SchemaInfo", "Vec<u32>"}

\* The result types of every operation are Types.
LEMMA AllWellTyped ==
    ASSUME NEW k \in DOMAIN OperationsOf, NEW o \in DOMAIN OperationsOf[k]
    PROVE  WellTyped(OperationsOf[k][o])
<1>1. \A p \in DOMAIN AdminOperations : WellTyped(AdminOperations[p])
  BY OperationsBuilt, OperationFields DEF AdminOperations, WellTyped
<1>2. \A p \in DOMAIN QueryOperations : WellTyped(QueryOperations[p])
  BY OperationsBuilt, OperationFields DEF QueryOperations, WellTyped
<1>3. \A p \in DOMAIN RegistryOperations : WellTyped(RegistryOperations[p])
  BY OperationsBuilt, OperationFields DEF RegistryOperations, WellTyped
<1>4. \A p \in DOMAIN SearchOperations : WellTyped(SearchOperations[p])
  BY OperationsBuilt, OperationFields DEF SearchOperations, WellTyped
<1>5. \A p \in DOMAIN MemoryOperations : WellTyped(MemoryOperations[p])
  BY OperationsBuilt, OperationFields DEF MemoryOperations, WellTyped
<1>6. \A p \in DOMAIN ConsumerOperations : WellTyped(ConsumerOperations[p])
  BY OperationsBuilt, OperationFields DEF ConsumerOperations, WellTyped
<1> QED  BY <1>1, <1>2, <1>3, <1>4, <1>5, <1>6 DEF OperationsOf

\* What an operation returns is what its type reads of the page.
LEMMA ParsedResults ==
    \A result \in {"RegisterResponse", "Vec<u32>", "TopicDescription",
                  "ConsumerGroupDescription", "SchemaInfo"} :
        IsParsed(result) /\ ~Lenient(result)
<1>1. /\ \A n, r : /\ Struct(n, r).name = n /\ ~Struct(n, r).list
                   /\ Struct(n, r).required = r
      /\ \A n, r : Vec(n, r).name = n /\ Vec(n, r).list
  BY DEF Struct, Vec
<1> QED
  BY <1>1 DEF IsParsed, Lenient, Types, AdminTypes, RegistryTypes, SchemaInfo,
              MoonshotTypes, ConsumerTypes

\* A method that returns Ok has done what it was called for: Ok comes after
\* the status was checked, and what it parses is never a page.
THEOREM OkIsDone == HttpSpec => []OkMeansDone
<1>1. HttpInv => OkMeansDone
  <2> SUFFICES ASSUME HttpInv, NEW c \in Calls,
                      call[c].result = "Ok", OpOf(c).writes, call[c].target = "own",
                      call[c].body = "page" => OpOf(c).result # "()"
               PROVE  call[c].applied
    BY DEF OkMeansDone
  <2>1. PromiseInv(c)
    BY DEF HttpInv
  <2>2. call[c].op \in DOMAIN OperationsOf[kind] /\ kind \in DOMAIN OperationsOf
    BY <2>1, KindAssumption DEF PromiseInv, HttpInv
  <2>3. call[c].body = "page" => IsParsed(OpOf(c).result)
    BY <2>2, AllWellTyped, ParsedResults DEF WellTyped, OpOf
  <2>4. call[c].body = "asked"
    BY <2>1, <2>3 DEF PromiseInv, Parses, Answered
  <2> QED  BY <2>1, <2>4 DEF PromiseInv, Answered
<1> QED  BY <1>1, HttpInvariant, PTL

\* A description of a named resource has been read from that resource.
THEOREM ReadIsNamed == HttpSpec => []ReadsWhatItNamed
<1>1. HttpInv => ReadsWhatItNamed
  <2> SUFFICES ASSUME HttpInv, NEW c \in Calls, call[c].result = "Ok",
                      OpOf(c).name = "path", OpOf(c).method = "GET"
               PROVE  call[c].target = "own" /\ call[c].body = "asked"
    BY DEF ReadsWhatItNamed
  <2>1. PromiseInv(c)
    BY DEF HttpInv
  <2>2. call[c].op \in DOMAIN OperationsOf[kind] /\ kind \in DOMAIN OperationsOf
    BY <2>1, KindAssumption DEF PromiseInv, HttpInv
  <2>3. IsParsed(OpOf(c).result) /\ ~Lenient(OpOf(c).result)
    BY <2>2, AllWellTyped, ParsedResults DEF WellTyped, OpOf
  <2>4. call[c].body = "asked"
    BY <2>1, <2>3 DEF PromiseInv, Parses
  <2> QED  BY <2>1, <2>4 DEF PromiseInv, Answered
<1> QED  BY <1>1, HttpInvariant, PTL

(***************************************************************************)
(* validate_json                                                           *)
(***************************************************************************)
\* There are finitely many types.
LEMMA FiniteTypes == IsFiniteSet(JsonTypes)
<1>1. \A S, a : IsFiniteSet(S) => IsFiniteSet(S \union {a})
  BY FS_AddElement
<1>2. JsonTypes = {} \union {"object"} \union {"array"} \union {"string"} \union {"number"}
                     \union {"integer"} \union {"boolean"} \union {"null"}
  BY DEF JsonTypes
<1> QED  BY <1>1, <1>2, FS_EmptySet

\* A schema has one type that is a string, or none.
LEMMA StringIsOneType ==
    ASSUME NEW schema, IsSchema(schema), StringType(schema) # {}
    PROVE  \E type \in JsonTypes : StringType(schema) = {type} /\ schema.types = {type}
<1>1. /\ StringType(schema) = schema.types /\ schema.types \subseteq JsonTypes
      /\ Cardinality(schema.types) <= 1 /\ schema.types # {}
  BY DEF IsSchema, StringType
<1>2. IsFiniteSet(schema.types)
  BY <1>1, FiniteTypes, FS_Subset
<1>3. Cardinality(schema.types) \in Nat /\ Cardinality(schema.types) # 0
  BY <1>1, <1>2, FS_CardinalityType, FS_EmptySet
<1>4. \E type : schema.types = {type}
  BY <1>1, <1>2, <1>3, FS_Singleton
<1> QED  BY <1>1, <1>4

\* What basic_json_validate answers of a schema with one type.
LEMMA OneTypeAnswer ==
    ASSUME NEW schema, NEW value, NEW type \in JsonTypes, StringType(schema) = {type}
    PROVE  basic_json_validate(schema, value) <=>
              /\ type = "object" => ObjectAccepted(schema, value)
              /\ type \in {"number", "integer"} => value.kind \in Numbers
              /\ type \in {"array", "string", "boolean", "null"} => value.kind = type
BY DEF basic_json_validate, JsonTypes

\* Of each single type, answer and JSON Schema agree, but for "integer".
LEMMA OneTypeAgrees ==
    ASSUME NEW schema, NEW value, NEW type \in JsonTypes,
           StringType(schema) = {type}, schema.types = {type}, value.kind \in JsonKinds
    PROVE  /\ Conforms(schema, value) => basic_json_validate(schema, value)
           /\ basic_json_validate(schema, value) /\ type # "integer"
                => Conforms(schema, value)
<1>1. Conforms(schema, value) <=>
          /\ HasType(value, type)
          /\ value.kind = "object" => schema.required \subseteq value.fields
  BY DEF Conforms
<1> QED
  BY <1>1, OneTypeAnswer
  DEF HasType, ObjectAccepted, Numbers, JsonKinds, JsonTypes

\* Without a type, or with a list of them, even of one, everything is accepted.
LEMMA OthersAccepted ==
    ASSUME NEW schema, NEW value, StringType(schema) = {}
    PROVE  basic_json_validate(schema, value)
BY DEF basic_json_validate

\* The last verdict is the answer to what was asked.
VerdictInv ==
    verdict = Unchecked \/
        \E schema \in Schemas, value \in Values :
            verdict = [schema |-> schema, value |-> value,
                       answer |-> basic_json_validate(schema, value)]

\* Only validate_json gives a verdict.
LEMMA NextVerdict == VerdictInv /\ [HttpNext]_httpVars => VerdictInv'
<1> SUFFICES ASSUME VerdictInv, [HttpNext]_httpVars
             PROVE  VerdictInv'
  OBVIOUS
<1>1. CASE UNCHANGED verdict
  BY <1>1 DEF VerdictInv
<1>2. CASE verdict' = Unchecked
  BY <1>2 DEF VerdictInv
<1>3. ASSUME NEW schema \in Schemas, NEW value \in Values, ValidateJson(schema, value)
      PROVE  VerdictInv'
  BY <1>3 DEF ValidateJson, VerdictInv
<1>4. ASSUME NEW c \in Calls, Method(c)
      PROVE  UNCHANGED verdict
  BY <1>4 DEF Method, Refuse, Send, Read, NetworkFails, Served, Failed, Page, Responds
<1>5. CASE Application
  BY <1>1, <1>2, <1>3, <1>5 DEF Application, Begin, SetAuthToken, Forget
<1> QED  BY <1>1, <1>4, <1>5 DEF HttpNext, httpVars

\* validate_json rejects nothing that conforms, whatever the schema, and
\* accepts nothing that does not where it looks: every schema and value of
\* JSON, not those of the run only (basic_json_validate).
THEOREM VerdictIsRight == HttpSpec => []JsonVerdict
<1>1. HttpInit => VerdictInv
  BY DEF HttpInit, VerdictInv
<1>2. VerdictInv => JsonVerdict
  <2> SUFFICES ASSUME NEW schema \in Schemas, NEW value \in Values,
                      verdict = [schema |-> schema, value |-> value,
                                 answer |-> basic_json_validate(schema, value)]
               PROVE  JsonVerdict
    BY DEF VerdictInv, JsonVerdict
  <2>1. IsSchema(schema) /\ value.kind \in JsonKinds
    BY JsonAssumption
  <2>2. CASE StringType(schema) # {}
    <3>1. PICK type \in JsonTypes : StringType(schema) = {type} /\ schema.types = {type}
      BY <2>1, <2>2, StringIsOneType
    <3>2. CheckedInFull(schema) <=> type # "integer"
      BY <3>1 DEF CheckedInFull
    <3> QED  BY <2>1, <3>1, <3>2, OneTypeAgrees DEF JsonVerdict
  <2>3. CASE StringType(schema) = {}
    BY <2>3, OthersAccepted DEF JsonVerdict, CheckedInFull
  <2> QED  BY <2>2, <2>3
<1> QED  BY <1>1, <1>2, NextVerdict, PTL DEF HttpSpec

=============================================================================
