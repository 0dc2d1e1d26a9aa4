--------------------------- MODULE HttpOperations ---------------------------
(***************************************************************************)
(* What the exported async methods of the HTTP clients ask for: AdminClient*)
(* and QueryClient (src/admin.rs), SchemaRegistryClient                    *)
(* (src/schema_registry.rs), SearchClient and MemoryReadClient             *)
(* (src/moonshot.rs), and Consumer::search (src/lib.rs).  A method is a    *)
(* record: the HTTP method, the resource, where its name argument goes     *)
(* ("path", "body" or "nowhere"), what it checks before it sends, whether  *)
(* it changes the server, and what it makes of the body of the response.   *)
(***************************************************************************)
Operation(method, resource, name, result) ==
    [method |-> method, resource |-> resource, name |-> name, checks |-> {},
     writes |-> method = "DELETE", result |-> result]

Writing(op) == [op EXCEPT !.writes = TRUE]
Checking(op, checks) == [op EXCEPT !.checks = checks]

AdminOperations ==
    [list_topics |-> Operation("GET", "topics", "nowhere", "Vec<AdminTopicInfo>"),
     describe_topic |-> Operation("GET", "topics", "path", "TopicDescription"),
     create_topic |-> Checking(Writing(Operation("POST", "topics", "body", "()")),
                               {"topic_name"}),
     delete_topic |-> Checking(Operation("DELETE", "topics", "path", "()"),
                               {"topic_name"}),
     list_consumer_groups |->
         Operation("GET", "consumer-groups", "nowhere", "Vec<ConsumerGroupInfo>"),
     describe_consumer_group |->
         Operation("GET", "consumer-groups", "path", "ConsumerGroupDescription"),
     delete_consumer_group |-> Operation("DELETE", "consumer-groups", "path", "()"),
     health |-> Operation("GET", "health", "nowhere", "bool"),
     server_info |-> Operation("GET", "info", "nowhere", "ServerInfo")]

QueryOperations ==
    [execute |-> Operation("POST", "query", "nowhere", "QueryResult"),
     execute_raw |-> Operation("POST", "query", "nowhere", "String")]

RegistryOperations ==
    [register_schema |-> Writing(Operation("POST", "subjects", "path", "RegisterResponse")),
     get_latest_schema |-> Operation("GET", "subjects", "path", "SchemaInfo"),
     get_schema_version |-> Operation("GET", "subjects", "path", "SchemaInfo"),
     get_schema_by_id |-> Operation("GET", "schemas/ids", "nowhere", "SchemaInfo"),
     list_subjects |-> Operation("GET", "subjects", "nowhere", "Vec<String>"),
     list_versions |-> Operation("GET", "subjects", "path", "Vec<u32>"),
     check_compatibility |->
         Operation("POST", "compatibility/subjects", "path", "CompatibilityResult"),
     delete_subject |-> Operation("DELETE", "subjects", "path", "Vec<u32>")]

\* Here the name argument is the topic or the agent.
SearchOperations ==
    [search |-> Checking(Operation("POST", "search", "body", "SearchResponse"),
                         {"name", "query"})]
MemoryOperations ==
    [recall |-> Checking(Operation("POST", "memory/recall", "body", "RecallResponse"),
                         {"name", "query"})]
ConsumerOperations ==
    [search |-> Checking(Operation("POST", "topics", "path", "ConsumerSearchResponse"),
                         {"query"})]

OperationsOf ==
    [AdminClient |-> AdminOperations, QueryClient |-> QueryOperations,
     SchemaRegistryClient |-> RegistryOperations, SearchClient |-> SearchOperations,
     MemoryReadClient |-> MemoryOperations, Consumer |-> ConsumerOperations]

(***************************************************************************)
(* What the responses are parsed into: the fields that must be there; those*)
(* with serde(default) may be left out.                                    *)
(***************************************************************************)
Struct(name, required) == [name |-> name, list |-> FALSE, required |-> required]
Vec(name, required) == [name |-> name, list |-> TRUE, required |-> required]

AdminTypes ==
    {Vec("Vec<AdminTopicInfo>", {"name", "partitions"}),
     Struct("TopicDescription", {"name", "partitions"}),
     Vec("Vec<ConsumerGroupInfo>", {"group_id", "state"}),
     Struct("ConsumerGroupDescription", {"group_id", "state"}),
     Struct("QueryResult", {}), Struct("ServerInfo", {})}

SchemaInfoOfDefaults == Struct("SchemaInfo", {})
SchemaInfo ==
    Struct("SchemaInfo", {"subject", "id", "version", "schema_type", "schema"})

RegistryTypes ==
    {SchemaInfo, Struct("CompatibilityResult", {"is_compatible"}),
     Struct("RegisterResponse", {"id"}),
     Vec("Vec<String>", {}), Vec("Vec<u32>", {})}

MoonshotTypes == {Struct("SearchResponse", {}), Struct("RecallResponse", {})}

ConsumerTypes == {Struct("ConsumerSearchResponse", {})}

Types == AdminTypes \union RegistryTypes \union MoonshotTypes \union ConsumerTypes

\* The other results are the text of the body, or nothing of it.
IsParsed(result) == \E type \in Types : type.name = result

\* Is every JSON object parsed into this result, whatever it is about?
Lenient(result) ==
    \E type \in Types : type.name = result /\ ~type.list /\ type.required = {}
=============================================================================
