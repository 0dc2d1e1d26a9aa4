------------------------------- MODULE Errors -------------------------------
(***************************************************************************)
(* The errors of src/error.rs: a code, and whether the operation may be    *)
(* tried again.  The wording of messages and hints is left out.            *)
(***************************************************************************)

\* enum ErrorCode.
ErrorCode ==
    {"NotConnected", "ConnectionFailed", "SerializationError", "TopicNotFound",
     "AuthenticationFailed", "Timeout", "ProduceError", "AdminError", "QueryError",
     "SchemaRegistryError", "ConfigurationError", "Unsupported", "Unknown"}

StreamlineError(code, retryable) == [code |-> code, retryable |-> retryable]

\* What the constructors of StreamlineError make.
ErrorOf ==
    [not_connected     |-> StreamlineError("NotConnected", TRUE),
     serialization     |-> StreamlineError("SerializationError", FALSE),
     connection_failed |-> StreamlineError("ConnectionFailed", TRUE),
     produce_error     |-> StreamlineError("ProduceError", TRUE),
     timeout           |-> StreamlineError("Timeout", TRUE),
     configuration     |-> StreamlineError("ConfigurationError", FALSE),
     unsupported       |-> StreamlineError("Unsupported", FALSE),
     auth_failed       |-> StreamlineError("AuthenticationFailed", FALSE)]

\* An exception of the browser, and the strings the HTTP clients return, have
\* neither a code nor a `retryable`, which JavaScript takes for false.
Exception == StreamlineError("Unknown", FALSE)
=============================================================================
