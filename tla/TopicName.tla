----------------------------- MODULE TopicName -----------------------------
(***************************************************************************)
(* Names of topics, consumer groups and subjects: src/validation.rs, and   *)
(* what becomes of a name that is a segment of a URL.  Of a name only its  *)
(* length is kept, whether it is made of dots, and whether all its         *)
(* characters are ASCII letters, digits, '.', '_' or '-' (`clean`), which  *)
(* are among those that encodeURIComponent leaves alone.                   *)
(***************************************************************************)
EXTENDS Naturals

MaxNameLength == 249

Name(length, dots, clean) == [length |-> length, dots |-> dots, clean |-> clean]

\* "." and ".."
IsDotSegment(name) == name.dots /\ name.length \in {1, 2}

\* validate_topic_name.  It counts bytes; the names of more bytes than
\* characters are not clean.
validate_topic_name(name) ==
    /\ name.length # 0
    /\ name.length <= MaxNameLength
    /\ ~IsDotSegment(name)
    /\ name.clean

\* The URL parser drops "." segments and resolves ".." against the segment
\* before, and an empty segment names nothing: the URL is another resource's.
OwnSegment(name) == name.length # 0 /\ ~IsDotSegment(name)

\* Without encoding a name may also hold '/', '?' or '#'.
OwnRawSegment(name) == OwnSegment(name) /\ name.clean
=============================================================================
