----------------------------- MODULE Telemetry -----------------------------
(***************************************************************************)
(* src/telemetry.rs: spans that time an operation with the console's       *)
(* timers and with the marks of the Performance API.                       *)
(*                                                                         *)
(* Timers and marks are the page's, found by name.  Every span of one      *)
(* topic and operation has the same name, so that what a span measures     *)
(* depends on the other spans that are open, and on whether telemetry was  *)
(* enabled when they began and ended.  A span is handed to end_span() by   *)
(* value: the application can end it once.                                 *)
(*                                                                         *)
(* Time is the number of spans started so far.                             *)
(***************************************************************************)
EXTENDS Integers

CONSTANTS
    Topics,
    Handles,        \* the spans the application holds at a time
    MaxStarts       \* bound on the spans started

ASSUME TelemetryAssumption == MaxStarts \in Nat

VARIABLES
    enabled,
    performance,    \* window().performance exists; not so in a worker
    span,           \* the spans the application holds
    timer,          \* when the console timer of each label was started
    mark,           \* when the latest start mark of each label was made
    clock,
    ended,          \* history: the span ended last, and what it was said to last
    unended         \* history: labels of spans lost, or ended while disabled,
                    \* with no other ended since

telemetryVars ==
    <<enabled, performance, span, timer, mark, clock, ended, unended>>

Operations == {"produce", "consume", "process"}

LabelOfTopic(topic, operation) == <<topic, "produce">>
Label(topic, operation) == <<topic, operation>>
Labels == {Label(t, o) : t \in Topics, o \in Operations}

NoTime == 0

\* `marked`: started while telemetry was enabled.  The rest is history:
\* `alone`: no span of its topic and operation was open, and no timer of its
\* label left running, when it began, and none began since; `overtaken`: one
\* began since.
NoSpan == [topic |-> "none", operation |-> "none", began |-> NoTime,
           marked |-> FALSE, alone |-> FALSE, overtaken |-> FALSE]
NoEnd == [span |-> NoSpan, printed |-> NoTime, measured |-> NoTime]

Open(h) == span[h] # NoSpan
LabelOf(h) == Label(span[h].topic, span[h].operation)
Same(h, topic, operation) ==
    Open(h) /\ span[h].topic = topic /\ span[h].operation = operation

(***************************************************************************)
(* console and performance                                                 *)
(***************************************************************************)
\* console.time leaves a timer that is running as it is.
ConsoleTime(l) == timer' = [timer EXCEPT ![l] = IF @ = NoTime THEN clock + 1 ELSE @]
ConsoleTimeEnd(l) == timer' = [timer EXCEPT ![l] = NoTime]

\* A measure takes the latest mark of the name it is given.
MarkOnce(l) == mark' = [mark EXCEPT ![l] = IF @ = NoTime THEN clock + 1 ELSE @]
MarkStart(l) == mark' = IF performance THEN [mark EXCEPT ![l] = clock + 1] ELSE mark

(***************************************************************************)
(* Spans                                                                   *)
(***************************************************************************)
\* start_produce, start_consume and start_process.
StartSpan(h, topic, operation) ==
    /\ ~Open(h) /\ clock < MaxStarts
    /\ clock' = clock + 1
    /\ span' = [g \in Handles |->
          IF g = h
            THEN [topic |-> topic, operation |-> operation, began |-> clock + 1,
                  marked |-> enabled, overtaken |-> FALSE,
                  alone |-> /\ \A k \in Handles : ~Same(k, topic, operation)
                            /\ timer[Label(topic, operation)] = NoTime]
          ELSE IF Same(g, topic, operation)
            THEN [span[g] EXCEPT !.alone = FALSE, !.overtaken = TRUE]
          ELSE span[g]]
    /\ IF enabled
         THEN ConsoleTime(Label(topic, operation)) /\ MarkStart(Label(topic, operation))
         ELSE UNCHANGED <<timer, mark>>
    /\ ended' = NoEnd
    /\ UNCHANGED <<enabled, performance, unended>>

\* What ends with the span: the timer and the measure.
Report(h) ==
    /\ ConsoleTimeEnd(LabelOf(h))
    /\ unended' = unended \ {LabelOf(h)}
    /\ ended' = [span |-> span[h], printed |-> timer[LabelOf(h)],
                 measured |-> mark[LabelOf(h)]]

Unreported(h) ==
    /\ unended' = unended \union {LabelOf(h)}
    /\ ended' = NoEnd
    /\ UNCHANGED timer

Close(h) ==
    /\ Open(h)
    /\ span' = [span EXCEPT ![h] = NoSpan]
    /\ UNCHANGED <<enabled, performance, mark, clock>>

EndSpan(h) ==
    /\ Close(h)
    /\ IF enabled THEN Report(h) ELSE Unreported(h)

\* end_span_with_error ends the span as end_span does, under an end mark of
\* another name.
EndSpanOnConsole(h) ==
    /\ Close(h)
    /\ ended' = NoEnd
    /\ UNCHANGED <<timer, unended>>
EndSpanWithError(h) ==
    /\ Close(h)
    /\ IF enabled THEN Report(h) ELSE Unreported(h)

\* The application lets go of a span it has not ended.
Lose(h) ==
    /\ Close(h)
    /\ Unreported(h)

SetEnabled(b) ==
    /\ enabled' = b
    /\ ended' = NoEnd
    /\ UNCHANGED <<performance, span, timer, mark, clock, unended>>

(***************************************************************************)
(* The specification                                                       *)
(***************************************************************************)
\* Telemetry::new and Telemetry::disabled.
TelemetryInit ==
    /\ enabled \in BOOLEAN
    /\ performance \in BOOLEAN
    /\ span = [h \in Handles |-> NoSpan]
    /\ timer = [l \in Labels |-> NoTime]
    /\ mark = [l \in Labels |-> NoTime]
    /\ clock = 0
    /\ ended = NoEnd
    /\ unended = {}

TelemetryNext ==
    \/ \E h \in Handles :
          \/ \E t \in Topics, o \in Operations : StartSpan(h, t, o)
          \/ EndSpan(h) \/ EndSpanWithError(h) \/ Lose(h)
    \/ \E b \in BOOLEAN : SetEnabled(b)

TelemetrySpec == TelemetryInit /\ [][TelemetryNext]_telemetryVars

(***************************************************************************)
(* Properties                                                              *)
(***************************************************************************)
\* The types of the page's tables and of the spans.
Span == [topic : Topics, operation : Operations, began : 1..clock,
         marked : BOOLEAN, alone : BOOLEAN, overtaken : BOOLEAN]

TelemetryTypeOK ==
    /\ enabled \in BOOLEAN /\ performance \in BOOLEAN
    /\ clock \in Nat
    /\ timer \in [Labels -> 0..clock]
    /\ mark \in [Labels -> 0..clock]
    /\ unended \subseteq Labels
    /\ span \in [Handles -> Span \union {NoSpan}]

\* A span started while telemetry was enabled is never measured from before
\* its own start, and from its own start exactly unless another span of the
\* same topic and operation began while it was open: not from the start of an
\* earlier call, not from that of another operation on the topic
\* (telemetry.rs: measures are named `{topic} {operation}`).
MeasuredFromOwnStart ==
    ended.span.marked /\ performance =>
        /\ ended.measured >= ended.span.began
        /\ ~ended.span.overtaken => ended.measured = ended.span.began

\* The time the console prints for a span is the span's own, provided that no
\* other of its topic and operation was open while it was, and that none
\* before it was lost or ended while telemetry was disabled.
TimedFromOwnStart ==
    ended.span.marked /\ ended.span.alone => ended.printed = ended.span.began

\* However spans end, with an error or without, no console timer is left
\* running: one that runs belongs to a span still open, or to one that was
\* lost or ended while telemetry was disabled.
NoLeakedTimer ==
    \A l \in Labels : timer[l] # NoTime =>
        \/ l \in unended
        \/ \E h \in Handles : Open(h) /\ LabelOf(h) = l

=============================================================================
