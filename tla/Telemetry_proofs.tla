-------------------------- MODULE Telemetry_proofs --------------------------
(***************************************************************************)
(* What a span is said to have lasted, for any number of spans, topics and *)
(* starts.                                                                 *)
(*                                                                         *)
(* The measures follow from what holds of the spans still open: the latest *)
(* mark of a span's label is its own until it is overtaken, and a span     *)
(* that is alone is the only one that could end its timer.                 *)
(***************************************************************************)
EXTENDS Telemetry, TLAPS

MarksAreOwn ==
    \A h \in Handles : Open(h) /\ span[h].marked /\ performance =>
        /\ mark[LabelOf(h)] >= span[h].began
        /\ ~span[h].overtaken => mark[LabelOf(h)] = span[h].began

TimersAreOwn ==
    \A h \in Handles : Open(h) /\ span[h].marked /\ span[h].alone =>
        timer[LabelOf(h)] = span[h].began

AloneMeansAlone ==
    \A h, g \in Handles :
        Open(h) /\ span[h].alone /\ Open(g) /\ LabelOf(g) = LabelOf(h) => g = h

SpansInv == TelemetryTypeOK /\ MarksAreOwn /\ TimersAreOwn /\ AloneMeansAlone

\* The labels tell topics and operations apart (start_span of telemetry.rs).
LEMMA LabelsDiffer ==
    ASSUME NEW t, NEW o, NEW u, NEW p
    PROVE  Label(t, o) = Label(u, p) <=> t = u /\ o = p
BY DEF Label

\* A span's label names its topic and its operation.
LEMMA SpanHasLabel ==
    ASSUME TelemetryTypeOK, NEW h \in Handles, Open(h)
    PROVE  span[h] \in Span /\ LabelOf(h) \in Labels
BY DEF TelemetryTypeOK, Open, LabelOf, Labels, Span

\* No span is open at first.
LEMMA InitSpans == TelemetryInit => SpansInv
BY TelemetryAssumption
DEF TelemetryInit, SpansInv, TelemetryTypeOK, MarksAreOwn, TimersAreOwn,
    AloneMeansAlone, Open, NoTime

\* One span starts.
LEMMA StartKeepsSpans ==
    ASSUME SpansInv, NEW h \in Handles, NEW t \in Topics, NEW o \in Operations,
           StartSpan(h, t, o)
    PROVE  SpansInv'
<1> DEFINE l == Label(t, o)
           mine == [topic |-> t, operation |-> o, began |-> clock + 1,
                    marked |-> enabled, overtaken |-> FALSE,
                    alone |-> /\ \A k \in Handles : ~Same(k, t, o)
                              /\ timer[l] = NoTime]
<1>1. TelemetryTypeOK /\ MarksAreOwn /\ TimersAreOwn /\ AloneMeansAlone
  BY DEF SpansInv
<1>2. clock' = clock + 1 /\ clock \in Nat /\ ~Open(h)
  BY <1>1 DEF StartSpan, TelemetryTypeOK
<1>3. l \in Labels
  BY DEF Labels
<1>4. span'[h] = mine
  BY DEF StartSpan
<1>5. \A g \in Handles \ {h} :
        span'[g] = IF Same(g, t, o)
                     THEN [span[g] EXCEPT !.alone = FALSE, !.overtaken = TRUE]
                     ELSE span[g]
  BY DEF StartSpan
<1>6. mine \in Span'
  <2>1. mine.alone \in BOOLEAN /\ enabled \in BOOLEAN
    BY <1>1, Zenon DEF TelemetryTypeOK
  <2> HIDE DEF l
  <2>2. clock + 1 \in 1..(clock + 1)
    BY <1>2
  <2> QED  BY <2>1, <2>2, <1>2 DEF Span
<1>7. \A g \in Handles \ {h} :
        Open(g) =>
          /\ span[g] \in Span /\ span'[g] \in Span'
          /\ span'[g].topic = span[g].topic /\ span'[g].operation = span[g].operation
          /\ span'[g].began = span[g].began /\ span'[g].marked = span[g].marked
          /\ Same(g, t, o) => ~span'[g].alone /\ span'[g].overtaken
          /\ ~Same(g, t, o) => span'[g] = span[g]
  <2> SUFFICES ASSUME NEW g \in Handles \ {h}, Open(g)
               PROVE  /\ span[g] \in Span /\ span'[g] \in Span'
                      /\ span'[g].topic = span[g].topic
                      /\ span'[g].operation = span[g].operation
                      /\ span'[g].began = span[g].began
                      /\ span'[g].marked = span[g].marked
                      /\ Same(g, t, o) => ~span'[g].alone /\ span'[g].overtaken
                      /\ ~Same(g, t, o) => span'[g] = span[g]
    OBVIOUS
  <2> HIDE DEF l, mine
  <2>1. span[g] \in Span /\ 1..clock \subseteq 1..clock'
    BY <1>1, <1>2, SpanHasLabel
  <2>2. CASE Same(g, t, o)
    <3>1. span'[g] = [span[g] EXCEPT !.alone = FALSE, !.overtaken = TRUE]
      BY <1>5, <2>2
    <3> QED  BY <2>1, <2>2, <3>1 DEF Span
  <2>3. CASE ~Same(g, t, o)
    <3>1. span'[g] = span[g]
      BY <1>5, <2>3
    <3> QED  BY <2>1, <2>3, <3>1 DEF Span
  <2> QED  BY <2>2, <2>3
<1>8. \A g \in Handles \ {h} : ~Open(g) => span'[g] = NoSpan
  BY <1>5 DEF Open, Same
<1>9. \A g \in Handles \ {h} : Open(g)' <=> Open(g)
  BY <1>2, <1>7, <1>8 DEF Open, Span, NoSpan, NoTime
<1>10. \A g \in Handles \ {h} :
        Open(g) => LabelOf(g)' = LabelOf(g) /\ (LabelOf(g) = l <=> Same(g, t, o))
  BY <1>7, LabelsDiffer DEF LabelOf, Same
<1>11. LabelOf(h)' = l /\ Open(h)'
  BY <1>2, <1>4 DEF LabelOf, Open, NoSpan, NoTime
<1>12. /\ timer' \in [Labels -> 0..clock'] /\ mark' \in [Labels -> 0..clock']
       /\ \A k \in Labels \ {l} : timer'[k] = timer[k] /\ mark'[k] = mark[k]
       /\ mark'[l] = IF enabled /\ performance THEN clock + 1 ELSE mark[l]
       /\ timer'[l] = IF enabled /\ timer[l] = NoTime THEN clock + 1 ELSE timer[l]
  <2> HIDE DEF l
  <2>1. IF enabled THEN ConsoleTime(l) /\ MarkStart(l) ELSE UNCHANGED <<timer, mark>>
    BY DEF StartSpan, l
  <2>2. timer \in [Labels -> 0..clock] /\ mark \in [Labels -> 0..clock]
    BY <1>1 DEF TelemetryTypeOK
  <2> QED  BY <2>1, <2>2, <1>2, <1>3 DEF ConsoleTime, MarkStart, NoTime
<1>13. TelemetryTypeOK'
  <2>1. span' \in [Handles -> (Span \union {NoSpan})']
    <3>1. span' = [g \in Handles |-> span'[g]]
      BY DEF StartSpan
    <3>2. \A g \in Handles : span'[g] \in (Span \union {NoSpan})'
      BY <1>4, <1>6, <1>7, <1>8 DEF NoSpan
    <3> QED  BY <3>1, <3>2
  <2>2. unended' = unended /\ performance' = performance /\ enabled' = enabled
    BY DEF StartSpan
  <2>3. Labels' = Labels
    OBVIOUS
  <2> QED  BY <2>1, <2>2, <1>1, <1>2, <1>12 DEF TelemetryTypeOK
<1>14. MarksAreOwn'
  <2> SUFFICES ASSUME NEW g \in Handles,
                      Open(g)', span'[g].marked, performance
               PROVE  /\ mark'[LabelOf(g)'] >= span'[g].began
                      /\ ~span'[g].overtaken => mark'[LabelOf(g)'] = span'[g].began
    BY DEF MarksAreOwn, StartSpan
  <2> HIDE DEF l
  <2>1. CASE g = h
    <3>1. enabled /\ span'[h].began = clock + 1
      BY <2>1, <1>4
    <3> QED  BY <2>1, <3>1, <1>11, <1>12, <1>2
  <2>2. CASE g # h /\ Same(g, t, o)
    <3>1. /\ span'[g].overtaken /\ LabelOf(g)' = l
          /\ mark[l] >= span[g].began /\ span'[g].began = span[g].began
      BY <2>2, <1>1, <1>7, <1>9, <1>10 DEF MarksAreOwn
    <3>2. span[g].began \in 1..clock /\ mark[l] \in 0..clock
      BY <2>2, <1>1, <1>3, <1>7, <1>9 DEF Span, TelemetryTypeOK
    <3> QED  BY <3>1, <3>2, <1>2, <1>12
  <2>3. CASE g # h /\ ~Same(g, t, o)
    <3>1. /\ span'[g] = span[g] /\ Open(g) /\ LabelOf(g)' = LabelOf(g)
          /\ LabelOf(g) \in Labels \ {l}
      BY <2>3, <1>1, <1>7, <1>9, <1>10, SpanHasLabel
    <3> QED  BY <3>1, <1>1, <1>12 DEF MarksAreOwn
  <2> QED  BY <2>1, <2>2, <2>3
<1>15. TimersAreOwn'
  <2> SUFFICES ASSUME NEW g \in Handles,
                      Open(g)', span'[g].marked, span'[g].alone
               PROVE  timer'[LabelOf(g)'] = span'[g].began
    BY DEF TimersAreOwn
  <2>1. CASE g = h
    <3>1. enabled /\ timer[l] = NoTime /\ span'[h].began = clock + 1
      BY <2>1, <1>4
    <3> HIDE DEF l
    <3> QED  BY <2>1, <3>1, <1>11, <1>12
  <2> HIDE DEF l
  <2>2. CASE g # h
    <3>1. ~Same(g, t, o) /\ span'[g] = span[g] /\ Open(g) /\ LabelOf(g)' = LabelOf(g)
      BY <2>2, <1>7, <1>9, <1>10
    <3>2. LabelOf(g) \in Labels \ {l}
      BY <2>2, <3>1, <1>1, <1>10, SpanHasLabel
    <3> QED  BY <3>1, <3>2, <1>1, <1>12 DEF TimersAreOwn
  <2> QED  BY <2>1, <2>2
<1>16. AloneMeansAlone'
  <2> SUFFICES ASSUME NEW g \in Handles, NEW k \in Handles,
                      Open(g)', span'[g].alone, Open(k)', LabelOf(k)' = LabelOf(g)'
               PROVE  k = g
    BY DEF AloneMeansAlone
  <2>1. CASE g = h
    <3>1. \A j \in Handles : ~Same(j, t, o)
      BY <2>1, <1>4
    <3> HIDE DEF l
    <3> QED  BY <2>1, <3>1, <1>9, <1>10, <1>11
  <2> HIDE DEF l
  <2>2. CASE g # h
    <3>1. ~Same(g, t, o) /\ span'[g] = span[g] /\ Open(g) /\ LabelOf(g)' = LabelOf(g)
      BY <2>2, <1>7, <1>9, <1>10
    <3>2. k # h
      BY <2>2, <3>1, <1>10, <1>11
    <3> QED  BY <3>1, <3>2, <1>1, <1>9, <1>10 DEF AloneMeansAlone
  <2> QED  BY <2>1, <2>2
<1> QED  BY <1>13, <1>14, <1>15, <1>16 DEF SpansInv

\* One span is ended, or lost: its timer may end, nothing else of the others'.
LEMMA CloseKeepsSpans ==
    ASSUME SpansInv, NEW h \in Handles, Close(h), Report(h) \/ Unreported(h)
    PROVE  SpansInv'
<1>1. TelemetryTypeOK /\ MarksAreOwn /\ TimersAreOwn /\ AloneMeansAlone
  BY DEF SpansInv
<1>2. /\ Open(h) /\ span' = [span EXCEPT ![h] = NoSpan]
      /\ UNCHANGED <<enabled, performance, mark, clock>>
  BY DEF Close
<1>3. LabelOf(h) \in Labels /\ span[h] \in Span
  BY <1>1, <1>2, SpanHasLabel
<1>4. /\ timer' \in [Labels -> 0..clock]
      /\ \A k \in Labels \ {LabelOf(h)} : timer'[k] = timer[k]
      /\ unended' \subseteq Labels
  BY <1>1, <1>3 DEF Report, Unreported, ConsoleTimeEnd, NoTime, TelemetryTypeOK
<1>5. ~Open(h)' /\ span'[h] = NoSpan
  BY <1>1, <1>2 DEF Open, TelemetryTypeOK
<1>6. \A g \in Handles \ {h} :
        span'[g] = span[g] /\ (Open(g)' <=> Open(g)) /\ LabelOf(g)' = LabelOf(g)
  BY <1>1, <1>2 DEF Open, LabelOf, TelemetryTypeOK
<1>7. TelemetryTypeOK'
  <2>1. span' \in [Handles -> (Span \union {NoSpan})']
    BY <1>1, <1>2 DEF TelemetryTypeOK, Span
  <2> QED  BY <2>1, <1>1, <1>2, <1>4 DEF TelemetryTypeOK
<1>8. MarksAreOwn'
  BY <1>1, <1>2, <1>5, <1>6 DEF MarksAreOwn
<1>9. TimersAreOwn'
  <2> SUFFICES ASSUME NEW g \in Handles,
                      Open(g)', span'[g].marked, span'[g].alone
               PROVE  timer'[LabelOf(g)'] = span'[g].began
    BY DEF TimersAreOwn
  <2>1. g # h /\ Open(g) /\ span'[g] = span[g] /\ LabelOf(g)' = LabelOf(g)
    BY <1>5, <1>6
  <2>2. LabelOf(g) \in Labels \ {LabelOf(h)}
    BY <2>1, <1>1, <1>2, SpanHasLabel DEF AloneMeansAlone
  <2> QED  BY <2>1, <2>2, <1>1, <1>4 DEF TimersAreOwn
<1>10. AloneMeansAlone'
  BY <1>1, <1>5, <1>6 DEF AloneMeansAlone
<1> QED  BY <1>7, <1>8, <1>9, <1>10 DEF SpansInv

\* Nothing else touches spans, marks or timers.
LEMMA OtherKeepsSpans ==
    ASSUME SpansInv, enabled' \in BOOLEAN,
           UNCHANGED <<performance, span, timer, mark, clock, unended>>
    PROVE  SpansInv'
BY DEF SpansInv, TelemetryTypeOK, MarksAreOwn, TimersAreOwn, AloneMeansAlone,
       Open, LabelOf, Span

\* Every step keeps what is open on the console.
LEMMA NextKeepsSpans == SpansInv /\ [TelemetryNext]_telemetryVars => SpansInv'
<1> SUFFICES ASSUME SpansInv, [TelemetryNext]_telemetryVars
             PROVE  SpansInv'
  OBVIOUS
<1>1. ASSUME NEW h \in Handles, NEW t \in Topics, NEW o \in Operations,
             StartSpan(h, t, o)
      PROVE  SpansInv'
  BY <1>1, StartKeepsSpans
<1>2. ASSUME NEW h \in Handles, EndSpan(h) \/ EndSpanWithError(h) \/ Lose(h)
      PROVE  SpansInv'
  BY <1>2, CloseKeepsSpans DEF EndSpan, EndSpanWithError, Lose
<1>3. ASSUME NEW b \in BOOLEAN, SetEnabled(b)
      PROVE  SpansInv'
  BY <1>3, OtherKeepsSpans DEF SetEnabled
<1>4. CASE UNCHANGED telemetryVars
  <2>1. enabled \in BOOLEAN
    BY DEF SpansInv, TelemetryTypeOK
  <2> QED  BY <1>4, <2>1, OtherKeepsSpans DEF telemetryVars
<1> QED  BY <1>1, <1>2, <1>3, <1>4 DEF TelemetryNext

\* The inductive invariant of the spans of telemetry.rs.
THEOREM SpansInvariant == TelemetrySpec => []SpansInv
BY InitSpans, NextKeepsSpans, PTL DEF TelemetrySpec

(***************************************************************************)
(* The measures                                                            *)
(***************************************************************************)
Measures == MeasuredFromOwnStart /\ TimedFromOwnStart

\* A step that ends no span leaves nothing to check.
LEMMA NoEndIsFine == ended = NoEnd => Measures
BY DEF NoEnd, NoSpan, Measures, MeasuredFromOwnStart, TimedFromOwnStart

\* What end_span reports of an open span.
LEMMA ReportMeasures ==
    ASSUME SpansInv, NEW h \in Handles, Close(h), Report(h)
    PROVE  Measures'
<1>1. /\ ended' = [span |-> span[h], printed |-> timer[LabelOf(h)],
                   measured |-> mark[LabelOf(h)]]
      /\ performance' = performance /\ Open(h)
  BY DEF Close, Report
<1> QED
  BY <1>1 DEF SpansInv, MarksAreOwn, TimersAreOwn, Measures, MeasuredFromOwnStart,
              TimedFromOwnStart

\* Every span is measured from its own start.
LEMMA NextMeasures == SpansInv /\ Measures /\ [TelemetryNext]_telemetryVars => Measures'
<1> SUFFICES ASSUME SpansInv, Measures, [TelemetryNext]_telemetryVars
             PROVE  Measures'
  OBVIOUS
<1>1. (ended = NoEnd)' => Measures'
  BY DEF NoEnd, NoSpan, Measures, MeasuredFromOwnStart, TimedFromOwnStart
<1>2. ASSUME NEW h \in Handles, EndSpan(h) \/ EndSpanWithError(h) \/ Lose(h)
      PROVE  Measures'
  <2>1. Close(h) /\ (Report(h) \/ Unreported(h))
    BY <1>2 DEF EndSpan, EndSpanWithError, Lose
  <2> QED  BY <2>1, <1>1, ReportMeasures DEF Unreported, NoEnd
<1>3. ASSUME NEW h \in Handles, NEW t \in Topics, NEW o \in Operations,
             StartSpan(h, t, o)
      PROVE  Measures'
  BY <1>1, <1>3 DEF StartSpan, NoEnd
<1>4. ASSUME NEW b \in BOOLEAN, SetEnabled(b)
      PROVE  Measures'
  BY <1>1, <1>4 DEF SetEnabled, NoEnd
<1>5. CASE UNCHANGED telemetryVars
  BY <1>5 DEF telemetryVars, Measures, MeasuredFromOwnStart, TimedFromOwnStart
<1> QED  BY <1>2, <1>3, <1>4, <1>5 DEF TelemetryNext

\* A span is measured from its own start unless it was overtaken, and never
\* from before it (end_span of telemetry.rs), however many there are.
THEOREM Measured == TelemetrySpec => []MeasuredFromOwnStart
<1>1. TelemetryInit => Measures
  BY NoEndIsFine DEF TelemetryInit
<1>2. Measures => MeasuredFromOwnStart
  BY DEF Measures
<1> QED  BY <1>1, <1>2, NextMeasures, SpansInvariant, PTL DEF TelemetrySpec

\* The console prints a span's own time if it was alone (end_span).
THEOREM Timed == TelemetrySpec => []TimedFromOwnStart
<1>1. TelemetryInit => Measures
  BY NoEndIsFine DEF TelemetryInit
<1>2. Measures => TimedFromOwnStart
  BY DEF Measures
<1> QED  BY <1>1, <1>2, NextMeasures, SpansInvariant, PTL DEF TelemetrySpec

(***************************************************************************)
(* Timers left running                                                     *)
(***************************************************************************)
LEMMA NextLeaksNoTimer ==
    SpansInv /\ NoLeakedTimer /\ [TelemetryNext]_telemetryVars => NoLeakedTimer'
<1> SUFFICES ASSUME SpansInv, NoLeakedTimer, [TelemetryNext]_telemetryVars,
                    NEW l \in Labels, timer'[l] # NoTime
             PROVE  l \in unended' \/ \E g \in Handles : Open(g)' /\ LabelOf(g)' = l
  BY DEF NoLeakedTimer
<1>1. TelemetryTypeOK
  BY DEF SpansInv
<1>2. timer[l] # NoTime => l \in unended \/ \E g \in Handles : Open(g) /\ LabelOf(g) = l
  BY DEF NoLeakedTimer
<1>3. ASSUME NEW h \in Handles, NEW t \in Topics, NEW o \in Operations,
             StartSpan(h, t, o)
      PROVE  l \in unended' \/ \E g \in Handles : Open(g)' /\ LabelOf(g)' = l
  <2>1. unended' = unended /\ ~Open(h) /\ clock \in Nat
    BY <1>1, <1>3 DEF StartSpan, TelemetryTypeOK
  <2>2. span'[h].topic = t /\ span'[h].operation = o /\ span'[h].began = clock + 1
    BY <1>3 DEF StartSpan
  <2>3. Open(h)' /\ LabelOf(h)' = Label(t, o)
    BY <2>1, <2>2 DEF Open, LabelOf, NoSpan, NoTime
  <2>4. ASSUME NEW g \in Handles, Open(g)
        PROVE  Open(g)' /\ LabelOf(g)' = LabelOf(g)
    <3>1. g # h /\ span[g] \in Span
      BY <2>1, <2>4, <1>1, SpanHasLabel
    <3>2. /\ span'[g].topic = span[g].topic /\ span'[g].operation = span[g].operation
          /\ span'[g].began = span[g].began
      BY <1>3, <3>1 DEF StartSpan, Span
    <3>3. span[g].began # 0
      BY <3>1, <2>1 DEF Span
    <3> QED  BY <3>2, <3>3 DEF Open, LabelOf, NoSpan, NoTime
  <2>5. CASE l = Label(t, o)
    BY <2>3, <2>5
  <2>6. CASE l # Label(t, o)
    <3>1. Label(t, o) \in Labels
      BY DEF Labels
    <3>2. timer'[l] = timer[l]
      BY <1>1, <1>3, <2>6, <3>1 DEF StartSpan, ConsoleTime, TelemetryTypeOK
    <3> QED  BY <3>2, <2>1, <2>4, <1>2
  <2> QED  BY <2>5, <2>6
<1>4. ASSUME NEW h \in Handles, EndSpan(h) \/ EndSpanWithError(h) \/ Lose(h)
      PROVE  l \in unended' \/ \E g \in Handles : Open(g)' /\ LabelOf(g)' = l
  <2>1. Close(h) /\ (Report(h) \/ Unreported(h))
    BY <1>4 DEF EndSpan, EndSpanWithError, Lose
  <2>2. LabelOf(h) \in Labels
    BY <2>1, <1>1, SpanHasLabel DEF Close
  <2>3. ASSUME NEW g \in Handles, Open(g), g # h
        PROVE  Open(g)' /\ LabelOf(g)' = LabelOf(g)
    BY <2>1, <2>3, <1>1 DEF Close, Open, LabelOf, TelemetryTypeOK
  <2>4. CASE l = LabelOf(h)
    BY <2>1, <2>2, <2>4, <1>1 DEF Report, Unreported, ConsoleTimeEnd, TelemetryTypeOK
  <2>5. CASE l # LabelOf(h)
    <3>1. timer'[l] = timer[l] /\ (l \in unended => l \in unended')
      BY <2>1, <2>5, <1>1 DEF Report, Unreported, ConsoleTimeEnd, TelemetryTypeOK
    <3> QED  BY <3>1, <2>3, <2>5, <1>2
  <2> QED  BY <2>4, <2>5
<1>5. ASSUME UNCHANGED <<span, timer, unended>>
      PROVE  l \in unended' \/ \E g \in Handles : Open(g)' /\ LabelOf(g)' = l
  BY <1>2, <1>5 DEF Open, LabelOf
<1> QED
  BY <1>3, <1>4, <1>5 DEF TelemetryNext, SetEnabled, telemetryVars

\* No console timer outlives its spans, unless one was lost or ended while
\* telemetry was disabled (end_span, end_span_with_error).
THEOREM NoTimerLeaks == TelemetrySpec => []NoLeakedTimer
<1>1. TelemetryInit => NoLeakedTimer
  BY DEF TelemetryInit, NoLeakedTimer
<1> QED  BY <1>1, NextLeaksNoTimer, SpansInvariant, PTL DEF TelemetrySpec

=============================================================================
