------------------------------ MODULE Analytics ------------------------------
(***************************************************************************)
(* The usage analytics recorder and its summary handler                    *)
(* (internal/analytics/recorder.go).  Record holds the lock for all of its *)
(* counters; the summary reads events, tags and total in three locked      *)
(* sections, with records in between.  An absent key counts zero; keys are *)
(* numbers, in the order of their names.                                   *)
(***************************************************************************)
EXTENDS Naturals, FiniteSets, Functions

CONSTANTS Event, Tag,           \* sets of numbers
          maxAnalyticsKeys,
          Top,                  \* values of the parameter top; 0: not given
          MaxEvents             \* bound of the recorded events

ASSUME AnalyticsAssumption == IsFiniteSet(Event) /\ maxAnalyticsKeys \in Nat

VARIABLES eventCount, tagCount, events, summary

analyticsVars == <<eventCount, tagCount, events, summary>>

Empty(K) == [k \in K |-> 0]
NoSummary == [step |-> "none", byEvent |-> Empty(Event), byTag |-> Empty(Tag), total |-> 0]

\* events is the recorder's total.
AnalyticsInit ==
  /\ eventCount = Empty(Event)
  /\ tagCount = Empty(Tag)
  /\ events = 0
  /\ summary = NoSummary

Keys(map) == {k \in DOMAIN map : map[k] > 0}

\* Variant: the last place stays free.
Counted_off_by_one(map, k) ==
  IF k \in Keys(map) \/ Cardinality(Keys(map)) + 1 < maxAnalyticsKeys
  THEN [map EXCEPT ![k] = @ + 1] ELSE map

\* One more of key k, if it has a counter or there is room for one.
Counted(map, k) ==
  IF k \in Keys(map) \/ Cardinality(Keys(map)) < maxAnalyticsKeys
  THEN [map EXCEPT ![k] = @ + 1] ELSE map

\* The tags come in the order of Go's iteration over a map, any: those without a
\* counter share the room there is, whichever come first.
CountedAll(map, tags) ==
  LET new == tags \ Keys(map)
      room == {S \in SUBSET new :
                 \/ S = new /\ Cardinality(Keys(map)) + Cardinality(S) <= maxAnalyticsKeys
                 \/ Cardinality(Keys(map)) + Cardinality(S) = maxAnalyticsKeys}
      counted(S) == (tags \intersect Keys(map)) \union S
  IN  {[k \in DOMAIN map |-> IF k \in counted(S) THEN map[k] + 1 ELSE map[k]] : S \in room}

Record(e, tags) ==
  /\ events < MaxEvents
  /\ eventCount' = Counted(eventCount, e)
  /\ events' = events + 1
  /\ tagCount' \in CountedAll(tagCount, tags)
  /\ UNCHANGED summary

-----------------------------------------------------------------------------
(* SummaryHandler *)

Snapshot ==
  /\ summary.step \in {"none", "done"}
  /\ summary' = [NoSummary EXCEPT !.step = "events", !.byEvent = eventCount]
  /\ UNCHANGED <<eventCount, tagCount, events>>

SnapshotTags ==
  /\ summary.step = "events"
  /\ summary' = [summary EXCEPT !.step = "tags", !.byTag = tagCount]
  /\ UNCHANGED <<eventCount, tagCount, events>>

\* The first n rows by name, or all of them if n is 0.
FirstRows(map, n) ==
  [k \in DOMAIN map |->
     IF n = 0 \/ Cardinality({j \in Keys(map) : j <= k}) <= n THEN map[k] ELSE 0]

\* The rows are cut to top, and the total is read when they are written.
Total(top) ==
  /\ summary.step = "tags"
  /\ summary' = [step |-> "done", byEvent |-> FirstRows(summary.byEvent, top),
                 byTag |-> FirstRows(summary.byTag, top), total |-> events]
  /\ UNCHANGED <<eventCount, tagCount, events>>

\* top is not a number.
BadRequest ==
  /\ summary.step = "tags"
  /\ summary' = NoSummary
  /\ UNCHANGED <<eventCount, tagCount, events>>

AnalyticsNext ==
  \/ \E e \in Event, tags \in SUBSET Tag : Record(e, tags)
  \/ Snapshot \/ SnapshotTags \/ BadRequest
  \/ \E top \in Top : Total(top)

AnalyticsSpec == AnalyticsInit /\ [][AnalyticsNext]_analyticsVars

-----------------------------------------------------------------------------
(* Properties *)

\* The events a summary lists never add up to more than the total beside them,
\* though the two are read apart, and none of its rows counts more events than
\* the total; while the map has room the recorder has a counter for every event
\* (recorder.go:29-42, 80-115).
SummaryAddsUp ==
  /\ summary.step = "done" =>
       /\ SumFunction(summary.byEvent) <= summary.total
       /\ \A t \in Tag : summary.byTag[t] <= summary.total
  /\ SumFunction(eventCount) = events
     \/ Cardinality(Keys(eventCount)) = maxAnalyticsKeys
=============================================================================
