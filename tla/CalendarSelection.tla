-------------------------- MODULE CalendarSelection --------------------------
(***************************************************************************)
(* The selected dates of a calendar field, src/model/ordinary_form.cpp:    *)
(* a list of spans that every operation edits according to the property    *)
(* SelectionMode, and that a change of that property converts.             *)
(***************************************************************************)
EXTENDS Integers, FiniteSets, SequencesExt

CONSTANTS
    Days,       \* calendar days, consecutive integers
    Times       \* times of day a date may carry

ASSUME DaysAssumption ==
    /\ Days \subseteq Int
    /\ \A a, b \in Days : a..b \subseteq Days

Midnight == CHOOSE t \in Times : TRUE

Dates == [day : Days, time : Times]
Modes == {"Single", "Multiple", "Interval"}
NoState == [set |-> FALSE, current |-> {}, spans |-> <<>>]

VARIABLES
    mode,       \* SelectionMode of the control, Single unless set
    calendar       \* CalendarRuntimeState: set is FALSE while the control has none

calendarVars == <<mode, calendar>>

Date(d, t) == [day |-> d, time |-> t]
Span(a, b) == [first |-> a, last |-> b]

Spans == calendar.spans
Covers(s, d) == s.first.day <= d.day /\ d.day <= s.last.day
IsSelected(d) == \E i \in DOMAIN Spans : Covers(Spans[i], d)

SetSpans(s) == calendar' = [calendar EXCEPT !.spans = s] /\ UNCHANGED mode

-----------------------------------------------------------------------------
(* change_calendar_selection_mode.                                         *)

\* The first and last dates of all the spans, of the spans in front where days are equal.
FirstDate(spans) ==
    LET Leads(i, j) == \/ spans[i].first.day < spans[j].first.day
                       \/ spans[i].first.day = spans[j].first.day /\ i <= j
    IN  spans[CHOOSE i \in DOMAIN spans : \A j \in DOMAIN spans : Leads(i, j)].first
LastDate(spans) ==
    LET Trails(i, j) == \/ spans[i].last.day > spans[j].last.day
                        \/ spans[i].last.day = spans[j].last.day /\ i <= j
    IN  spans[CHOOSE i \in DOMAIN spans : \A j \in DOMAIN spans : Trails(i, j)].last

Converted(spans, new) ==
    IF spans = <<>> \/ mode = new \/ new = "Multiple" THEN spans
    ELSE IF new = "Single" THEN <<Span(spans[Len(spans)].last, spans[Len(spans)].last)>>
    ELSE <<Span(FirstDate(spans), Date(LastDate(spans).day, FirstDate(spans).time))>>

\* set_prop_val and reset_prop_val of SelectionMode: a calendar without runtime
\* state has nothing to convert.
SetMode(new) ==
    /\ calendar' = IF calendar.set THEN [calendar EXCEPT !.spans = Converted(Spans, new)] ELSE calendar
    /\ mode' = new

ResetMode == SetMode("Single")

-----------------------------------------------------------------------------
(* Setting up.                                                             *)

CalendarInit == mode \in Modes /\ calendar = NoState

\* set_form drops the runtime state of every control.
SetCalendarForm == mode' \in Modes /\ calendar' = NoState

Fresh(current, d) == [set |-> TRUE, current |-> {current}, spans |-> <<Span(d, d)>>]

InitializeRuntime(d) ==
    LET midnight == Date(d.day, Midnight)
    IN  calendar' = Fresh(midnight, midnight) /\ UNCHANGED mode

\* The current date loses its time; the selected date keeps it.
SetCurrentDate(d) == calendar' = Fresh(Date(d.day, Midnight), d) /\ UNCHANGED mode

ResetCurrentDate == calendar' = [calendar EXCEPT !.current = {}] /\ UNCHANGED mode

-----------------------------------------------------------------------------
(* add_calendar_selected_date.                                             *)

\* In an interval the gap up to the new date is filled, with the date's time.
Extended(spans, d) ==
    LET first == spans[1].first.day
        last == spans[Len(spans)].last.day
    IN  IF d.day < first THEN <<Span(d, Date(first - 1, d.time))>> \o spans
        ELSE IF d.day > last THEN Append(spans, Span(Date(last + 1, d.time), d))
        ELSE spans

Add(d) ==
    /\ calendar.set
    /\ SetSpans(IF mode = "Single" THEN <<Span(d, d)>>
                ELSE IF IsSelected(d) THEN Spans
                ELSE IF mode = "Multiple" \/ Spans = <<>> THEN Append(Spans, Span(d, d))
                ELSE Extended(Spans, d))

-----------------------------------------------------------------------------
(* delete_calendar_selected_date.                                          *)

Found(d) == CHOOSE i \in DOMAIN Spans :
              /\ Covers(Spans[i], d)
              /\ \A j \in 1..(i - 1) : ~Covers(Spans[j], d)

\* Mutant: the end of a cut span carries the time of the deleted date.
DayBeforeOfDate(d, s) == Date(d.day - 1, d.time)

DayBefore(d, s) == Date(d.day - 1, s.first.time)
DayAfter(d, s) == Date(d.day + 1, s.first.time)

\* Mutant: an interval is only cut where the day is, later spans stay.
CutHere(i, d) ==
    LET s == Spans[i]
    IN  IF d.day = s.first.day THEN RemoveAt(Spans, i)
        ELSE [Spans EXCEPT ![i].last = DayBefore(d, s)]

\* An interval ends before the deleted day.
CutInterval(i, d) ==
    LET s == Spans[i]
    IN  IF d.day = s.first.day THEN SubSeq(Spans, 1, i - 1)
        ELSE Append(SubSeq(Spans, 1, i - 1), Span(s.first, DayBefore(d, s)))

\* Otherwise one day is taken out of its span, which may leave two.
CutDay(i, d) ==
    LET s == Spans[i]
    IN  CASE s.first.day = s.last.day -> RemoveAt(Spans, i)
          [] d.day = s.first.day /\ s.first.day # s.last.day ->
               [Spans EXCEPT ![i].first = DayAfter(d, s)]
          [] d.day = s.last.day /\ s.first.day # s.last.day ->
               [Spans EXCEPT ![i].last = DayBefore(d, s)]
          [] OTHER ->
               SubSeq(Spans, 1, i - 1)
               \o <<Span(s.first, DayBefore(d, s)), Span(DayAfter(d, s), s.last)>>
               \o SubSeq(Spans, i + 1, Len(Spans))

Delete(d) ==
    /\ calendar.set
    /\ SetSpans(IF ~IsSelected(d) THEN Spans
                ELSE IF mode = "Interval" THEN CutInterval(Found(d), d)
                ELSE CutDay(Found(d), d))

Clear == calendar.set /\ SetSpans(<<>>)

CalendarNext ==
    \/ SetCalendarForm \/ ResetCurrentDate \/ ResetMode \/ Clear
    \/ \E m \in Modes : SetMode(m)
    \/ \E d \in Dates :
         InitializeRuntime(d) \/ SetCurrentDate(d) \/ Add(d) \/ Delete(d)

CalendarSpec == CalendarInit /\ [][CalendarNext]_calendarVars

-----------------------------------------------------------------------------
(* calendar_selected_date_count and calendar_selected_date_at.             *)

SpanLength(s) == s.last.day - s.first.day + 1

\* The days of the first n spans.
CountTo[n \in 0..Len(Spans)] == IF n = 0 THEN 0 ELSE CountTo[n - 1] + SpanLength(Spans[n])
Count == CountTo[Len(Spans)]

\* The index runs through the spans in the order of the list.
DateAt(index) ==
    {Date(Spans[i].first.day + index - CountTo[i - 1], Spans[i].first.time) :
       i \in {j \in DOMAIN Spans : CountTo[j - 1] <= index /\ index < CountTo[j]}}

-----------------------------------------------------------------------------
(* Properties.                                                             *)

SelectedDays == {d \in Days : IsSelected(Date(d, Midnight))}

\* Reading the collection by index gives every selected day exactly once (no span
\* is empty or reaches into another, whatever was added, deleted and converted),
\* with the one time that both ends of its span carry; and the spans of an
\* interval follow each other in order and without a gap.
IndexedOnce ==
    /\ Count = Cardinality(SelectedDays)
    /\ {date.day : date \in UNION {DateAt(i) : i \in 0..(Count - 1)}} = SelectedDays
    /\ DateAt(Count) = {}
    /\ \A i \in DOMAIN Spans : Spans[i].first.time = Spans[i].last.time
    /\ mode = "Interval" =>
         \A i \in 2..Len(Spans) : Spans[i].first.day = Spans[i - 1].last.day + 1

Abstract == INSTANCE SelectedDays WITH selected <- SelectedDays

\* The spans implement a set of days under the rules of the three modes.
ImplementsSelectedDays == Abstract!Spec

=============================================================================
