------------------------- MODULE ResponseStatistics -------------------------
(***************************************************************************)
(* The statistics of the admin page (ResponseLogAdmin.view_metrics and     *)
(* get_metrics), and those who write the rows they are made of: the phones *)
(* whose answers log_to_db stores, and the exporters, whose probe inserts  *)
(* a random row and deletes it again.                                      *)
(*                                                                         *)
(* get_metrics makes nine queries for a platform, outside of a             *)
(* transaction: each is a step, and rows come and go between them.  Days   *)
(* are numbered, and a calendar is the sequence of the first days of some  *)
(* months that follow each other.  A row is dated later than the midnight  *)
(* its day begins with.                                                    *)
(***************************************************************************)
EXTENDS Integers, Sequences, FiniteSets

CONSTANTS
    Calendars,      \* first days of successive months, from any month on
    Days,           \* bound of the model: days from the second to last day of
                    \* the first month on
    Answers,        \* [platform, time, available] that log_to_db is called with
    Probes,         \* those of the exporter's probe
    Slowest,        \* bound of the model: the greatest time, in whole units
    Ids             \* bound of the model: the primary keys, free again after a
                    \* deletion

\* Months have 28 to 31 days.
ASSUME CalendarsAssumption ==
    \A c \in Calendars :
        /\ c \in Seq(Int) /\ Len(c) >= 2
        /\ \A m, n \in DOMAIN c : m < n => c[m] + 28 <= c[n]
        /\ \A m \in DOMAIN c : m < Len(c) => c[m + 1] <= c[m] + 31

\* The probe writes rows of GCM_PLATFORM.
ASSUME AnswersAssumption ==
    /\ \A a \in Answers \cup Probes : /\ a.time \in 0 .. Slowest
                                     /\ a.available \in BOOLEAN
    /\ \A a \in Probes : a.platform = "gcm"

ASSUME BoundsAssumption == Days \in Nat /\ Slowest \in Nat

\* In the order the page shows them in.
Platforms == <<"apns", "gcm", "android">>

VARIABLES
    calendar,
    today,
    rows,           \* the ResponseLog table
    probes,         \* the rows of the probes in progress
    view,           \* the get_metrics call of the page: platform and range
    figures,        \* the answers to its queries so far
    quiet           \* history: nothing was written since its first query

vars == <<calendar, today, rows, probes, view, figures, quiet>>

----------------------------------------------------------------------------
(* The calendar (datetime.date).                                           *)

Months   == 1 .. Len(calendar) - 1
First(m) == calendar[m]

StartDay == First(2) - 2
LastDay  == StartDay + Days

InMonth(day, m)  == /\ First(m) <= day
                    /\ \A n \in DOMAIN calendar : n > m => day < First(n)
MonthOf(day)     == CHOOSE m \in DOMAIN calendar : InMonth(day, m)
DayOfMonth(day)  == day - First(MonthOf(day)) + 1

\* Mutant: three days on from the 28th.
last_day_of_month_short(start) ==
    LET next_month == start + 27 + 3
    IN  next_month - DayOfMonth(next_month)

\* any_day.replace(day=28) + timedelta(days=4), of the first of a month
last_day_of_month(start) ==
    LET next_month == start + 27 + 4
    IN  next_month - DayOfMonth(next_month)

----------------------------------------------------------------------------
(* The queries of get_metrics.                                             *)

\* Mutant: the average is asked for last.
OrderAverageLast ==
         << <<"all", "count">>,
            <<"available", "count">>, <<"available", "min">>,
            <<"available", "max">>, <<"available", "avg">>,
            <<"not_available", "count">>, <<"not_available", "min">>,
            <<"not_available", "max">>, <<"not_available", "avg">> >>

Order == << <<"all", "count">>,
            <<"available", "count">>, <<"available", "avg">>,
            <<"available", "min">>, <<"available", "max">>,
            <<"not_available", "count">>, <<"not_available", "avg">>,
            <<"not_available", "min">>, <<"not_available", "max">> >>

Figure(q) == figures[CHOOSE i \in DOMAIN Order : Order[i] = q]

\* date__range: BETWEEN start_date AND end_date, as times of day zero.
InRange(r) == view.start_date <= r.day /\ r.day < view.end_date

OfPart(r, part) == \/ part = "all"
                   \/ part = "available" /\ r.answer.available
                   \/ part = "not_available" /\ ~ r.answer.available

Matches(part) == {r \in rows : /\ r.answer.platform = Platforms[view.platform]
                               /\ InRange(r)
                               /\ OfPart(r, part)}

\* int(total_count * 0.95)
Percentile == (95 * figures[1][1]) \div 100

\* The number of rows of [:percentile].
Size(part) == IF Percentile < Cardinality(Matches(part)) THEN Percentile
              ELSE Cardinality(Matches(part))

\* Mutant: the slowest answers.
WindowsSlowest(part) ==
    {W \in SUBSET Matches(part) :
        /\ Cardinality(W) = Size(part)
        /\ \A r \in W, s \in Matches(part) \ W : s.answer.time <= r.answer.time}

\* .order_by('roundtrip_time')[:percentile], in any order of equal times
Windows(part) ==
    {W \in SUBSET Matches(part) :
        /\ Cardinality(W) = Size(part)
        /\ \A r \in W, s \in Matches(part) \ W : r.answer.time <= s.answer.time}

\* The sum of times is counted: it is the number of the units in them.
Units(S) == {u \in S \X (1 .. Slowest) : u[2] <= u[1].answer.time}
Sum(S)   == Cardinality(Units(S))
Times(S) == {r.answer.time : r \in S}

\* What Avg, Min or Max answer: <<>> is None, an average a sum and a number.
Aggregate(W, what) ==
    IF W = {} THEN {<<>>}
    ELSE CASE what = "avg" -> {<<Sum(W), Cardinality(W)>>}
           [] what = "min" -> {<<t>> : t \in {u \in Times(W) :
                                               \A s \in Times(W) : u <= s}}
           [] what = "max" -> {<<t>> : t \in {u \in Times(W) :
                                               \A s \in Times(W) : s <= u}}

\* Mutant: the parts are cut before they are counted.
RepliesCut(part, what) ==
    IF part = "all" THEN {<<Cardinality(Matches(part))>>}
    ELSE UNION {IF what = "count" THEN {<<Cardinality(W)>>}
                ELSE Aggregate(W, what) : W \in Windows(part)}

Replies(part, what) ==
    IF what = "count" THEN {<<Cardinality(Matches(part))>>}
    ELSE UNION {Aggregate(W, what) : W \in Windows(part)}

----------------------------------------------------------------------------
NoView == [platform |-> 0, month |-> 0, start_date |-> 0, end_date |-> 0]

Init ==
    /\ calendar \in Calendars
    /\ today = StartDay
    /\ rows = {}
    /\ probes = {}
    /\ view = NoView
    /\ figures = <<>>
    /\ quiet = TRUE

Free(id) == \A r \in rows : r.id # id

\* A row, and whether it is a phone's or a probe's.
Row(id, a, phone) == [id |-> id, answer |-> a, day |-> today, phone |-> phone]

Write(table) == rows' = table /\ quiet' = FALSE

\* A thread of CallResponseView stores an answer.
log_to_db(id, a) ==
    /\ Free(id)
    /\ Write(rows \cup {Row(id, a, TRUE)})
    /\ UNCHANGED <<calendar, today, probes, view, figures>>

\* write_read_orm
ProbeCreate(id, a) ==
    /\ Free(id)
    /\ Write(rows \cup {Row(id, a, FALSE)})
    /\ probes' = probes \cup {Row(id, a, FALSE)}
    /\ UNCHANGED <<calendar, today, view, figures>>

\* Mutant: the row is gone, and is to be deleted again.
ProbeDeleteAgain(probe) ==
    /\ Write({r \in rows : r.id # probe.id})
    /\ UNCHANGED <<calendar, today, probes, view, figures>>

\* By primary key.
ProbeDelete(probe) ==
    /\ Write({r \in rows : r.id # probe.id})
    /\ probes' = probes \ {probe}
    /\ UNCHANGED <<calendar, today, view, figures>>

\* The delete raises, or the container is stopped: the row stays.
ProbeLeft(probe) ==
    /\ probes' = probes \ {probe}
    /\ UNCHANGED <<calendar, today, rows, view, figures, quiet>>

Midnight ==
    /\ today < LastDay
    /\ today' = today + 1
    /\ UNCHANGED <<calendar, rows, probes, view, figures, quiet>>

\* get_metrics of the p-th platform
Begin(p, m) ==
    /\ view' = [platform |-> p, month |-> m, start_date |-> First(m),
                end_date |-> last_day_of_month(First(m))]
    /\ figures' = <<>>
    /\ quiet' = TRUE
    /\ UNCHANGED <<calendar, today, rows, probes>>

\* view_metrics, of the month asked for or of this one
View == \E m \in Months : view = NoView /\ Begin(1, m)

Complete == Len(figures) = Len(Order)

Query ==
    /\ view # NoView
    /\ ~ Complete
    /\ LET q == Order[Len(figures) + 1]
       IN  \E reply \in Replies(q[1], q[2]) : figures' = Append(figures, reply)
    /\ UNCHANGED <<calendar, today, rows, probes, view, quiet>>

NextPlatform ==
    /\ Complete
    /\ view.platform < Len(Platforms)
    /\ Begin(view.platform + 1, view.month)

Render ==
    /\ Complete
    /\ view.platform = Len(Platforms)
    /\ view' = NoView
    /\ figures' = <<>>
    /\ quiet' = TRUE
    /\ UNCHANGED <<calendar, today, rows, probes>>

Next ==
    \/ \E id \in Ids, a \in Answers : log_to_db(id, a)
    \/ \E id \in Ids, a \in Probes : ProbeCreate(id, a)
    \/ \E probe \in probes : ProbeDelete(probe) \/ ProbeLeft(probe)
    \/ Midnight
    \/ View \/ Query \/ NextPlatform \/ Render

Spec == Init /\ [][Next]_vars

=============================================================================
