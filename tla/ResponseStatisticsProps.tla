----------------------- MODULE ResponseStatisticsProps ----------------------
(***************************************************************************)
(* What must be true of the figures of the admin page (module              *)
(* ResponseStatistics).                                                    *)
(***************************************************************************)
EXTENDS ResponseStatistics

ThePlatform == Platforms[view.platform]

\* Every variable has its type, and rows have a primary key.
TypeOK ==
    /\ calendar \in Calendars
    /\ today \in StartDay .. LastDay
    /\ IsFiniteSet(rows)
    /\ \A r \in rows : /\ r.phone \in BOOLEAN
                       /\ r.answer \in IF r.phone THEN Answers ELSE Probes
                       /\ r.day \in StartDay .. today
                       /\ \A s \in rows : r.id = s.id => r = s
    /\ probes \subseteq {r \in rows : ~ r.phone}
    /\ view # NoView => /\ view.platform \in DOMAIN Platforms
                        /\ view.month \in Months
    /\ figures \in Seq(Seq(Nat)) /\ Len(figures) <= Len(Order)
    /\ \A i \in DOMAIN figures :
          Len(figures[i]) \in CASE Order[i][2] = "count" -> {1}
                                [] Order[i][2] = "avg" -> {0, 2}
                                [] OTHER -> {0, 1}
    /\ quiet \in BOOLEAN

----------------------------------------------------------------------------
(* What the figures mean, by counting rows instead of sorting them.        *)

Parts == {"available", "not_available"}

\* The answers to be shown: those the platform's phones gave in the month.
Shown(part) ==
    {r \in rows : /\ r.answer.platform = ThePlatform
                  /\ r.phone
                  /\ InMonth(r.day, view.month)
                  /\ part # "all" => r.answer.available = (part = "available")}

\* The last day of the month is outside of the range of the page's queries, and
\* a row of a probe cannot be told from a phone's: what the page shows is not to
\* be relied on when the platform has such rows in the month.
LastDayIsBlank ==
    \A r \in rows : (r.answer.platform = ThePlatform /\ InMonth(r.day, view.month))
                        => InMonth(r.day + 1, view.month)
NoProbeRows ==
    \A r \in rows : (r.answer.platform = ThePlatform /\ InMonth(r.day, view.month))
                        => r.phone

Number(part)    == Cardinality(Shown(part))
Faster(part, t) == {r \in Shown(part) : r.answer.time < t}
Upto(part, t)   == {r \in Shown(part) : r.answer.time <= t}

\* How many of a part are among the fastest: up to 95 of 100 answers of all.
Taken(part) ==
    CHOOSE n \in 0 .. Number(part) :
        /\ 100 * n <= 95 * Number("all")
        /\ n = Number(part) \/ 95 * Number("all") < 100 * (n + 1)

\* While nothing is written, the page shows of each platform how many answers
\* of yes and of no its phones gave in the month, and of either the average, the
\* least and the greatest time of the fastest ones, up to 95 percent of all, in a
\* month of any length: provided that the platform has no answers of the last
\* day, which the code leaves out, and no rows of probes, which it counts.
QuietFigures ==
    (view # NoView /\ Complete /\ quiet /\ LastDayIsBlank /\ NoProbeRows) =>
        /\ Figure(<<"all", "count">>) = <<Number("all")>>
        /\ \A part \in Parts :
              LET n == Taken(part)
              IN  /\ Figure(<<part, "count">>) = <<Number(part)>>
                  /\ n = 0 => \A what \in {"avg", "min", "max"} :
                                  Figure(<<part, what>>) = <<>>
                  /\ n > 0 =>
                       \E least, greatest \in Times(Shown(part)) :
                           LET before == Faster(part, greatest)
                               number == Cardinality(before)
                           IN  /\ Faster(part, least) = {}
                               /\ number < n
                               /\ n <= Cardinality(Upto(part, greatest))
                               /\ Figure(<<part, "min">>) = <<least>>
                               /\ Figure(<<part, "max">>) = <<greatest>>
                               /\ Figure(<<part, "avg">>) =
                                    <<Sum(before) + (n - number) * greatest, n>>

----------------------------------------------------------------------------
(* What the figures show when answers come in between two queries, of a    *)
(* platform whose rows nobody deletes.                                     *)

\* The total is never more than the answers of yes and of no: no answer is in
\* the total and in neither part.
TotalAtMostParts ==
    (view # NoView /\ Complete /\ ThePlatform # "gcm") =>
        Figure(<<"all", "count">>)[1] <=
            Figure(<<"available", "count">>)[1]
                + Figure(<<"not_available", "count">>)[1]

\* Where an average is shown there is a least time too, and it is no greater.
MinAtMostAverage ==
    (view # NoView /\ Complete /\ ThePlatform # "gcm") =>
        \A part \in Parts :
            LET avg == Figure(<<part, "avg">>)
                min == Figure(<<part, "min">>)
            IN  avg # <<>> => min # <<>> /\ min[1] * avg[2] <= avg[1]

=============================================================================
