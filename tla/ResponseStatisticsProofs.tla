---------------------- MODULE ResponseStatisticsProofs ----------------------
(***************************************************************************)
(* Proofs about the statistics of the admin page, for tables of any size,  *)
(* any answers and any calendar.                                           *)
(***************************************************************************)
EXTENDS ResponseStatisticsProps, FiniteSetTheorems, TLAPS

----------------------------------------------------------------------------
(* Lemmas about sums of times, which are cardinalities.                    *)

\* A set of numbers has a least one.
LEMMA LeastNumber ==
    ASSUME NEW T \in SUBSET Nat, T # {}
    PROVE  \E x \in T : \A y \in T : x <= y
<1> DEFINE F == {0 .. k : k \in T}
           R == StrictSubsetOrdering(Nat)
<1>1. F \subseteq FiniteSubsetsOf(Nat) /\ F # {}
    <2>1. ASSUME NEW k \in T PROVE 0 .. k \in FiniteSubsetsOf(Nat)
        <3>1. IsFiniteSet(0 .. k)
            BY FS_Interval
        <3> QED BY <3>1 DEF FiniteSubsetsOf
    <2> QED BY <2>1
<1>2. \E X \in F : \A Y \in F : ~ (<<Y, X>> \in R)
    <2> HIDE DEF F, R
    <2>1. IsWellFoundedOn(R, FiniteSubsetsOf(Nat))
        BY FS_StrictSubsetOrderingWellFounded DEF R
    <2> QED BY <1>1, <2>1, WFMin
<1>3. PICK x \in T : \A y \in T : ~ (<<0 .. y, 0 .. x>> \in R)
    BY <1>2
<1>4. ASSUME NEW y \in T PROVE x <= y
    <2>1. ~ (0 .. y \subseteq 0 .. x /\ 0 .. y # 0 .. x)
        <3>1. <<0 .. y, 0 .. x>> \in (SUBSET Nat) \X (SUBSET Nat)
            OBVIOUS
        <3> QED BY <1>3, <3>1, Zenon DEF StrictSubsetOrdering
    <2>2. y < x => 0 .. y \subseteq 0 .. x /\ x \in 0 .. x /\ x \notin 0 .. y
        OBVIOUS
    <2> QED BY <2>1, <2>2
<1> QED BY <1>4

Timed(S) == IsFiniteSet(S) /\ \A r \in S : r.answer.time \in 0 .. Slowest

LEMMA UnitsFacts ==
    ASSUME NEW S, Timed(S)
    PROVE  IsFiniteSet(Units(S)) /\ Sum(S) \in Nat /\ Cardinality(S) \in Nat
<1>1. IsFiniteSet(1 .. Slowest)
    BY BoundsAssumption, FS_Interval
<1>2. IsFiniteSet(S \X (1 .. Slowest))
    BY <1>1, FS_Product DEF Timed
<1>3. IsFiniteSet(Units(S))
    BY <1>2, FS_Subset DEF Units
<1> QED BY <1>3, FS_CardinalityType DEF Sum, Timed

\* The sum of times none of which is less than t.
LEMMA SumAtLeast ==
    ASSUME NEW S, Timed(S), NEW t \in 0 .. Slowest,
           \A r \in S : t <= r.answer.time
    PROVE  t * Cardinality(S) <= Sum(S)
<1>1. IsFiniteSet(1 .. t) /\ Cardinality(1 .. t) = t
    BY BoundsAssumption, FS_Interval
<1>2. Cardinality(S \X (1 .. t)) = Cardinality(S) * t
    BY <1>1, FS_Product DEF Timed
<1>3. S \X (1 .. t) \subseteq Units(S)
    BY BoundsAssumption DEF Units, Timed
<1>4. Cardinality(S \X (1 .. t)) <= Sum(S)
    BY <1>3, UnitsFacts, FS_Subset DEF Sum
<1> QED BY <1>2, <1>4, UnitsFacts, BoundsAssumption

\* The sum of times that are all equal.
LEMMA SumOfEqual ==
    ASSUME NEW S, Timed(S), NEW t \in 0 .. Slowest,
           \A r \in S : r.answer.time = t
    PROVE  Sum(S) = Cardinality(S) * t
<1>1. IsFiniteSet(1 .. t) /\ Cardinality(1 .. t) = t
    BY BoundsAssumption, FS_Interval
<1>2. Units(S) = S \X (1 .. t)
    BY BoundsAssumption DEF Units
<1> QED BY <1>1, <1>2, FS_Product DEF Sum, Timed

\* The sum of what two sets have together.
LEMMA SumOfUnion ==
    ASSUME NEW S, NEW T, Timed(S), Timed(T), S \cap T = {}
    PROVE  Sum(S \cup T) = Sum(S) + Sum(T)
<1>1. Units(S \cup T) = Units(S) \cup Units(T) /\ Units(S) \cap Units(T) = {}
    BY DEF Units
<1>2. Cardinality(Units(S) \cap Units(T)) = 0
    BY <1>1, FS_EmptySet
<1>3. /\ IsFiniteSet(Units(S)) /\ Sum(S) \in Nat
      /\ IsFiniteSet(Units(T)) /\ Sum(T) \in Nat
    BY UnitsFacts
<1>4. Sum(S \cup T) = Sum(S) + Sum(T) - 0
    BY <1>1, <1>2, <1>3, FS_Union DEF Sum
<1> QED BY <1>3, <1>4

----------------------------------------------------------------------------
(* The calendar: the end of a month is found in any month.                 *)

LEMMA LastDayOfMonth ==
    ASSUME calendar \in Calendars, NEW m \in Months
    PROVE  last_day_of_month(First(m)) = First(m + 1) - 1
<1> DEFINE day == First(m) + 27 + 4
<1>1. /\ calendar \in Seq(Int) /\ m \in DOMAIN calendar
      /\ m + 1 \in DOMAIN calendar
    BY CalendarsAssumption DEF Months
<1>2. /\ \A n \in DOMAIN calendar : First(n) \in Int
      /\ First(m + 1) <= First(m) + 31 /\ First(m) + 28 <= First(m + 1)
      /\ \A i, n \in DOMAIN calendar : i < n => First(i) + 28 <= First(n)
    <2>1. \A n \in DOMAIN calendar : calendar[n] \in Int
        BY <1>1
    <2>2. \A i, n \in DOMAIN calendar : i < n => calendar[i] + 28 <= calendar[n]
        BY CalendarsAssumption
    <2>3. calendar[m + 1] <= calendar[m] + 31
        BY <1>1, CalendarsAssumption DEF Months
    <2>4. m < m + 1
        BY <1>1
    <2> QED BY <1>1, <2>1, <2>2, <2>3, <2>4 DEF First
<1>3. DOMAIN calendar \subseteq Int
    BY <1>1
<1>4. InMonth(day, m + 1)
    <2>1. m \in Int /\ First(m) \in Int /\ First(m + 1) \in Int
        BY <1>1, <1>2, <1>3
    <2>2. First(m + 1) <= day
        BY <1>2, <2>1
    <2>3. ASSUME NEW n \in DOMAIN calendar, n > m + 1 PROVE day < First(n)
        <3>1. First(m + 1) + 28 <= First(n) /\ First(n) \in Int
            BY <1>1, <1>2, <1>3, <2>1, <2>3
        <3>2. First(m) + 28 <= First(m + 1)
            BY <1>2
        <3> QED BY <2>1, <3>1, <3>2
    <2> QED BY <2>2, <2>3 DEF InMonth
<1>5. ASSUME NEW n \in DOMAIN calendar, InMonth(day, n) PROVE n = m + 1
    <2>1. day \in Int /\ First(n) \in Int /\ First(m + 1) \in Int
        BY <1>1, <1>2
    <2>2. ~ n > m + 1
        BY <1>1, <1>4, <1>5, <2>1 DEF InMonth
    <2>3. ~ m + 1 > n
        BY <1>1, <1>4, <1>5, <2>1 DEF InMonth
    <2>4. n \in Int /\ m + 1 \in Int
        BY <1>1, <1>3
    <2> QED BY <2>2, <2>3, <2>4
<1>6. MonthOf(day) = m + 1
    BY <1>1, <1>4, <1>5 DEF MonthOf
<1>7. DayOfMonth(day) = day - First(m + 1) + 1
    BY <1>6 DEF DayOfMonth
<1>8. last_day_of_month(First(m)) = day - DayOfMonth(day)
    BY DEF last_day_of_month
<1>9. day \in Int /\ First(m + 1) \in Int
    BY <1>1, <1>2
<1> HIDE DEF day
<1> QED BY <1>7, <1>8, <1>9

\* date__range leaves out the last day of the month.
LEMMA RangeOfMonth ==
    ASSUME calendar \in Calendars, NEW m \in Months, NEW day \in Int
    PROVE  (First(m) <= day /\ day < First(m + 1) - 1)
               <=> (InMonth(day, m) /\ InMonth(day + 1, m))
<1>1. /\ m \in DOMAIN calendar /\ m + 1 \in DOMAIN calendar
      /\ DOMAIN calendar \subseteq Int
      /\ \A n \in DOMAIN calendar : First(n) \in Int
    BY CalendarsAssumption DEF Months, First
<1>2. \A i, n \in DOMAIN calendar : i < n => First(i) + 28 <= First(n)
    BY CalendarsAssumption DEF First
<1>3. \A n \in DOMAIN calendar : n > m => First(m + 1) <= First(n)
    <2>1. \A n \in DOMAIN calendar : n > m => n = m + 1 \/ m + 1 < n
        BY <1>1
    <2>2. \A n \in DOMAIN calendar : m + 1 < n => First(m + 1) + 28 <= First(n)
        BY <1>1, <1>2
    <2> QED BY <1>1, <2>1, <2>2
<1>4. ASSUME First(m) <= day, day < First(m + 1) - 1
      PROVE  InMonth(day, m) /\ InMonth(day + 1, m)
    BY <1>1, <1>3, <1>4 DEF InMonth
<1>5. ASSUME InMonth(day, m), InMonth(day + 1, m)
      PROVE  First(m) <= day /\ day < First(m + 1) - 1
    BY <1>1, <1>5 DEF InMonth
<1> QED BY <1>4, <1>5

----------------------------------------------------------------------------
(* The queries and what they answer.                                       *)

AllParts == {"all", "available", "not_available"}

LEMMA OrderFacts ==
    /\ Len(Order) = 9 /\ DOMAIN Order = 1 .. 9
    /\ Order[1] = <<"all", "count">>
    /\ Order[2] = <<"available", "count">> /\ Order[3] = <<"available", "avg">>
    /\ Order[4] = <<"available", "min">> /\ Order[5] = <<"available", "max">>
    /\ Order[6] = <<"not_available", "count">>
    /\ Order[7] = <<"not_available", "avg">>
    /\ Order[8] = <<"not_available", "min">>
    /\ Order[9] = <<"not_available", "max">>
BY DEF Order

LEMMA NineAreSome == \A s : Len(s) = 9 => s # <<>>
<1>1. Len(<<>>) # 9
    OBVIOUS
<1> QED BY <1>1, Zenon

LEMMA AreNumbers ==
    ASSUME NEW s \in Seq(Nat)
    PROVE  /\ Len(s) = 1 => s[1] \in Nat
           /\ Len(s) = 2 => s[1] \in Nat /\ s[2] \in Nat
    OBVIOUS

LEMMA OrderParts ==
    ASSUME NEW i \in 1 .. 9
    PROVE  /\ Order[i][1] \in AllParts
           /\ Order[i][2] \in {"count", "avg", "min", "max"}
           /\ Order[i][1] = "all" => i = 1
<1>1. i \in {1, 2, 3, 4, 5, 6, 7, 8, 9}
    OBVIOUS
<1> QED BY <1>1, OrderFacts DEF AllParts

LEMMA FigureFacts ==
    /\ Figure(<<"all", "count">>) = figures[1]
    /\ Figure(<<"available", "count">>) = figures[2]
    /\ Figure(<<"available", "avg">>) = figures[3]
    /\ Figure(<<"available", "min">>) = figures[4]
    /\ Figure(<<"available", "max">>) = figures[5]
    /\ Figure(<<"not_available", "count">>) = figures[6]
    /\ Figure(<<"not_available", "avg">>) = figures[7]
    /\ Figure(<<"not_available", "min">>) = figures[8]
    /\ Figure(<<"not_available", "max">>) = figures[9]
<1>1. \A i, j \in 1 .. 9 : Order[i] = Order[j] => i = j
    <2>1. SUFFICES ASSUME NEW i \in 1 .. 9, NEW j \in 1 .. 9, Order[i] = Order[j]
                   PROVE  i = j
        OBVIOUS
    <2>2. /\ i \in {1, 2, 3, 4, 5, 6, 7, 8, 9}
          /\ j \in {1, 2, 3, 4, 5, 6, 7, 8, 9}
        OBVIOUS
    <2> QED BY <2>1, <2>2, OrderFacts
<1>2. ASSUME NEW i \in 1 .. 9 PROVE Figure(Order[i]) = figures[i]
    BY <1>1, OrderFacts DEF Figure
<1>3. /\ Figure(Order[1]) = figures[1] /\ Figure(Order[2]) = figures[2]
      /\ Figure(Order[3]) = figures[3] /\ Figure(Order[4]) = figures[4]
      /\ Figure(Order[5]) = figures[5] /\ Figure(Order[6]) = figures[6]
      /\ Figure(Order[7]) = figures[7] /\ Figure(Order[8]) = figures[8]
      /\ Figure(Order[9]) = figures[9]
    BY <1>2
<1> QED BY <1>3, OrderFacts

LEMMA RowFacts ==
    ASSUME TypeOK
    PROVE  /\ IsFiniteSet(rows)
           /\ \A r \in rows : /\ r.answer.time \in 0 .. Slowest
                              /\ r.answer.available \in BOOLEAN
                              /\ ~ r.phone => r.answer.platform = "gcm"
BY AnswersAssumption DEF TypeOK

LEMMA MatchesFacts ==
    ASSUME TypeOK, NEW part
    PROVE  /\ Matches(part) \subseteq rows /\ Timed(Matches(part))
           /\ Cardinality(Matches(part)) \in Nat
<1>1. Matches(part) \subseteq rows
    BY DEF Matches
<1>2. IsFiniteSet(Matches(part))
    BY <1>1, RowFacts, FS_Subset
<1> QED BY <1>1, <1>2, RowFacts, FS_CardinalityType DEF Timed

\* What the first query has answered.
LEMMA TotalFacts ==
    ASSUME TypeOK, figures # <<>>
    PROVE  /\ figures[1][1] \in Nat /\ figures[1] = <<figures[1][1]>>
           /\ Percentile \in Nat
           /\ 100 * Percentile <= 95 * figures[1][1]
           /\ 95 * figures[1][1] < 100 * (Percentile + 1)
<1>1. 1 \in DOMAIN figures /\ figures[1] \in Seq(Nat) /\ Len(figures[1]) = 1
    <2>1. 1 \in DOMAIN figures
        BY DEF TypeOK
    <2> QED BY <2>1, OrderFacts DEF TypeOK
<1>2. figures[1][1] \in Nat /\ figures[1] = <<figures[1][1]>>
    BY <1>1
<1> DEFINE n == 95 * figures[1][1]
<1>3. n \in Nat
    BY <1>2
<1> HIDE DEF n
<1>4. n \div 100 \in Nat /\ 100 * (n \div 100) <= n /\ n < 100 * (n \div 100 + 1)
    BY <1>3
<1>5. Percentile = n \div 100
    BY DEF Percentile, n
<1> QED BY <1>2, <1>4, <1>5 DEF n

LEMMA WindowFacts ==
    ASSUME TypeOK, figures # <<>>, NEW part, NEW W \in Windows(part)
    PROVE  /\ W \subseteq Matches(part) /\ Timed(W)
           /\ Cardinality(W) = Size(part) /\ Size(part) \in Nat
           /\ Size(part) <= Percentile
           /\ Size(part) <= Cardinality(Matches(part))
           /\ Size(part) = Percentile \/ Size(part) = Cardinality(Matches(part))
           /\ W = {} <=> Size(part) = 0
           /\ \A r \in W, s \in Matches(part) \ W :
                 r.answer.time <= s.answer.time
<1>1. /\ W \subseteq Matches(part) /\ Cardinality(W) = Size(part)
      /\ \A r \in W, s \in Matches(part) \ W : r.answer.time <= s.answer.time
    BY DEF Windows
<1>2. Timed(W)
    BY <1>1, MatchesFacts, FS_Subset DEF Timed
<1>3. /\ Size(part) \in Nat /\ Size(part) <= Percentile
      /\ Size(part) <= Cardinality(Matches(part))
      /\ Size(part) = Percentile \/ Size(part) = Cardinality(Matches(part))
    BY TotalFacts, MatchesFacts DEF Size
<1>4. W = {} <=> Size(part) = 0
    BY <1>1, <1>2, FS_EmptySet DEF Timed
<1> QED BY <1>1, <1>2, <1>3, <1>4

LEMMA AverageFacts ==
    ASSUME NEW W, W # {}, NEW reply \in Aggregate(W, "avg")
    PROVE  reply = <<Sum(W), Cardinality(W)>>
BY DEF Aggregate

LEMMA LeastFacts ==
    ASSUME NEW W, W # {}, NEW reply \in Aggregate(W, "min")
    PROVE  \E r \in W : /\ reply = <<r.answer.time>>
                        /\ \A s \in W : r.answer.time <= s.answer.time
<1>1. PICK t \in Times(W) : reply = <<t>> /\ \A s \in Times(W) : t <= s
    BY DEF Aggregate
<1> QED BY <1>1 DEF Times

LEMMA GreatestFacts ==
    ASSUME NEW W, W # {}, NEW reply \in Aggregate(W, "max")
    PROVE  \E r \in W : /\ reply = <<r.answer.time>>
                        /\ \A s \in W : s.answer.time <= r.answer.time
<1>1. PICK t \in Times(W) : reply = <<t>> /\ \A s \in Times(W) : s <= t
    BY DEF Aggregate
<1> QED BY <1>1 DEF Times

LEMMA Tuples ==
    /\ <<>> \in Seq(Nat) /\ Len(<<>>) = 0
    /\ \A a \in Nat : <<a>> \in Seq(Nat) /\ Len(<<a>>) = 1
    /\ \A a, b \in Nat : <<a, b>> \in Seq(Nat) /\ Len(<<a, b>>) = 2
OBVIOUS

LEMMA ReplyType ==
    ASSUME TypeOK, NEW part, NEW what \in {"count", "avg", "min", "max"},
           what # "count" => figures # <<>>, NEW reply \in Replies(part, what)
    PROVE  /\ reply \in Seq(Nat)
           /\ what = "count" => Len(reply) = 1
           /\ what = "avg" => Len(reply) \in {0, 2}
           /\ what \in {"min", "max"} => Len(reply) \in {0, 1}
<1>1. CASE what = "count"
    <2>1. reply = <<Cardinality(Matches(part))>>
        BY <1>1 DEF Replies
    <2> QED BY <1>1, <2>1, MatchesFacts, Tuples
<1>2. CASE what # "count"
    <2>1. PICK W \in Windows(part) : reply \in Aggregate(W, what)
        BY <1>2 DEF Replies
    <2>2. Timed(W) /\ Sum(W) \in Nat /\ Cardinality(W) \in Nat
        BY <1>2, WindowFacts, UnitsFacts
    <2>3. \A r \in W : r.answer.time \in Nat
        BY <2>2, BoundsAssumption DEF Timed
    <2>4. CASE W = {}
        BY <1>2, <2>1, <2>4, Tuples DEF Aggregate
    <2>5. CASE W # {} /\ what = "avg"
        <3>1. reply = <<Sum(W), Cardinality(W)>>
            BY <2>1, <2>5, AverageFacts
        <3> QED BY <2>2, <2>5, <3>1, Tuples
    <2>6. CASE W # {} /\ what = "min"
        <3>1. \E r \in W : reply = <<r.answer.time>>
            BY <2>1, <2>6, LeastFacts
        <3> QED BY <2>3, <2>6, <3>1, Tuples
    <2>7. CASE W # {} /\ what = "max"
        <3>1. \E r \in W : reply = <<r.answer.time>>
            BY <2>1, <2>7, GreatestFacts
        <3> QED BY <2>3, <2>7, <3>1, Tuples
    <2> QED BY <1>2, <2>4, <2>5, <2>6, <2>7
<1> QED BY <1>1, <1>2

----------------------------------------------------------------------------
(* Types, and the range of the page's query.                               *)

ViewInv ==
    /\ view = NoView => figures = <<>>
    /\ view # NoView => /\ view.platform \in 1 .. 3
                        /\ view.month \in Months
                        /\ view.start_date = First(view.month)
                        /\ view.end_date = First(view.month + 1) - 1

TypeInv == TypeOK /\ ViewInv

\* What TypeOK says of the table.
TableOK ==
    /\ IsFiniteSet(rows)
    /\ \A r \in rows : /\ r.phone \in BOOLEAN
                       /\ r.answer \in IF r.phone THEN Answers ELSE Probes
                       /\ r.day \in StartDay .. today
                       /\ \A s \in rows : r.id = s.id => r = s
    /\ probes \subseteq {r \in rows : ~ r.phone}

\* What TypeOK and ViewInv say of the page.
PageOK ==
    /\ ViewInv
    /\ view # NoView => /\ view.platform \in DOMAIN Platforms
                        /\ view.month \in Months
    /\ figures \in Seq(Seq(Nat)) /\ Len(figures) <= Len(Order)
    /\ \A i \in DOMAIN figures :
          Len(figures[i]) \in CASE Order[i][2] = "count" -> {1}
                                [] Order[i][2] = "avg" -> {0, 2}
                                [] OTHER -> {0, 1}

LEMMA TypeParts ==
    TypeInv <=> /\ calendar \in Calendars /\ today \in StartDay .. LastDay
                /\ TableOK /\ PageOK /\ quiet \in BOOLEAN
BY DEF TypeInv, TypeOK, TableOK, PageOK

LEMMA TypeFromParts ==
    ASSUME calendar' \in Calendars, (today \in StartDay .. LastDay)',
           TableOK', PageOK', quiet' \in BOOLEAN
    PROVE  TypeInv'
BY DEF TypeInv, TypeOK, TableOK, PageOK

LEMMA CalendarFacts ==
    ASSUME calendar \in Calendars
    PROVE  /\ StartDay \in Int /\ LastDay \in Int /\ StartDay <= LastDay
           /\ \A m \in Months : First(m) \in Int /\ First(m + 1) \in Int
           /\ Months \subseteq Nat \ {0}
<1>1. calendar \in Seq(Int) /\ Len(calendar) >= 2
    BY CalendarsAssumption
<1> QED BY <1>1, BoundsAssumption DEF StartDay, LastDay, First, Months

LEMMA TypeInit == Init => TypeInv
<1> SUFFICES ASSUME Init PROVE TypeInv
    OBVIOUS
<1>1. TableOK
    BY FS_EmptySet DEF Init, TableOK
<1>2. PageOK
    BY OrderFacts, Tuples DEF Init, PageOK, ViewInv
<1> QED BY <1>1, <1>2, CalendarFacts, TypeParts DEF Init

\* A row is added under a key that no row has.
LEMMA RowAdded ==
    ASSUME TypeInv, NEW id, NEW phone \in BOOLEAN,
           NEW a \in IF phone THEN Answers ELSE Probes, Free(id),
           rows' = rows \cup {Row(id, a, phone)},
           probes' \subseteq probes \cup {r \in {Row(id, a, phone)} : ~ r.phone},
           UNCHANGED <<calendar, today>>
    PROVE  TableOK'
<1> DEFINE new == Row(id, a, phone)
<1>1. /\ new.id = id /\ new.phone = phone /\ new.answer = a
      /\ new.day = today
    BY DEF Row
<1>2. TableOK /\ today \in StartDay .. today
    BY TypeParts, CalendarFacts
<1>3. StartDay' = StartDay
    BY DEF StartDay, First
<1> HIDE DEF new
<1>4. IsFiniteSet(rows')
    BY <1>2, FS_AddElement DEF TableOK, new
<1>5. \A r \in rows' : r \in rows \/ r = new
    BY DEF new
<1>6. ASSUME NEW r \in rows'
      PROVE  /\ r.phone \in BOOLEAN
             /\ r.answer \in IF r.phone THEN Answers ELSE Probes
             /\ r.day \in StartDay .. today
             /\ \A s \in rows' : r.id = s.id => r = s
    BY <1>1, <1>2, <1>5 DEF TableOK, Free
<1>7. probes' \subseteq {r \in rows' : ~ r.phone}
    BY <1>2 DEF TableOK
<1> QED BY <1>3, <1>4, <1>6, <1>7 DEF TableOK

\* A probe's row is deleted by its primary key, which no other row has.
LEMMA RowDeleted ==
    ASSUME TypeInv, NEW probe \in probes, ProbeDelete(probe)
    PROVE  /\ TableOK'
           /\ rows' = rows \ {probe} /\ probe.answer.platform = "gcm"
<1>1. TableOK
    BY TypeParts
<1>2. probe \in rows /\ ~ probe.phone
    BY <1>1 DEF TableOK
<1>3. rows' = rows \ {probe}
    BY <1>1, <1>2 DEF ProbeDelete, Write, TableOK
<1>4. IsFiniteSet(rows')
    BY <1>1, <1>3, FS_Subset DEF TableOK
<1>5. UNCHANGED <<calendar, today>> /\ probes' = probes \ {probe}
    BY DEF ProbeDelete
<1>6. StartDay' = StartDay
    BY <1>5 DEF StartDay, First
<1>7. probe.answer.platform = "gcm"
    BY <1>2, RowFacts DEF TypeInv
<1> QED BY <1>1, <1>3, <1>4, <1>5, <1>6, <1>7 DEF TableOK

\* The page and its figures stay as they are.
LEMMA PageKept ==
    ASSUME TypeInv, UNCHANGED <<calendar, view, figures>>
    PROVE  PageOK'
<1>1. PageOK
    BY TypeParts
<1> QED BY <1>1 DEF PageOK, ViewInv, Months, First

LEMMA TableKept ==
    ASSUME TypeInv, UNCHANGED <<calendar, rows>>, probes' \subseteq probes,
           today' = today \/ today' = today + 1
    PROVE  TableOK'
<1>1. TableOK /\ today \in Int
    BY TypeParts, CalendarFacts
<1>2. StartDay' = StartDay /\ StartDay \in Int
    BY TypeParts, CalendarFacts DEF StartDay, First
<1> QED BY <1>1, <1>2 DEF TableOK

\* get_metrics begins.
LEMMA PageBegins ==
    ASSUME TypeInv, NEW p \in 1 .. 3, NEW m \in Months, Begin(p, m)
    PROVE  PageOK'
<1>1. /\ view' = [platform |-> p, month |-> m, start_date |-> First(m),
                  end_date |-> First(m + 1) - 1]
      /\ figures' = <<>> /\ calendar' = calendar
    BY LastDayOfMonth, TypeParts DEF Begin
<1>2. ViewInv' /\ view'.platform \in DOMAIN Platforms /\ view'.month \in Months'
    BY <1>1 DEF ViewInv, Months, First, Platforms
<1> QED BY <1>1, <1>2, OrderFacts, Tuples DEF PageOK

\* A query adds a figure.
LEMMA PageQueried ==
    ASSUME TypeInv, Query
    PROVE  PageOK'
<1> DEFINE i == Len(figures) + 1
<1>1. PageOK /\ TypeOK
    BY TypeParts DEF TypeInv
<1>2. Len(figures) \in Nat /\ i \in 1 .. 9 /\ figures \in Seq(Seq(Nat))
    <2>1. Len(figures) # 9 /\ Len(figures) <= 9 /\ figures \in Seq(Seq(Nat))
        BY <1>1, OrderFacts DEF Query, Complete, PageOK
    <2>2. Len(figures) \in Nat
        BY <2>1
    <2>3. \A n \in Nat : n # 9 /\ n <= 9 => n + 1 \in 1 .. 9
        OBVIOUS
    <2>4. i \in 1 .. 9
        BY <2>1, <2>2, <2>3
    <2> QED BY <2>1, <2>2, <2>4
<1> HIDE DEF i
<1>3. PICK reply \in Replies(Order[i][1], Order[i][2]) :
          figures' = Append(figures, reply)
    BY DEF Query, i
<1>4. Order[i][2] # "count" => figures # <<>>
    <2>1. figures = <<>> => i = 1
        BY DEF i
    <2> QED BY <2>1, OrderFacts
<1>5. /\ reply \in Seq(Nat)
      /\ Len(reply) \in CASE Order[i][2] = "count" -> {1}
                          [] Order[i][2] = "avg" -> {0, 2}
                          [] OTHER -> {0, 1}
    BY <1>1, <1>2, <1>4, OrderParts, ReplyType
<1>6. /\ figures' \in Seq(Seq(Nat)) /\ Len(figures') = i
      /\ figures'[i] = reply
      /\ \A k \in 1 .. Len(figures) : figures'[k] = figures[k]
    BY <1>2, <1>3, <1>5 DEF i
<1>7. \A k \in DOMAIN figures' :
          Len(figures'[k]) \in CASE Order[k][2] = "count" -> {1}
                                 [] Order[k][2] = "avg" -> {0, 2}
                                 [] OTHER -> {0, 1}
    <2>1. \A k \in DOMAIN figures' : k = i \/ k \in DOMAIN figures
        BY <1>2, <1>6 DEF i
    <2>2. \A k \in DOMAIN figures :
              Len(figures[k]) \in CASE Order[k][2] = "count" -> {1}
                                    [] Order[k][2] = "avg" -> {0, 2}
                                    [] OTHER -> {0, 1}
        BY <1>1 DEF PageOK
    <2>3. DOMAIN figures = 1 .. Len(figures)
        BY <1>2
    <2> QED BY <1>5, <1>6, <2>1, <2>2, <2>3
<1>8. UNCHANGED <<calendar, view>>
    BY DEF Query
<1>9. ViewInv' /\ Len(figures') <= Len(Order)
    <2>1. view # NoView
        BY DEF Query
    <2>2. Len(figures') <= Len(Order)
        BY <1>2, <1>6, OrderFacts
    <2> QED BY <1>1, <1>8, <2>1, <2>2 DEF ViewInv, PageOK, Months, First
<1> QED BY <1>1, <1>6, <1>7, <1>8, <1>9 DEF PageOK, Months

LEMMA TypeStep == TypeInv /\ [Next]_vars => TypeInv'
<1> SUFFICES ASSUME TypeInv, [Next]_vars PROVE TypeInv'
    OBVIOUS
<1>1. /\ calendar \in Calendars /\ today \in StartDay .. LastDay
      /\ TableOK /\ PageOK /\ quiet \in BOOLEAN
    BY TypeParts
<1>2. ASSUME UNCHANGED <<calendar, today>>
      PROVE  calendar' \in Calendars /\ (today \in StartDay .. LastDay)'
    BY <1>1, <1>2 DEF StartDay, LastDay, First
<1>3. ASSUME NEW id \in Ids, NEW a \in Answers, log_to_db(id, a)
      PROVE  TypeInv'
    <2>1. /\ rows' = rows \cup {Row(id, a, TRUE)} /\ probes' = probes
          /\ Free(id) /\ quiet' = FALSE
          /\ UNCHANGED <<calendar, today, view, figures>>
        BY <1>3 DEF log_to_db, Write
    <2>2. TableOK'
        BY <2>1, RowAdded
    <2> QED BY <1>2, <2>1, <2>2, PageKept, TypeFromParts
<1>4. ASSUME NEW id \in Ids, NEW a \in Probes, ProbeCreate(id, a)
      PROVE  TypeInv'
    <2>1. /\ rows' = rows \cup {Row(id, a, FALSE)}
          /\ probes' = probes \cup {Row(id, a, FALSE)}
          /\ Free(id) /\ quiet' = FALSE
          /\ UNCHANGED <<calendar, today, view, figures>>
        BY <1>4 DEF ProbeCreate, Write
    <2>2. Row(id, a, FALSE).phone = FALSE
        BY DEF Row
    <2>3. TableOK'
        BY <2>1, <2>2, RowAdded
    <2> QED BY <1>2, <2>1, <2>3, PageKept, TypeFromParts
<1>5. ASSUME NEW probe \in probes, ProbeDelete(probe)
      PROVE  TypeInv'
    <2>1. quiet' = FALSE /\ UNCHANGED <<calendar, today, view, figures>>
        BY <1>5 DEF ProbeDelete, Write
    <2> QED BY <1>2, <1>5, <2>1, RowDeleted, PageKept, TypeFromParts
<1>6. ASSUME NEW probe \in probes, ProbeLeft(probe)
      PROVE  TypeInv'
    <2>1. /\ probes' \subseteq probes
          /\ UNCHANGED <<calendar, today, rows, view, figures, quiet>>
        BY <1>6 DEF ProbeLeft
    <2> QED BY <1>1, <1>2, <2>1, TableKept, PageKept, TypeFromParts
<1>7. CASE Midnight
    <2>1. /\ today < LastDay /\ today' = today + 1
          /\ UNCHANGED <<calendar, rows, probes, view, figures, quiet>>
        BY <1>7 DEF Midnight
    <2>2. StartDay' = StartDay /\ LastDay' = LastDay
        BY <2>1 DEF StartDay, LastDay, First
    <2>3. today' \in StartDay' .. LastDay'
        BY <1>1, <2>1, <2>2, CalendarFacts
    <2> QED BY <1>1, <2>1, <2>3, TableKept, PageKept, TypeFromParts
<1>8. ASSUME NEW p \in 1 .. 3, NEW m \in Months, Begin(p, m)
      PROVE  TypeInv'
    <2>1. quiet' = TRUE /\ UNCHANGED <<calendar, today, rows, probes>>
        BY <1>8 DEF Begin
    <2> QED BY <1>2, <1>8, <2>1, TableKept, PageBegins, TypeFromParts
<1>9. CASE View
    BY <1>8, <1>9 DEF View
<1>10. CASE NextPlatform
    <2>1. view # NoView
        <3>1. figures # <<>>
            <4>1. Len(figures) = 9
                BY <1>10, OrderFacts DEF NextPlatform, Complete
            <4> QED BY <4>1, NineAreSome
        <3> QED BY <1>1, <3>1 DEF PageOK, ViewInv
    <2> QED BY <1>1, <1>8, <1>10, <2>1 DEF NextPlatform, PageOK, Platforms
<1>11. CASE Query
    <2>1. UNCHANGED <<calendar, today, rows, probes, quiet>>
        BY <1>11 DEF Query
    <2> QED BY <1>1, <1>2, <1>11, <2>1, TableKept, PageQueried, TypeFromParts
<1>12. CASE Render
    <2>1. /\ view' = NoView /\ figures' = <<>> /\ quiet' = TRUE
          /\ UNCHANGED <<calendar, today, rows, probes>>
        BY <1>12 DEF Render
    <2>2. PageOK'
        BY <2>1, OrderFacts, Tuples DEF PageOK, ViewInv
    <2> QED BY <1>2, <2>1, <2>2, TableKept, TypeFromParts
<1>13. CASE UNCHANGED vars
    BY <1>1, <1>2, <1>13, TableKept, PageKept, TypeFromParts DEF vars
<1> QED
    BY <1>3, <1>4, <1>5, <1>6, <1>7, <1>9, <1>10, <1>11, <1>12, <1>13 DEF Next

\* The variables keep their types and rows their primary keys, whatever is
\* written between the queries of the page.
THEOREM TypeCorrect == Spec => []TypeOK
<1>1. Spec => []TypeInv
    BY TypeInit, TypeStep, PTL DEF Spec
<1> QED BY <1>1, PTL DEF TypeInv

----------------------------------------------------------------------------
(* What a step does to the page.                                           *)

\* A row comes, or one of Google Cloud Messaging goes, or neither.
TableStep ==
    /\ UNCHANGED <<calendar, view, figures>>
    /\ \A r \in rows : r \in rows' \/ r.answer.platform = "gcm"
    /\ UNCHANGED <<rows, quiet>> \/ quiet' = FALSE

LEMMA StepKinds ==
    ASSUME TypeInv, [Next]_vars
    PROVE  TableStep \/ Query \/ figures' = <<>>
<1>1. ASSUME NEW id \in Ids, NEW a \in Answers, log_to_db(id, a)
      PROVE  TableStep
    BY <1>1 DEF log_to_db, Write, TableStep
<1>2. ASSUME NEW id \in Ids, NEW a \in Probes, ProbeCreate(id, a)
      PROVE  TableStep
    BY <1>2 DEF ProbeCreate, Write, TableStep
<1>3. ASSUME NEW probe \in probes, ProbeDelete(probe) PROVE TableStep
    <2>1. quiet' = FALSE /\ UNCHANGED <<calendar, view, figures>>
        BY <1>3 DEF ProbeDelete, Write
    <2> QED BY <1>3, <2>1, RowDeleted DEF TableStep
<1>4. ASSUME NEW probe \in probes, ProbeLeft(probe) PROVE TableStep
    BY <1>4 DEF ProbeLeft, TableStep
<1>5. CASE Midnight \/ UNCHANGED vars
    BY <1>5 DEF Midnight, vars, TableStep
<1>6. CASE View \/ NextPlatform \/ Render
    BY <1>6 DEF View, NextPlatform, Render, Begin
<1> QED BY <1>1, <1>2, <1>3, <1>4, <1>5, <1>6 DEF Next

\* What a query adds.
Asked == Len(figures) + 1

LEMMA QueryFacts ==
    ASSUME TypeInv, Query
    PROVE  /\ Asked \in 1 .. 9 /\ Len(figures') = Asked
           /\ figures'[Asked] \in Replies(Order[Asked][1], Order[Asked][2])
           /\ \A k \in 1 .. 9 : k < Asked => figures'[k] = figures[k]
           /\ Asked > 1 => figures # <<>>
           /\ view # NoView /\ UNCHANGED <<calendar, rows, view, quiet>>
<1>1. PageOK
    BY TypeParts
<1>2. PICK reply \in Replies(Order[Asked][1], Order[Asked][2]) :
          figures' = Append(figures, reply)
    BY DEF Query, Asked
<1>3. Len(figures) \in Nat /\ Len(figures) <= 9 /\ Len(figures) # 9
    BY <1>1, OrderFacts DEF PageOK, Query, Complete
<1>4. figures \in Seq(Seq(Nat))
    BY <1>1 DEF PageOK
<1>5. /\ Len(figures') = Asked /\ figures'[Asked] = reply
      /\ \A k \in 1 .. Len(figures) : figures'[k] = figures[k]
    BY <1>2, <1>4 DEF Asked
<1>6. \A k \in 1 .. 9 : k < Asked => k \in 1 .. Len(figures)
    BY <1>3 DEF Asked
<1>7. Asked \in 1 .. 9 /\ (Asked > 1 => figures # <<>>)
    <2>1. \A n \in Nat : n <= 9 /\ n # 9 => n + 1 \in 1 .. 9
        OBVIOUS
    <2>2. Asked > 1 => figures # <<>>
        BY <1>3 DEF Asked
    <2> QED BY <1>3, <2>1, <2>2 DEF Asked
<1>8. view # NoView /\ UNCHANGED <<calendar, rows, view, quiet>>
    BY DEF Query
<1> QED BY <1>2, <1>5, <1>6, <1>7, <1>8

\* Rows of the other platforms stay in the range that is asked for.
LEMMA MatchesStay ==
    ASSUME TypeInv, TypeInv', TableStep, ThePlatform # "gcm", NEW part
    PROVE  /\ Matches(part) \subseteq Matches(part)'
           /\ Cardinality(Matches(part)) <= Cardinality(Matches(part)')
           /\ Cardinality(Matches(part)) \in Nat
           /\ Cardinality(Matches(part)') \in Nat
<1>1. \A r \in rows : InRange(r)' = InRange(r)
    BY DEF TableStep, InRange
<1>2. Matches(part) \subseteq Matches(part)'
    BY <1>1 DEF TableStep, Matches, InRange, OfPart, ThePlatform
<1>3. IsFiniteSet(rows') /\ Matches(part)' \subseteq rows'
    BY DEF TypeInv, TypeOK, Matches
<1>4. IsFiniteSet(Matches(part)')
    BY <1>3, FS_Subset
<1>5. Cardinality(Matches(part)) \in Nat /\ Cardinality(Matches(part)') \in Nat
    BY <1>4, MatchesFacts, FS_CardinalityType DEF TypeInv
<1> QED BY <1>2, <1>4, <1>5, FS_Subset

----------------------------------------------------------------------------
(* The total and its parts.                                                *)

\* Every row of the range is in one of the parts.
LEMMA PartsOfAll ==
    ASSUME TypeInv
    PROVE  Cardinality(Matches("all")) = Cardinality(Matches("available"))
                                            + Cardinality(Matches("not_available"))
<1>1. /\ Matches("all") = Matches("available") \cup Matches("not_available")
      /\ Matches("available") \cap Matches("not_available") = {}
    BY RowFacts DEF Matches, OfPart, TypeInv
<1>2. /\ Timed(Matches("available")) /\ Timed(Matches("not_available"))
      /\ Cardinality(Matches("available")) \in Nat
      /\ Cardinality(Matches("not_available")) \in Nat
    BY MatchesFacts DEF TypeInv
<1>3. /\ IsFiniteSet(Matches("available"))
      /\ IsFiniteSet(Matches("not_available")) /\ Cardinality({}) = 0
    BY <1>2, FS_EmptySet DEF Timed
<1>4. Cardinality(Matches("all")) =
          Cardinality(Matches("available"))
              + Cardinality(Matches("not_available")) - Cardinality({})
    BY <1>1, <1>3, FS_Union
<1> QED BY <1>2, <1>3, <1>4

\* What the total has counted is in the part that is counted already, or in the
\* one still to be counted, whose rows are there.
CountInv ==
    (view # NoView /\ ThePlatform # "gcm") =>
        /\ Len(figures) = 1 =>
              figures[1][1] <= Cardinality(Matches("all"))
        /\ Len(figures) \in 2 .. 5 =>
              figures[1][1] <= figures[2][1] + Cardinality(Matches("not_available"))
        /\ Len(figures) >= 6 => figures[1][1] <= figures[2][1] + figures[6][1]

LEMMA CountFigures ==
    ASSUME TypeInv
    PROVE  /\ Len(figures) \in Nat
           /\ Len(figures) >= 1 => figures[1][1] \in Nat
           /\ Len(figures) >= 2 => figures[2][1] \in Nat
           /\ Len(figures) >= 6 => figures[6][1] \in Nat
<1>1. figures \in Seq(Seq(Nat))
    BY DEF TypeInv, TypeOK
<1>2. Len(figures) \in Nat
    BY <1>1
<1>3. ASSUME NEW i \in {1, 2, 6}, Len(figures) >= i
      PROVE  figures[i][1] \in Nat
    <2>1. i \in DOMAIN figures /\ figures[i] \in Seq(Nat)
        BY <1>1, <1>2, <1>3
    <2>2. Order[i][2] = "count"
        BY OrderFacts
    <2>3. Len(figures[i]) = 1
        BY <2>1, <2>2 DEF TypeInv, TypeOK
    <2> QED BY <2>1, <2>3, AreNumbers
<1> QED BY <1>2, <1>3

LEMMA CountStep == TypeInv /\ TypeInv' /\ CountInv /\ [Next]_vars => CountInv'
<1> SUFFICES ASSUME TypeInv, TypeInv', CountInv, [Next]_vars PROVE CountInv'
    OBVIOUS
<1> DEFINE all  == Cardinality(Matches("all"))
           yes  == Cardinality(Matches("available"))
           no   == Cardinality(Matches("not_available"))
<1>1. CASE TableStep
    <2>1. UNCHANGED <<view, figures>> /\ ThePlatform' = ThePlatform
        BY <1>1 DEF TableStep, ThePlatform
    <2>2. ThePlatform # "gcm" =>
              /\ all \in Nat /\ all' \in Nat /\ all <= all'
              /\ no \in Nat /\ no' \in Nat /\ no <= no'
        BY <1>1, MatchesStay
    <2> HIDE DEF all, no
    <2> QED BY <2>1, <2>2, CountFigures DEF CountInv, all, no
<1>2. CASE Query
    <2>1. /\ all \in Nat /\ yes \in Nat /\ no \in Nat /\ all = yes + no
          /\ all' = all /\ no' = no /\ ThePlatform' = ThePlatform
        BY <1>2, PartsOfAll, MatchesFacts, QueryFacts
        DEF TypeInv, Matches, InRange, OfPart, ThePlatform
    <2>2. /\ Asked = 1 => figures'[1] = <<all>>
          /\ Asked = 2 => figures'[2] = <<yes>>
          /\ Asked = 6 => figures'[6] = <<no>>
        BY <1>2, QueryFacts, OrderFacts DEF Replies
    <2>3. /\ Asked > 1 => figures'[1] = figures[1]
          /\ Asked > 2 => figures'[2] = figures[2]
          /\ Asked > 6 => figures'[6] = figures[6]
        BY <1>2, QueryFacts
    <2>4. /\ Asked \in 1 .. 9 /\ Len(figures') = Asked
          /\ Len(figures) = Asked - 1 /\ Len(figures) \in Nat
          /\ view' = view
        BY <1>2, QueryFacts, CountFigures DEF Asked
    <2> HIDE DEF all, yes, no
    <2>5. CASE Asked = 1
        BY <2>1, <2>2, <2>4, <2>5 DEF CountInv, all
    <2>6. CASE Asked = 2
        BY <2>1, <2>2, <2>3, <2>4, <2>6 DEF CountInv, all, no
    <2>7. CASE Asked \in 3 .. 5
        BY <2>1, <2>3, <2>4, <2>7 DEF CountInv, no
    <2>8. CASE Asked = 6
        BY <2>1, <2>2, <2>3, <2>4, <2>8 DEF CountInv, no
    <2>9. CASE Asked \in 7 .. 9
        BY <2>1, <2>3, <2>4, <2>9 DEF CountInv
    <2> QED BY <2>4, <2>5, <2>6, <2>7, <2>8, <2>9
<1>3. CASE figures' = <<>>
    BY <1>3 DEF CountInv
<1> QED BY <1>1, <1>2, <1>3, StepKinds

\* The total is at most the sum of its parts, of a platform whose rows nobody
\* deletes, whatever answers come in between the queries.
THEOREM TotalsFit == Spec => []TotalAtMostParts
<1>1. Init => TypeInv /\ CountInv
    BY TypeInit DEF Init, CountInv
<1>2. TypeInv /\ CountInv /\ [Next]_vars => (TypeInv /\ CountInv)'
    BY TypeStep, CountStep
<1>3. CountInv => TotalAtMostParts
    BY OrderFacts, FigureFacts DEF CountInv, TotalAtMostParts, Complete
<1> QED BY <1>1, <1>2, <1>3, PTL DEF Spec

----------------------------------------------------------------------------
(* The average and the least time.                                         *)

LEMMA TimesOrder ==
    ASSUME NEW a \in Nat, NEW b \in Nat, NEW n \in Nat, NEW sum \in Nat,
           a <= b, b * n <= sum
    PROVE  a * n <= sum
<1>1. a * n <= b * n /\ a * n \in Nat /\ b * n \in Nat
    OBVIOUS
<1> DEFINE x == a * n
           y == b * n
<1>2. x \in Nat /\ y \in Nat /\ x <= y /\ y <= sum
    BY <1>1
<1> HIDE DEF x, y
<1>3. x <= sum
    BY <1>2
<1> QED BY <1>3 DEF x

\* A row that the average was made of, and that is no slower, is still there to
\* be the least.
AverageInv(part, a) ==
    (view # NoView /\ ThePlatform # "gcm" /\ Len(figures) >= a
                   /\ figures[a] # <<>>) =>
        /\ Percentile > 0
        /\ \E r \in Matches(part) :
              r.answer.time * figures[a][2] <= figures[a][1]
        /\ Len(figures) >= a + 1 =>
              /\ figures[a + 1] # <<>>
              /\ figures[a + 1][1] * figures[a][2] <= figures[a][1]

LEMMA AverageFigure ==
    ASSUME TypeInv, NEW a \in {3, 7}, Len(figures) >= a, figures[a] # <<>>
    PROVE  figures[a][1] \in Nat /\ figures[a][2] \in Nat
<1>1. figures \in Seq(Seq(Nat))
    BY DEF TypeInv, TypeOK
<1>2. Order[a][2] = "avg"
    BY OrderFacts
<1>3. a \in DOMAIN figures /\ figures[a] \in Seq(Nat)
    BY <1>1
<1>4. Len(figures[a]) \in {0, 2}
    BY <1>2, <1>3 DEF TypeInv, TypeOK
<1>5. Len(figures[a]) = 2
    BY <1>3, <1>4
<1> QED BY <1>3, <1>5, AreNumbers

\* The average is asked for.
LEMMA AverageAsked ==
    ASSUME TypeInv, figures # <<>>, NEW part,
           NEW reply \in Replies(part, "avg"), reply # <<>>
    PROVE  /\ Percentile > 0
           /\ \E r \in Matches(part) : r.answer.time * reply[2] <= reply[1]
<1>1. PICK W \in Windows(part) : reply \in Aggregate(W, "avg")
    BY DEF Replies
<1>2. W # {}
    BY <1>1 DEF Aggregate
<1>3. reply = <<Sum(W), Cardinality(W)>>
    BY <1>1, <1>2, AverageFacts
<1>4. /\ W \subseteq Matches(part) /\ Timed(W)
      /\ Size(part) \in Nat /\ Size(part) # 0 /\ Size(part) <= Percentile
    BY <1>2, WindowFacts DEF TypeInv
<1>5. Percentile > 0
    BY <1>4, TotalFacts DEF TypeInv
<1>6. Times(W) \in SUBSET Nat /\ Times(W) # {}
    BY <1>2, <1>4, BoundsAssumption DEF Times, Timed
<1>7. PICK t \in Times(W) : \A y \in Times(W) : t <= y
    BY <1>6, LeastNumber
<1>8. PICK r \in W : t = r.answer.time
    BY DEF Times
<1>9. t \in 0 .. Slowest /\ \A s \in W : t <= s.answer.time
    BY <1>4, <1>7, <1>8 DEF Times, Timed
<1>10. t * Cardinality(W) <= Sum(W)
    BY <1>4, <1>9, SumAtLeast
<1> QED BY <1>3, <1>4, <1>5, <1>8, <1>10

\* The least time is asked for.
LEMMA LeastAsked ==
    ASSUME TypeInv, figures # <<>>, NEW part, NEW r \in Matches(part),
           Percentile > 0, NEW reply \in Replies(part, "min")
    PROVE  reply # <<>> /\ reply[1] \in Nat /\ reply[1] <= r.answer.time
<1>1. PICK W \in Windows(part) : reply \in Aggregate(W, "min")
    BY DEF Replies
<1>2. /\ W \subseteq Matches(part) /\ Timed(W) /\ Timed(Matches(part))
      /\ Size(part) = Percentile \/ Size(part) = Cardinality(Matches(part))
      /\ W = {} <=> Size(part) = 0
      /\ \A q \in W, s \in Matches(part) \ W : q.answer.time <= s.answer.time
    BY <1>1, WindowFacts, MatchesFacts DEF TypeInv
<1>3. Cardinality(Matches(part)) # 0
    BY <1>2, FS_EmptySet DEF Timed
<1>4. W # {}
    BY <1>2, <1>3
<1>5. PICK q \in W : /\ reply = <<q.answer.time>>
                     /\ \A s \in W : q.answer.time <= s.answer.time
    BY <1>1, <1>4, LeastFacts
<1>6. q.answer.time <= r.answer.time
    BY <1>2, <1>5
<1>7. q.answer.time \in Nat
    BY <1>2, BoundsAssumption DEF Timed
<1> QED BY <1>5, <1>6, <1>7

LEMMA AverageStep ==
    ASSUME TypeInv, TypeInv', [Next]_vars, NEW part, NEW a \in {3, 7},
           Order[a] = <<part, "avg">>, Order[a + 1] = <<part, "min">>,
           AverageInv(part, a)
    PROVE  AverageInv(part, a)'
<1>1. CASE TableStep
    <2>1. UNCHANGED <<view, figures>> /\ ThePlatform' = ThePlatform
        BY <1>1 DEF TableStep, ThePlatform
    <2>2. Percentile' = Percentile
        BY <2>1 DEF Percentile
    <2>3. ThePlatform # "gcm" => Matches(part) \subseteq Matches(part)'
        BY <1>1, MatchesStay
    <2> QED BY <2>1, <2>2, <2>3 DEF AverageInv
<1>2. CASE Query
    <2> USE QueryFacts
    <2>1. /\ view' = view /\ ThePlatform' = ThePlatform
          /\ Matches(part)' = Matches(part)
        BY <1>2 DEF ThePlatform, Matches, InRange, OfPart
    <2>2. Len(figures') = Asked /\ Len(figures) = Asked - 1 /\ Asked \in 1 .. 9
        BY <1>2, CountFigures DEF Asked
    <2>3. Asked > 1 => figures # <<>> /\ Percentile' = Percentile
        BY <1>2 DEF Percentile
    <2>4. SUFFICES ASSUME ThePlatform # "gcm", Len(figures') >= a,
                          figures'[a] # <<>>
                   PROVE  AverageInv(part, a)'
        BY <2>1 DEF AverageInv
    <2>5. CASE Asked = a
        <3>1. figures'[a] \in Replies(part, "avg")
            BY <1>2, <2>5
        <3>2. /\ Percentile' > 0
              /\ \E r \in Matches(part) :
                    r.answer.time * figures'[a][2] <= figures'[a][1]
            BY <2>3, <2>4, <2>5, <3>1, AverageAsked
        <3> QED BY <2>1, <2>2, <2>5, <3>2 DEF AverageInv
    <2>6. CASE Asked # a
        <3>1. /\ Asked > a /\ figures'[a] = figures[a] /\ Len(figures) >= a
              /\ view # NoView
            BY <1>2, <2>2, <2>4, <2>6
        <3>2. PICK r \in Matches(part) :
                  r.answer.time * figures[a][2] <= figures[a][1]
            BY <2>4, <3>1 DEF AverageInv
        <3>3. Percentile > 0 /\ Percentile' > 0 /\ figures # <<>>
            BY <2>2, <2>3, <2>4, <3>1 DEF AverageInv
        <3>4. CASE Asked = a + 1
            <4>1. figures'[a + 1] \in Replies(part, "min")
                BY <1>2, <3>4
            <4> DEFINE least == figures'[a + 1][1]
            <4>2. /\ figures'[a + 1] # <<>> /\ least \in Nat
                  /\ least <= r.answer.time
                BY <3>3, <4>1, LeastAsked
            <4>3. /\ r.answer.time \in Nat /\ figures[a][2] \in Nat
                  /\ figures[a][1] \in Nat
                BY <2>4, <3>1, AverageFigure, MatchesFacts, RowFacts,
                   BoundsAssumption DEF TypeInv
            <4>4. least * figures[a][2] <= figures[a][1]
                BY <3>2, <4>2, <4>3, TimesOrder
            <4> QED BY <2>1, <3>1, <3>2, <3>3, <4>2, <4>4 DEF AverageInv
        <3>5. CASE Asked > a + 1
            <4>1. figures'[a + 1] = figures[a + 1] /\ Len(figures) >= a + 1
                BY <1>2, <2>2, <3>5
            <4> QED BY <2>1, <2>4, <3>1, <3>2, <3>3, <4>1 DEF AverageInv
        <3> QED BY <2>2, <3>1, <3>4, <3>5
    <2> QED BY <2>5, <2>6
<1>3. CASE figures' = <<>>
    BY <1>3 DEF AverageInv
<1> QED BY <1>1, <1>2, <1>3, StepKinds

AveragesInv == AverageInv("available", 3) /\ AverageInv("not_available", 7)

\* A least time is shown with every average, and it is no greater, of a platform
\* whose rows nobody deletes, whatever answers come in between the queries.
THEOREM LeastFits == Spec => []MinAtMostAverage
<1>1. Init => TypeInv /\ AveragesInv
    BY TypeInit DEF Init, AveragesInv, AverageInv
<1>2. TypeInv /\ AveragesInv /\ [Next]_vars => (TypeInv /\ AveragesInv)'
    BY TypeStep, AverageStep, OrderFacts DEF AveragesInv
<1>3. TypeInv /\ AveragesInv => MinAtMostAverage
    <2> SUFFICES ASSUME TypeInv, AveragesInv, view # NoView, Complete,
                        ThePlatform # "gcm"
                 PROVE  MinAtMostAverage
        BY DEF MinAtMostAverage
    <2>1. Len(figures) = 9
        BY OrderFacts DEF Complete
    <2>2. /\ figures[3] # <<>> => /\ figures[4] # <<>>
                                  /\ figures[4][1] * figures[3][2] <= figures[3][1]
          /\ figures[7] # <<>> => /\ figures[8] # <<>>
                                  /\ figures[8][1] * figures[7][2] <= figures[7][1]
        BY <2>1 DEF AveragesInv, AverageInv
    <2> QED BY <2>2, FigureFacts DEF MinAtMostAverage, Parts
<1> QED BY <1>1, <1>2, <1>3, PTL DEF Spec

----------------------------------------------------------------------------
(* The figures of a page during which nothing is written.                  *)

LEMMA RepliesKept ==
    ASSUME UNCHANGED <<rows, view>>, NEW part, NEW what,
           what = "count" \/ figures'[1] = figures[1]
    PROVE  Replies(part, what)' = Replies(part, what)
<1>1. Matches(part)' = Matches(part)
    BY DEF Matches, InRange, OfPart
<1>2. ASSUME figures'[1] = figures[1] PROVE Windows(part)' = Windows(part)
    BY <1>1, <1>2 DEF Windows, Size, Percentile
<1>3. CASE what = "count"
    BY <1>1, <1>3 DEF Replies
<1>4. CASE what # "count"
    BY <1>2, <1>4 DEF Replies
<1> QED BY <1>3, <1>4

\* Each figure is what its query would answer now.
QuietInv ==
    (view # NoView /\ quiet) =>
        \A i \in 1 .. 9 : i <= Len(figures) =>
            figures[i] \in Replies(Order[i][1], Order[i][2])

LEMMA QuietStep == TypeInv /\ TypeInv' /\ QuietInv /\ [Next]_vars => QuietInv'
<1> SUFFICES ASSUME TypeInv, TypeInv', QuietInv, [Next]_vars PROVE QuietInv'
    OBVIOUS
<1>1. CASE TableStep
    <2>1. CASE rows' = rows /\ quiet' = quiet
        <3>1. UNCHANGED <<rows, view, figures, quiet>>
            BY <1>1, <2>1 DEF TableStep
        <3>2. ASSUME NEW i \in 1 .. 9
              PROVE  Replies(Order[i][1], Order[i][2])' =
                         Replies(Order[i][1], Order[i][2])
            BY <3>1, RepliesKept
        <3>3. \A i \in 1 .. 9 : Order[i]' = Order[i]
            BY DEF Order
        <3> QED BY <3>1, <3>2, <3>3 DEF QuietInv
    <2>2. CASE quiet' = FALSE
        BY <2>2 DEF QuietInv
    <2> QED BY <1>1, <2>1, <2>2 DEF TableStep
<1>2. CASE Query
    <2> SUFFICES ASSUME quiet, NEW i \in 1 .. 9, i <= Len(figures')
                 PROVE  figures'[i] \in Replies(Order[i][1], Order[i][2])'
        BY <1>2, QueryFacts DEF QuietInv
    <2>1. /\ view # NoView /\ UNCHANGED <<rows, view>>
          /\ Asked \in 1 .. 9 /\ Len(figures') = Asked
        BY <1>2, QueryFacts
    <2>2. Order[i][2] = "count" \/ figures'[1] = figures[1]
        <3>1. Asked > 1 => figures'[1] = figures[1]
            BY <1>2, QueryFacts
        <3>2. Asked = 1 => i = 1
            BY <2>1
        <3> QED BY <2>1, <3>1, <3>2, OrderFacts
    <2>3. Replies(Order[i][1], Order[i][2])' = Replies(Order[i][1], Order[i][2])
        BY <2>1, <2>2, RepliesKept
    <2>4. CASE i = Asked
        BY <1>2, <2>3, <2>4, QueryFacts
    <2>5. CASE i < Asked
        <3>1. figures'[i] = figures[i] /\ i <= Len(figures)
            BY <1>2, <2>5, QueryFacts, CountFigures DEF Asked
        <3> QED BY <2>1, <2>3, <3>1 DEF QuietInv
    <2> QED BY <2>1, <2>4, <2>5
<1>3. CASE figures' = <<>>
    BY <1>3 DEF QuietInv
<1> QED BY <1>1, <1>2, <1>3, StepKinds

\* What the query matches is what is to be shown, unless there are rows that it
\* leaves out or that are no phone's.
LEMMA ShownMatches ==
    ASSUME TypeInv, view # NoView, LastDayIsBlank, NoProbeRows, NEW part \in AllParts
    PROVE  Matches(part) = Shown(part)
<1>1. /\ view.month \in Months /\ calendar \in Calendars
      /\ view.start_date = First(view.month)
      /\ view.end_date = First(view.month + 1) - 1
    BY DEF TypeInv, TypeOK, ViewInv
<1>2. \A r \in rows : r.day \in Int
    BY CalendarFacts DEF TypeInv, TypeOK
<1>3. ASSUME NEW r \in rows
      PROVE  InRange(r) <=> (InMonth(r.day, view.month)
                                /\ InMonth(r.day + 1, view.month))
    BY <1>1, <1>2, RangeOfMonth DEF InRange
<1>4. ASSUME NEW r \in rows
      PROVE  OfPart(r, part) <=>
                 (part # "all" => r.answer.available = (part = "available"))
    <2>1. r.answer.available \in BOOLEAN
        BY RowFacts DEF TypeInv
    <2> QED BY <2>1 DEF OfPart, AllParts
<1>5. ASSUME NEW r \in rows, r.answer.platform = ThePlatform, InMonth(r.day, view.month)
      PROVE  r.phone /\ InMonth(r.day + 1, view.month)
    BY <1>5 DEF LastDayIsBlank, NoProbeRows
<1> QED BY <1>3, <1>4, <1>5 DEF Matches, Shown, ThePlatform

\* The size of the slice is the number of answers among the fastest.
LEMMA SizeIsTaken ==
    ASSUME TypeInv, view # NoView, LastDayIsBlank, NoProbeRows, figures # <<>>,
           figures[1] = <<Number("all")>>, NEW part \in Parts
    PROVE  Size(part) = Taken(part)
<1> DEFINE N == Number("all")
           K == Number(part)
           P == Percentile
           Fits(n) == 100 * n <= 95 * N /\ (n = K \/ 95 * N < 100 * (n + 1))
<1>1. Matches(part) = Shown(part)
    BY ShownMatches DEF AllParts, Parts
<1>2. K \in Nat
    BY <1>1, MatchesFacts DEF TypeInv, Number
<1>3. /\ P \in Nat /\ N \in Nat
      /\ 100 * P <= 95 * N /\ 95 * N < 100 * (P + 1)
    BY TotalFacts DEF TypeInv
<1>4. Size(part) = IF P < K THEN P ELSE K
    BY <1>1 DEF Size, Number
<1>5. Taken(part) = CHOOSE n \in 0 .. K : Fits(n)
    BY DEF Taken
<1> HIDE DEF N, K, P
<1>6. Size(part) \in 0 .. K /\ Fits(Size(part))
    BY <1>2, <1>3, <1>4
<1>7. \A m, n \in 0 .. K : Fits(m) /\ Fits(n) => m = n
    BY <1>2, <1>3
<1> HIDE DEF Fits
<1> QED BY <1>5, <1>6, <1>7

LEMMA ShownFacts ==
    ASSUME TypeInv, view # NoView, LastDayIsBlank, NoProbeRows, NEW part \in Parts, NEW t
    PROVE  /\ Matches(part) = Shown(part) /\ Timed(Shown(part))
           /\ Timed(Faster(part, t)) /\ IsFiniteSet(Upto(part, t))
           /\ Cardinality(Faster(part, t)) \in Nat
           /\ Cardinality(Upto(part, t)) \in Nat
<1>1. Matches(part) = Shown(part)
    BY ShownMatches DEF AllParts, Parts
<1>2. Timed(Shown(part))
    BY <1>1, MatchesFacts DEF TypeInv
<1>3. Faster(part, t) \subseteq Shown(part) /\ Upto(part, t) \subseteq Shown(part)
    BY DEF Faster, Upto
<1>4. IsFiniteSet(Faster(part, t)) /\ IsFiniteSet(Upto(part, t))
    BY <1>2, <1>3, FS_Subset DEF Timed
<1> QED BY <1>1, <1>2, <1>3, <1>4, FS_CardinalityType DEF Timed

\* The greatest time of a window is the one that fewer rows are below than the
\* window has, and no fewer are below or at.
LEMMA GreatestOfWindow ==
    ASSUME TypeInv, view # NoView, LastDayIsBlank, NoProbeRows, figures # <<>>,
           NEW part \in Parts,
           NEW W \in Windows(part), NEW g \in W,
           \A s \in W : s.answer.time <= g.answer.time
    PROVE  /\ Cardinality(Faster(part, g.answer.time)) < Size(part)
           /\ Size(part) <= Cardinality(Upto(part, g.answer.time))
<1> DEFINE t == g.answer.time
           before == Faster(part, t)
<1>1. /\ W \subseteq Shown(part) /\ Timed(W) /\ Cardinality(W) = Size(part)
      /\ \A r \in W, s \in Shown(part) \ W : r.answer.time <= s.answer.time
      /\ Size(part) \in Nat
    BY WindowFacts, ShownFacts DEF TypeInv
<1>2. \A r \in Shown(part) : r.answer.time \in Nat
    BY ShownFacts, BoundsAssumption DEF Timed
<1>3. before \subseteq W \ {g}
    BY <1>1, <1>2 DEF Faster
<1>4. IsFiniteSet(W \ {g}) /\ Cardinality(W \ {g}) = Size(part) - 1
    BY <1>1, FS_RemoveElement DEF Timed
<1>5. Cardinality(before) <= Size(part) - 1
    BY <1>3, <1>4, FS_Subset
<1>6. W \subseteq Upto(part, t)
    BY <1>1 DEF Upto
<1>7. Size(part) <= Cardinality(Upto(part, t))
    BY <1>1, <1>6, ShownFacts, FS_Subset
<1>8. Cardinality(before) \in Nat
    BY ShownFacts
<1> QED BY <1>1, <1>5, <1>7, <1>8

\* The sum of the times of any window, by that time.
LEMMA SumOfWindow ==
    ASSUME TypeInv, view # NoView, LastDayIsBlank, NoProbeRows, figures # <<>>,
           NEW part \in Parts,
           NEW W \in Windows(part), NEW t \in 0 .. Slowest,
           Cardinality(Faster(part, t)) < Size(part),
           Size(part) <= Cardinality(Upto(part, t))
    PROVE  Sum(W) = Sum(Faster(part, t))
                       + (Size(part) - Cardinality(Faster(part, t))) * t
<1> DEFINE before == Faster(part, t)
           same   == W \ before
<1>1. /\ W \subseteq Shown(part) /\ Timed(W) /\ Cardinality(W) = Size(part)
      /\ \A r \in W, s \in Shown(part) \ W : r.answer.time <= s.answer.time
      /\ Size(part) \in Nat
    BY WindowFacts, ShownFacts DEF TypeInv
<1>2. t \in Nat /\ \A r \in Shown(part) : r.answer.time \in Nat
    BY ShownFacts, BoundsAssumption DEF Timed
<1>3. before \subseteq W
    <2>1. SUFFICES ASSUME NEW s \in before, s \notin W PROVE FALSE
        OBVIOUS
    <2>2. W \subseteq before
        <3>1. ASSUME NEW r \in W PROVE r \in before
            <4>1. /\ r \in Shown(part) /\ s \in Shown(part)
                  /\ s.answer.time < t /\ r.answer.time <= s.answer.time
                BY <1>1, <2>1 DEF Faster
            <4> QED BY <1>2, <4>1 DEF Faster
        <3> QED BY <3>1
    <2>3. Cardinality(W) <= Cardinality(before)
        BY <2>2, ShownFacts, FS_Subset DEF Timed
    <2>4. Cardinality(before) \in Nat
        BY ShownFacts
    <2> QED BY <1>1, <2>3, <2>4
<1>4. ASSUME NEW r \in W PROVE r.answer.time <= t
    <2>1. SUFFICES ASSUME t < r.answer.time PROVE FALSE
        BY <1>1, <1>2
    <2>2. Upto(part, t) \subseteq W \ {r}
        <3>1. ASSUME NEW s \in Upto(part, t) PROVE s \in W /\ s # r
            <4>1. s \in Shown(part) /\ s.answer.time <= t
                BY DEF Upto
            <4>2. ~ (r.answer.time <= s.answer.time)
                BY <1>1, <1>2, <2>1, <4>1
            <4> QED BY <1>1, <1>2, <2>1, <4>1, <4>2
        <3> QED BY <3>1
    <2>3. IsFiniteSet(W \ {r}) /\ Cardinality(W \ {r}) = Size(part) - 1
        BY <1>1, FS_RemoveElement DEF Timed
    <2>4. Cardinality(Upto(part, t)) <= Size(part) - 1
        BY <2>2, <2>3, FS_Subset
    <2>5. Cardinality(Upto(part, t)) \in Nat
        BY ShownFacts
    <2> QED BY <1>1, <2>4, <2>5
<1>5. \A r \in same : r.answer.time = t
    BY <1>1, <1>2, <1>4 DEF Faster
<1>6. Timed(same) /\ Timed(before)
    BY <1>1, ShownFacts, FS_Difference DEF Timed
<1>7. W = before \cup same /\ before \cap same = {}
    BY <1>3
<1>8. Sum(W) = Sum(before) + Sum(same)
    BY <1>6, <1>7, SumOfUnion
<1>9. Cardinality(same) = Size(part) - Cardinality(before)
    <2>1. W \cap before = before
        BY <1>3
    <2>2. Cardinality(same) = Cardinality(W) - Cardinality(W \cap before)
        BY <1>1, FS_Difference DEF Timed
    <2> QED BY <1>1, <2>1, <2>2
<1>10. Sum(same) = Cardinality(same) * t
    BY <1>5, <1>6, SumOfEqual
<1> QED BY <1>8, <1>9, <1>10

\* The three aggregates of a part.
LEMMA QuietPart ==
    ASSUME TypeInv, view # NoView, LastDayIsBlank, NoProbeRows, figures # <<>>,
           NEW part \in Parts,
           NEW avg \in Replies(part, "avg"), NEW min \in Replies(part, "min"),
           NEW max \in Replies(part, "max")
    PROVE  /\ Size(part) = 0 => avg = <<>> /\ min = <<>> /\ max = <<>>
           /\ Size(part) > 0 =>
                \E least, greatest \in Times(Shown(part)) :
                    LET before == Faster(part, greatest)
                        number == Cardinality(before)
                    IN  /\ Faster(part, least) = {}
                        /\ number < Size(part)
                        /\ Size(part) <= Cardinality(Upto(part, greatest))
                        /\ min = <<least>>
                        /\ max = <<greatest>>
                        /\ avg = <<Sum(before) + (Size(part) - number) * greatest,
                                   Size(part)>>
<1>1. PICK A \in Windows(part) : avg \in Aggregate(A, "avg")
    BY DEF Replies
<1>2. PICK I \in Windows(part) : min \in Aggregate(I, "min")
    BY DEF Replies
<1>3. PICK X \in Windows(part) : max \in Aggregate(X, "max")
    BY DEF Replies
<1>4. A = {} <=> Size(part) = 0
    BY WindowFacts DEF TypeInv
<1>5. I = {} <=> Size(part) = 0
    BY WindowFacts DEF TypeInv
<1>6. X = {} <=> Size(part) = 0
    BY WindowFacts DEF TypeInv
<1>7. CASE Size(part) = 0
    BY <1>1, <1>2, <1>3, <1>4, <1>5, <1>6, <1>7 DEF Aggregate
<1>8. CASE Size(part) > 0
    <2>1. A # {} /\ I # {} /\ X # {}
        BY <1>4, <1>5, <1>6, <1>8
    <2>2. PICK l \in I : /\ min = <<l.answer.time>>
                         /\ \A s \in I : l.answer.time <= s.answer.time
        BY <1>2, <2>1, LeastFacts
    <2>3. PICK g \in X : /\ max = <<g.answer.time>>
                         /\ \A s \in X : s.answer.time <= g.answer.time
        BY <1>3, <2>1, GreatestFacts
    <2> DEFINE least    == l.answer.time
               greatest == g.answer.time
    <2>4. l \in Shown(part) /\ g \in Shown(part)
        BY WindowFacts, ShownFacts DEF TypeInv
    <2>5. least \in Times(Shown(part)) /\ greatest \in Times(Shown(part))
        BY <2>4 DEF Times
    <2>6. Faster(part, least) = {}
        <3>1. \A s \in Shown(part) : least <= s.answer.time
            BY <2>2, WindowFacts, ShownFacts DEF TypeInv
        <3>2. \A s \in Shown(part) : s.answer.time \in Int
            BY ShownFacts, BoundsAssumption DEF Timed
        <3> QED BY <2>4, <3>1, <3>2 DEF Faster
    <2>7. /\ Cardinality(Faster(part, greatest)) < Size(part)
          /\ Size(part) <= Cardinality(Upto(part, greatest))
        BY <2>3, GreatestOfWindow
    <2>8. greatest \in 0 .. Slowest
        BY <2>4, ShownFacts DEF Timed
    <2>9. avg = <<Sum(A), Cardinality(A)>> /\ Cardinality(A) = Size(part)
        BY <1>1, <2>1, AverageFacts, WindowFacts DEF TypeInv
    <2>10. Sum(A) = Sum(Faster(part, greatest))
                  + (Size(part) - Cardinality(Faster(part, greatest))) * greatest
        BY <2>7, <2>8, SumOfWindow
    <2>11. min = <<least>> /\ max = <<greatest>>
        BY <2>2, <2>3
    <2> HIDE DEF least, greatest
    <2> QED BY <1>8, <2>5, <2>6, <2>7, <2>9, <2>10, <2>11
<1>9. Size(part) \in Nat
    BY <1>1, WindowFacts DEF TypeInv
<1> QED BY <1>7, <1>8, <1>9

\* The figures of a part, of a page that is complete.
LEMMA QuietParts ==
    ASSUME TypeInv, QuietInv, view # NoView, LastDayIsBlank, NoProbeRows, quiet,
           Complete, NEW part \in Parts
    PROVE  /\ figures[1] = <<Number("all")>>
           /\ Figure(<<"all", "count">>) = figures[1] /\ figures # <<>>
           /\ Figure(<<part, "count">>) = <<Number(part)>>
           /\ Figure(<<part, "avg">>) \in Replies(part, "avg")
           /\ Figure(<<part, "min">>) \in Replies(part, "min")
           /\ Figure(<<part, "max">>) \in Replies(part, "max")
<1>1. Len(figures) = 9
    BY OrderFacts DEF Complete
<1>2. \A i \in 1 .. 9 : figures[i] \in Replies(Order[i][1], Order[i][2])
    BY <1>1 DEF QuietInv
<1>3. /\ figures[1] \in Replies("all", "count")
      /\ figures[2] \in Replies("available", "count")
      /\ figures[3] \in Replies("available", "avg")
      /\ figures[4] \in Replies("available", "min")
      /\ figures[5] \in Replies("available", "max")
      /\ figures[6] \in Replies("not_available", "count")
      /\ figures[7] \in Replies("not_available", "avg")
      /\ figures[8] \in Replies("not_available", "min")
      /\ figures[9] \in Replies("not_available", "max")
    BY <1>2, OrderFacts
<1>4. figures # <<>>
    BY <1>1, NineAreSome
<1>5. \A p \in AllParts : Replies(p, "count") = {<<Number(p)>>}
    BY ShownMatches DEF Replies, Number
<1> QED BY <1>3, <1>4, <1>5, FigureFacts DEF Parts, AllParts

\* While nothing is written, the figures of the page are those of the month: the
\* counts, and the average, the least and the greatest of the fastest times up to
\* 95 percent, in every month and for every table in which the platform has no
\* row of the last day of the month or of a probe.
THEOREM FiguresAreRight == Spec => []QuietFigures
<1>1. Init => TypeInv /\ QuietInv
    BY TypeInit DEF Init, QuietInv
<1>2. TypeInv /\ QuietInv /\ [Next]_vars => (TypeInv /\ QuietInv)'
    BY TypeStep, QuietStep
<1>3. TypeInv /\ QuietInv => QuietFigures
    <2> SUFFICES ASSUME TypeInv, QuietInv, view # NoView, Complete, quiet,
                        LastDayIsBlank, NoProbeRows
                 PROVE  QuietFigures
        BY DEF QuietFigures
    <2>1. Figure(<<"all", "count">>) = <<Number("all")>>
        BY QuietParts DEF Parts
    <2>2. ASSUME NEW part \in Parts
          PROVE  LET n == Size(part)
                 IN  /\ Figure(<<part, "count">>) = <<Number(part)>>
                     /\ n = 0 => \A what \in {"avg", "min", "max"} :
                                     Figure(<<part, what>>) = <<>>
                     /\ n > 0 =>
                         \E least, greatest \in Times(Shown(part)) :
                             LET before == Faster(part, greatest)
                                 number == Cardinality(before)
                             IN  /\ Faster(part, least) = {}
                                 /\ number < n
                                 /\ n <= Cardinality(Upto(part, greatest))
                                 /\ Figure(<<part, "min">>) = <<least>>
                                 /\ Figure(<<part, "max">>) = <<greatest>>
                                 /\ Figure(<<part, "avg">>) =
                                     <<Sum(before) + (n - number) * greatest, n>>
        BY QuietParts, QuietPart
    <2>3. \A part \in Parts : Size(part) = Taken(part)
        BY QuietParts, SizeIsTaken
    <2> QED BY <2>1, <2>2, <2>3 DEF QuietFigures
<1> QED BY <1>1, <1>2, <1>3, PTL DEF Spec

----------------------------------------------------------------------------
(* The model leaves no query without an answer: the theorems above are not *)
(* about a page that is stuck.                                             *)

\* Any number of the rows of a set can be its fastest.
LEMMA FastestExist ==
    ASSUME NEW M, Timed(M), NEW k \in 0 .. Cardinality(M)
    PROVE  \E W \in SUBSET M :
              /\ Cardinality(W) = k
              /\ \A r \in W, s \in M \ W : r.answer.time <= s.answer.time
<1> DEFINE Fastest(W, n) ==
               /\ Cardinality(W) = n
               /\ \A r \in W, s \in M \ W : r.answer.time <= s.answer.time
           Bad == {n \in 0 .. Cardinality(M) : ~ \E W \in SUBSET M : Fastest(W, n)}
<1>1. IsFiniteSet(M) /\ Cardinality(M) \in Nat
    BY FS_CardinalityType DEF Timed
<1>2. SUFFICES ASSUME Bad # {} PROVE FALSE
    OBVIOUS
<1>3. PICK n \in Bad : \A m \in Bad : n <= m
    <2>1. Bad \in SUBSET Nat
        BY <1>1
    <2> HIDE DEF Bad
    <2> QED BY <1>2, <2>1, LeastNumber
<1>4. n # 0
    <2>1. Fastest({}, 0)
        BY FS_EmptySet
    <2> QED BY <1>3, <2>1
<1>5. n \in 1 .. Cardinality(M) /\ n - 1 \in 0 .. Cardinality(M) /\ n - 1 \notin Bad
    BY <1>1, <1>3, <1>4
<1>6. PICK W \in SUBSET M : Fastest(W, n - 1)
    BY <1>5
<1>7. IsFiniteSet(W) /\ M \ W # {}
    <2>1. IsFiniteSet(W)
        BY <1>1, FS_Subset
    <2>2. W # M
        BY <1>1, <1>5, <1>6
    <2> QED BY <2>1, <2>2
<1>8. Times(M \ W) \in SUBSET Nat /\ Times(M \ W) # {}
    BY <1>7, BoundsAssumption DEF Times, Timed
<1>9. PICK t \in Times(M \ W) : \A y \in Times(M \ W) : t <= y
    BY <1>8, LeastNumber
<1>10. PICK r \in M \ W : t = r.answer.time
    BY DEF Times
<1>11. \A s \in M \ W : r.answer.time <= s.answer.time
    BY <1>9, <1>10 DEF Times
<1>12. Cardinality(W \cup {r}) = n
    <2>1. Cardinality(W \cup {r}) = Cardinality(W) + 1
        BY <1>7, <1>10, FS_AddElement
    <2> QED BY <1>1, <1>5, <1>6, <2>1
<1>13. Fastest(W \cup {r}, n)
    BY <1>6, <1>11, <1>12
<1> QED BY <1>3, <1>10, <1>13

\* A set of rows has a slowest one.
LEMMA GreatestTime ==
    ASSUME NEW W, Timed(W), W # {}
    PROVE  \E t \in Times(W) : \A s \in Times(W) : s <= t
<1> DEFINE T == {Slowest - t : t \in Times(W)}
<1>1. Times(W) \subseteq 0 .. Slowest /\ Times(W) # {}
    BY DEF Times, Timed
<1>2. T \in SUBSET Nat /\ T # {}
    BY <1>1, BoundsAssumption
<1> HIDE DEF T
<1>3. PICK x \in T : \A y \in T : x <= y
    BY <1>2, LeastNumber
<1>4. PICK t \in Times(W) : x = Slowest - t
    BY DEF T
<1>5. ASSUME NEW s \in Times(W) PROVE s <= t
    <2>1. Slowest - s \in T
        BY DEF T
    <2>2. Slowest - t <= Slowest - s
        BY <1>3, <1>4, <2>1
    <2> QED BY <1>1, <2>2, BoundsAssumption
<1> QED BY <1>5

LEMMA RepliesExist ==
    ASSUME TypeOK, NEW part, NEW what \in {"count", "avg", "min", "max"},
           what # "count" => figures # <<>>
    PROVE  Replies(part, what) # {}
<1>1. CASE what = "count"
    BY <1>1 DEF Replies
<1>2. CASE what # "count"
    <2>1. Timed(Matches(part)) /\ Size(part) \in 0 .. Cardinality(Matches(part))
        BY <1>2, TotalFacts, MatchesFacts DEF Size
    <2>2. PICK W \in Windows(part) : TRUE
        BY <2>1, FastestExist DEF Windows
    <2>3. Timed(W)
        BY <1>2, WindowFacts
    <2>4. Aggregate(W, what) # {}
        <3>1. CASE W = {}
            BY <3>1 DEF Aggregate
        <3>2. CASE W # {} /\ what = "avg"
            BY <3>2 DEF Aggregate
        <3>3. CASE W # {} /\ what = "min"
            <4>1. Times(W) \in SUBSET Nat /\ Times(W) # {}
                BY <2>3, <3>3, BoundsAssumption DEF Times, Timed
            <4>2. \E t \in Times(W) : \A s \in Times(W) : t <= s
                BY <4>1, LeastNumber
            <4> QED BY <3>3, <4>2 DEF Aggregate
        <3>4. CASE W # {} /\ what = "max"
            BY <2>3, <3>4, GreatestTime DEF Aggregate
        <3> QED BY <1>2, <3>1, <3>2, <3>3, <3>4
    <2> QED BY <1>2, <2>4 DEF Replies
<1> QED BY <1>1, <1>2

\* A page that is not complete has a query, and the query an answer, whatever
\* is in the table.
THEOREM QueriesAreAnswered ==
    Spec => [](view # NoView /\ ~ Complete =>
                  Replies(Order[Asked][1], Order[Asked][2]) # {})
<1>1. TypeInv => (view # NoView /\ ~ Complete =>
                      Replies(Order[Asked][1], Order[Asked][2]) # {})
    <2> SUFFICES ASSUME TypeInv, ~ Complete
                 PROVE  Replies(Order[Asked][1], Order[Asked][2]) # {}
        OBVIOUS
    <2>1. Len(figures) \in Nat /\ Len(figures) <= 9 /\ Len(figures) # 9
        BY CountFigures, OrderFacts DEF TypeInv, TypeOK, Complete
    <2>2. \A n \in Nat : n <= 9 /\ n # 9 => n + 1 \in 1 .. 9
        OBVIOUS
    <2>3. Asked \in 1 .. 9
        BY <2>1, <2>2 DEF Asked
    <2>4. Asked # 1 => figures # <<>>
        BY DEF Asked
    <2>5. Order[Asked][2] # "count" => figures # <<>>
        BY <2>4, OrderFacts
    <2> QED BY <2>3, <2>5, OrderParts, RepliesExist DEF TypeInv
<1>2. Spec => []TypeInv
    BY TypeInit, TypeStep, PTL DEF Spec
<1> QED BY <1>1, <1>2, PTL

=============================================================================
