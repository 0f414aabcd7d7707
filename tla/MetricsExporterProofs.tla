----------------------- MODULE MetricsExporterProofs ------------------------
(***************************************************************************)
(* Proofs about the metrics pipeline, for any number of lists and values   *)
(* and, where it does not say otherwise, any set of exporters.             *)
(***************************************************************************)
EXTENDS MetricsExporterProps, TLAPS

----------------------------------------------------------------------------
(* The type invariant needs to know that nothing is trimmed that was not   *)
(* pushed, or LLEN would be negative.                                      *)

TrimBelowPush == \A l \in Lists : trimmed[l] <= pushed[l]

TypeInv == TypeOK /\ TrimBelowPush

LEMMA Bounds ==
    MaxValues \in Nat /\ MaxCount \in Nat /\ MaxCount > 0 /\ MaxCuts \in Nat
    BY ExporterAssumption DEF ExporterAssumption

LEMMA PushBound ==
    \A l \in Lists : MaxPushed[l] \in Nat /\ MaxPushed[l] <= MaxValues
    BY Bounds, ExporterAssumption DEF ExporterAssumption

LEMMA FirstList == 1 \in Lists /\ \A l \in Lists : l < NumLists => l + 1 \in Lists
    BY ExporterAssumption DEF ExporterAssumption, Lists

LEMMA EndRoundTypes ==
    ASSUME TypeOK, NEW e, EndRound(e)
    PROVE  /\ list' \in [Exporters -> Lists]
           /\ list_length' \in [Exporters -> 0 .. MaxValues]
<1>1. 0 \in 0 .. MaxValues /\ 1 \in Lists
    BY Bounds, FirstList
<1> QED BY <1>1 DEF EndRound, TypeOK

\* What LLEN and LTRIM return, whatever their arguments.
LEMMA QueueFacts ==
    ASSUME TypeInv, NEW l \in Lists
    PROVE  /\ llen(l) \in 0 .. MaxValues
           /\ \A start \in Nat : /\ ltrim(l, start) \in 0 .. MaxValues
                                 /\ trimmed[l] <= ltrim(l, start)
                                 /\ ltrim(l, start) <= pushed[l]
<1>1. /\ pushed[l] \in 0 .. MaxValues
      /\ trimmed[l] \in 0 .. MaxValues
      /\ trimmed[l] <= pushed[l]
    BY DEF TypeInv, TypeOK, TrimBelowPush
<1> QED BY <1>1, Bounds DEF llen, ltrim

LEMMA CountedFacts ==
    \A n \in 0 .. MaxCount : Counted(n) \in 0 .. MaxCount /\ Counted(n) > 0
    BY Bounds DEF Counted

LEMMA TypeInit == Init => TypeInv
    BY Bounds, FirstList DEF Init, TypeInv, TypeOK, TrimBelowPush, PCs

LEMMA TypeStep == TypeInv /\ [Next]_vars => TypeInv'
<1> SUFFICES ASSUME TypeOK, TrimBelowPush, [Next]_vars PROVE TypeOK' /\ TrimBelowPush'
    BY DEF TypeInv
<1>1. ASSUME NEW l \in Lists, Push(l) PROVE TypeOK' /\ TrimBelowPush'
    BY <1>1, Bounds, PushBound DEF Push, TypeOK, TrimBelowPush, probeVars
<1>2. ASSUME NEW e \in Exporters, Probe(e) PROVE TypeOK' /\ TrimBelowPush'
    <2>1. CASE Ping(e)
        BY <2>1 DEF Ping, Goto, TypeOK, TrimBelowPush, PCs, queueVars
    <2>2. CASE ProbeCreate(e)
        BY <2>2 DEF ProbeCreate, Goto, TypeOK, TrimBelowPush, PCs, queueVars,
                    probeVars
    <2>3. ASSUME NEW orm, ProbeReturns(e, orm) PROVE TypeOK' /\ TrimBelowPush'
        BY <2>3, FirstList DEF ProbeReturns, Flag, Goto, TypeOK, TrimBelowPush,
                    PCs, queueVars
    <2> QED BY <1>2, <2>1, <2>2, <2>3 DEF Probe, ProbeFails, ProbeDelete
<1>3. ASSUME NEW e \in Exporters, Llen(e) PROVE TypeOK' /\ TrimBelowPush'
    <2>1. llen(list[e]) \in 0 .. MaxValues
        BY QueueFacts DEF TypeInv, TypeOK
    <2> QED BY <1>3, <2>1 DEF Llen, Goto, TypeOK, TrimBelowPush, PCs, queueVars,
                              probeVars
<1>4. ASSUME NEW e \in Exporters, Lrange(e) PROVE TypeOK' /\ TrimBelowPush'
    <2>1. list[e] \in Lists
        BY DEF TypeOK
    <2>2. counted' \in [Lists -> [Values -> 0 .. MaxCount]]
        BY <1>4, <2>1, CountedFacts DEF Lrange, TypeOK
    <2> QED BY <1>4, <2>2 DEF Lrange, Goto, TypeOK, TrimBelowPush, PCs, probeVars
<1>5. ASSUME NEW e \in Exporters, Ltrim(e) PROVE TypeOK' /\ TrimBelowPush'
    <2>1. list[e] \in Lists /\ list_length[e] \in Nat
        BY Bounds DEF TypeOK
    <2> DEFINE kept == ltrim(list[e], list_length[e])
    <2>2. kept \in 0 .. MaxValues /\ kept <= pushed[list[e]]
        BY <2>1, QueueFacts DEF TypeInv
    <2>3. trimmed' = [trimmed EXCEPT ![list[e]] = kept]
        BY <1>5 DEF Ltrim
    <2> HIDE DEF kept
    <2>4. TrimBelowPush' /\ trimmed' \in [Lists -> 0 .. MaxValues]
        BY <1>5, <2>1, <2>2, <2>3 DEF Ltrim, TypeOK, TrimBelowPush
    <2>5. /\ list' \in [Exporters -> Lists] /\ pc' \in [Exporters -> PCs]
          /\ list_length' \in [Exporters -> 0 .. MaxValues]
        <3>1. pc' \in [Exporters -> PCs]
            <4>1. \/ pc' = [pc EXCEPT ![e] = "llen"]
                  \/ pc' = [pc EXCEPT ![e] = "sleep"]
                BY <1>5 DEF Ltrim, Goto
            <4> QED BY <4>1 DEF TypeOK, PCs
        <3>2. EndRound(e) \/ (list[e] < NumLists /\ NextList(e))
            BY <1>5 DEF Ltrim
        <3>3. 0 \in 0 .. MaxValues
            BY Bounds
        <3>4. CASE list[e] < NumLists /\ NextList(e)
            <4>1. list[e] + 1 \in Lists
                BY <2>1, <3>4, FirstList
            <4> QED BY <3>1, <3>3, <3>4, <4>1 DEF NextList, TypeOK
        <3> QED BY <3>1, <3>2, <3>4, EndRoundTypes
    <2>6. UNCHANGED <<pushed, counted, probeVars, cut>>
        BY <1>5 DEF Ltrim
    <2> QED BY <2>4, <2>5, <2>6 DEF TypeOK, probeVars
<1>6. ASSUME NEW e \in Exporters,
             WakeUp(e) \/ RedisDown(e) \/ ProbeCrash(e) \/ Kill(e)
      PROVE TypeOK' /\ TrimBelowPush'
    <2>1. /\ UNCHANGED <<pushed, trimmed, counted>>
          /\ list' \in [Exporters -> Lists]
          /\ list_length' \in [Exporters -> 0 .. MaxValues]
          /\ redis' \in [Exporters -> {"up", "down"}]
          /\ redis_health' \in [Exporters -> {0, 1}]
          /\ mysql_health' \in [Exporters -> {0, 1}]
        <3>1. CASE WakeUp(e)
            BY <3>1 DEF WakeUp, TypeOK, queueVars, probeVars
        <3>2. CASE RedisDown(e)
            BY <3>2, EndRoundTypes DEF RedisDown, TypeOK, queueVars, probeVars
        <3>3. CASE ProbeCrash(e) \/ Kill(e)
            BY <3>3, EndRoundTypes
            DEF ProbeCrash, Kill, EndProcess, TypeOK, queueVars
        <3> QED BY <1>6, <3>1, <3>2, <3>3
    <2>2. pc' \in [Exporters -> PCs] /\ leftover' \subseteq Exporters
        BY <1>6 DEF WakeUp, RedisDown, ProbeCrash, Kill, Goto, probeVars, TypeOK,
                    PCs
    <2>3. cut' = cut \/ Cut(e)
        BY <1>6 DEF WakeUp, RedisDown, ProbeCrash, Kill
    <2>4. cut' \in [Lists -> 0 .. MaxCuts]
        BY <2>3, Bounds DEF Cut, TypeOK
    <2> QED BY <2>1, <2>2, <2>4 DEF TypeOK, TrimBelowPush
<1>7. ASSUME NEW e \in Exporters, Restart(e) PROVE TypeOK' /\ TrimBelowPush'
    BY <1>7 DEF Restart, Goto, TypeOK, TrimBelowPush, PCs, queueVars, probeVars
<1>8. CASE UNCHANGED vars
    BY <1>8 DEF vars, queueVars, probeVars, TypeOK, TrimBelowPush
<1> QED
    BY <1>1, <1>2, <1>3, <1>4, <1>5, <1>6, <1>7, <1>8
    DEF Next, CalmNext, CalmStep, Move

\* Every variable keeps its type, and no list is trimmed past its end,
\* however many exporters run against each other, stop and start again.
THEOREM TypeCorrect == Spec => []TypeOK
<1>1. Spec => []TypeInv
    BY TypeInit, TypeStep, PTL DEF Spec
<1> QED BY <1>1, PTL DEF TypeInv

----------------------------------------------------------------------------
(* Nothing is lost while one exporter empties the lists.  What LLEN saw is *)
(* still in the list when LTRIM drops it, and was counted in between.      *)

LengthFits ==
    \A e \in Exporters : pc[e] \in {"lrange", "ltrim"} =>
        trimmed[list[e]] + list_length[e] <= pushed[list[e]]

ReadCounted ==
    \A e \in Exporters : pc[e] = "ltrim" =>
        \A v \in Values : v <= trimmed[list[e]] + list_length[e]
                              => counted[list[e]][v] > 0

LossInv == TypeInv /\ LengthFits /\ ReadCounted /\ NoLoss

LEMMA LossInit == Init => LossInv
<1> SUFFICES ASSUME Init PROVE LossInv
    OBVIOUS
<1>1. TypeInv
    BY TypeInit
<1>2. LengthFits /\ ReadCounted
    BY DEF Init, LengthFits, ReadCounted
<1>3. NoLoss
    BY DEF Init, NoLoss, Values
<1> QED BY <1>1, <1>2, <1>3 DEF LossInv

\* The part of an LRANGE that its LTRIM will drop.
LEMMA ReadBeforeTrim ==
    ASSUME TypeInv, LengthFits, NoLoss, NEW e \in Exporters, Lrange(e)
    PROVE  /\ NoLoss'
           /\ \A v \in Values : v <= trimmed[list[e]] + list_length[e]
                                  => counted'[list[e]][v] > 0
<1> DEFINE l == list[e]
<1>1. /\ l \in Lists /\ l \in Int
      /\ list_length[e] \in Nat /\ trimmed[l] \in Nat /\ pushed[l] \in Nat
      /\ trimmed[l] + list_length[e] <= pushed[l]
    BY Bounds DEF TypeInv, TypeOK, LengthFits, Lrange, Lists
<1>2. counted' = [counted EXCEPT ![l] =
                    [v \in Values |-> IF v \in lrange(l, list_length[e])
                                      THEN Counted(counted[l][v])
                                      ELSE counted[l][v]]]
    BY DEF Lrange
<1>3. \A k \in Lists : \A v \in Values : counted[k][v] \in 0 .. MaxCount
    BY DEF TypeInv, TypeOK
<1>4. \A k \in Lists : \A v \in Values :
        counted[k][v] > 0 => counted'[k][v] > 0
    BY <1>1, <1>2, <1>3, CountedFacts DEF TypeInv, TypeOK
<1>5. NoLoss'
    BY <1>4 DEF NoLoss, Lrange
<1>6. ASSUME NEW v \in Values, v <= trimmed[l] + list_length[e]
      PROVE counted'[l][v] > 0
    <2>1. CASE v <= trimmed[l]
        BY <1>1, <1>4, <2>1 DEF NoLoss
    <2>2. CASE ~ (v <= trimmed[l])
        <3>1. v \in Int
            BY DEF Values
        <3>2. v \in lrange(l, list_length[e])
            BY <1>1, <1>6, <2>2, <3>1 DEF lrange
        <3> QED BY <1>1, <1>2, <1>3, <3>2, CountedFacts DEF TypeInv, TypeOK
    <2> QED BY <2>1, <2>2
<1> QED BY <1>5, <1>6

LEMMA LossStep ==
    ASSUME OneExporter, LossInv, [Next]_vars PROVE LossInv'
<1> USE DEF LossInv
<1>1. TypeInv'
    BY TypeStep
<1>2. PICK x \in Exporters : Exporters = {x}
    BY DEF OneExporter
<1>3. ASSUME NEW l \in Lists, Push(l) PROVE LossInv'
    <2>1. \A k \in Lists : pushed[k] <= pushed'[k]
        BY <1>3, Bounds DEF Push, TypeInv, TypeOK
    <2>2. UNCHANGED <<trimmed, counted, pc, list, list_length>>
        BY <1>3 DEF Push
    <2>3. LengthFits'
        BY <1>1, <2>1, <2>2, Bounds DEF LengthFits, TypeInv, TypeOK
    <2> QED BY <1>1, <2>2, <2>3 DEF ReadCounted, NoLoss
<1>4. ASSUME Llen(x) PROVE LossInv'
    <2>1. trimmed[list[x]] + llen(list[x]) <= pushed[list[x]]
        BY <1>2, Bounds DEF llen, TypeInv, TypeOK
    <2>2. LengthFits' /\ ReadCounted'
        BY <1>2, <1>4, <2>1
        DEF Llen, Goto, LengthFits, ReadCounted, TypeInv, TypeOK, queueVars
    <2> QED BY <1>1, <1>4, <2>2 DEF Llen, NoLoss, queueVars
<1>5. ASSUME Lrange(x) PROVE LossInv'
    <2>1. LengthFits'
        BY <1>2, <1>5 DEF Lrange, Goto, LengthFits, TypeInv, TypeOK
    <2>2. NoLoss' /\ ReadCounted'
        BY <1>2, <1>5, ReadBeforeTrim DEF ReadCounted, Lrange
    <2> QED BY <1>1, <2>1, <2>2
<1>6. ASSUME Ltrim(x) PROVE LossInv'
    <2> DEFINE l == list[x]
    <2>1. /\ l \in Lists /\ list_length[x] \in Nat
          /\ trimmed[l] + list_length[x] <= pushed[l]
          /\ \A v \in Values : v <= trimmed[l] + list_length[x]
                                 => counted[l][v] > 0
        BY <1>2, <1>6, Bounds
        DEF Ltrim, TypeInv, TypeOK, LengthFits, ReadCounted
    <2>2. ltrim(l, list_length[x]) = trimmed[l] + list_length[x]
        <3>1. pushed[l] \in Int /\ trimmed[l] \in Int
            BY <2>1, Bounds DEF TypeInv, TypeOK
        <3> HIDE DEF l
        <3> QED BY <2>1, <3>1 DEF ltrim, llen
    <2>3. NoLoss'
        <3>1. trimmed' = [trimmed EXCEPT ![l] = trimmed[l] + list_length[x]]
            BY <1>6, <2>2 DEF Ltrim
        <3>2. \A k \in Lists : \A v \in Values :
                v <= trimmed'[k] => counted[k][v] > 0
            BY <2>1, <3>1 DEF NoLoss, TypeInv, TypeOK
        <3> QED BY <1>6, <3>2 DEF Ltrim, NoLoss
    <2>4. pc'[x] \notin {"lrange", "ltrim"}
        BY <1>2, <1>6 DEF Ltrim, Goto, TypeInv, TypeOK
    <2> QED BY <1>1, <1>2, <2>3, <2>4 DEF LengthFits, ReadCounted
<1>7. ASSUME Probe(x) \/ WakeUp(x) \/ RedisDown(x) \/ ProbeCrash(x)
                \/ Kill(x) \/ Restart(x)
      PROVE LossInv'
    <2>1. UNCHANGED queueVars /\ pc'[x] \notin {"lrange", "ltrim"}
        BY <1>2, <1>7
        DEF Probe, Ping, ProbeCreate, ProbeFails, ProbeDelete, ProbeReturns,
            WakeUp, RedisDown, ProbeCrash, Kill, Restart, Goto, TypeInv, TypeOK
    <2> QED BY <1>1, <1>2, <2>1 DEF LengthFits, ReadCounted, NoLoss, queueVars
<1>8. CASE UNCHANGED vars
    BY <1>1, <1>8 DEF vars, queueVars, LengthFits, ReadCounted, NoLoss
<1> QED
    BY <1>2, <1>3, <1>4, <1>5, <1>6, <1>7, <1>8
    DEF Next, CalmNext, CalmStep, Move

\* With one exporter no value leaves its list before it was counted, whatever
\* happens to Redis, to the database and to the exporter itself.
THEOREM NothingLost == OneExporter => (Spec => []NoLoss)
<1> SUFFICES ASSUME OneExporter PROVE Spec => []NoLoss
    OBVIOUS
<1>1. LossInv /\ [Next]_vars => LossInv'
    BY LossStep
<1>2. Spec => []LossInv
    BY LossInit, <1>1, PTL DEF Spec
<1> QED BY <1>2, PTL DEF LossInv

----------------------------------------------------------------------------
(* How often a value is counted.  Of a list only the value next to be read *)
(* first may have been counted since the last LTRIM: by the LRANGE before  *)
(* it, as the one value too many.                                          *)

\* Exporter e has read list l, and has still to trim it.
ToTrim(e, l) == pc[e] = "ltrim" /\ list[e] = l

NotPushed == \A l \in Lists : \A v \in Values : v > pushed[l] => counted[l][v] = 0

\* How often value v of a list can have been counted, but for cut rounds.
Due(l, v) == IF v <= trimmed[l] THEN 2 ELSE IF v = trimmed[l] + 1 THEN 1 ELSE 0

\* The same when the n values that LLEN saw have been read, and one more.
DueRead(l, v, n) ==
    IF v <= trimmed[l] \/ (v = trimmed[l] + 1 /\ n > 0) THEN 2
    ELSE IF v <= trimmed[l] + n + 1 THEN 1 ELSE 0

RecountInv ==
    \A l \in Lists : cut[l] < MaxCuts =>
        \A v \in Values :
            /\ \A e \in Exporters :
                  /\ ~ ToTrim(e, l) => counted[l][v] <= cut[l] + Due(l, v)
                  /\ ToTrim(e, l) =>
                        counted[l][v] <= cut[l] + DueRead(l, v, list_length[e])
                  /\ (pc[e] = "lrange" /\ list[e] = l
                        /\ v > trimmed[l] + list_length[e])
                       => counted[l][v] <= cut[l]

CountInv == LossInv /\ NotPushed /\ RecountInv

LEMMA CountInit == Init => CountInv
<1> SUFFICES ASSUME Init PROVE CountInv
    OBVIOUS
<1>1. LossInv
    BY LossInit
<1>2. NotPushed
    BY DEF Init, NotPushed
<1>3. RecountInv
    BY DEF Init, RecountInv, ToTrim, Due, Values
<1> QED BY <1>1, <1>2, <1>3 DEF CountInv

LEMMA CountTypes ==
    ASSUME TypeInv, NEW l \in Lists
    PROVE  /\ pushed[l] \in Nat /\ trimmed[l] \in Nat /\ cut[l] \in Nat
           /\ trimmed[l] <= pushed[l]
           /\ \A v \in Values : v \in Nat /\ counted[l][v] \in Nat
           /\ \A e \in Exporters : list[e] \in Lists /\ list_length[e] \in Nat
BY Bounds DEF TypeInv, TypeOK, TrimBelowPush, Values

\* Nothing is counted that is not in the list.
LEMMA NotPushedStep ==
    ASSUME TypeInv, NotPushed, [Next]_vars PROVE NotPushed'
<1>1. ASSUME NEW l \in Lists, Push(l) PROVE NotPushed'
    <2>1. \A k \in Lists : pushed[k] <= pushed'[k] /\ pushed'[k] \in Nat
        BY <1>1, CountTypes DEF Push, TypeInv, TypeOK
    <2> QED BY <1>1, <2>1, CountTypes DEF Push, NotPushed
<1>2. ASSUME NEW e \in Exporters, Lrange(e) PROVE NotPushed'
    <2>1. \A l \in Lists, v \in Values :
              v > pushed[l] => counted'[l][v] = counted[l][v]
        BY <1>2, CountTypes DEF Lrange, lrange, TypeInv, TypeOK
    <2> QED BY <1>2, <2>1 DEF Lrange, NotPushed
<1>3. ASSUME NEW e \in Exporters, Ltrim(e) PROVE NotPushed'
    BY <1>3 DEF Ltrim, NotPushed
<1>4. CASE UNCHANGED queueVars
    BY <1>4 DEF queueVars, NotPushed
<1>5. ASSUME NEW e \in Exporters,
             Probe(e) \/ Llen(e) \/ WakeUp(e) \/ RedisDown(e)
                \/ ProbeCrash(e) \/ Kill(e) \/ Restart(e)
      PROVE UNCHANGED queueVars
    BY <1>5 DEF Probe, Ping, ProbeCreate, ProbeFails, ProbeDelete, ProbeReturns,
                Llen, WakeUp, RedisDown, ProbeCrash, Kill, Restart
<1> QED
    BY <1>1, <1>2, <1>3, <1>4, <1>5
    DEF Next, CalmNext, CalmStep, Move, vars

LEMMA RecountStep ==
    ASSUME OneExporter, CountInv, [Next]_vars PROVE RecountInv'
<1> USE DEF CountInv, LossInv
<1>1. PICK x \in Exporters : Exporters = {x}
    BY DEF OneExporter
<1>2. TypeInv /\ TypeInv'
    BY TypeStep
<1>3. SUFFICES ASSUME NEW l \in Lists, cut'[l] < MaxCuts, NEW v \in Values
               PROVE  /\ ~ ToTrim(x, l)' => counted'[l][v] <= cut'[l] + Due(l, v)'
                      /\ ToTrim(x, l)' =>
                            counted'[l][v] <= cut'[l]
                                                + DueRead(l, v, list_length[x])'
                      /\ (pc'[x] = "lrange" /\ list'[x] = l
                            /\ v > trimmed'[l] + list_length'[x])
                           => counted'[l][v] <= cut'[l]
    BY <1>1 DEF RecountInv
<1>4. /\ pushed[l] \in Nat /\ trimmed[l] \in Nat /\ cut[l] \in Nat
      /\ counted[l][v] \in Nat /\ v \in Nat
      /\ list[x] \in Lists /\ list_length[x] \in Nat
      /\ trimmed[l] <= pushed[l]
    BY <1>2, CountTypes
<1>5. cut[l] < MaxCuts =>
          /\ ~ ToTrim(x, l) => counted[l][v] <= cut[l] + Due(l, v)
          /\ ToTrim(x, l) =>
                counted[l][v] <= cut[l] + DueRead(l, v, list_length[x])
          /\ (pc[x] = "lrange" /\ list[x] = l
                /\ v > trimmed[l] + list_length[x])
               => counted[l][v] <= cut[l]
    BY DEF RecountInv
<1>6. v > pushed[l] => counted[l][v] = 0
    BY DEF NotPushed
<1>7. CASE \E k \in Lists : Push(k)
    BY <1>3, <1>5, <1>7 DEF Push, ToTrim, Due, DueRead
<1>8. CASE Llen(x)
    <2>1. /\ pc[x] = "llen" /\ pc'[x] = "lrange" /\ list' = list
          /\ list_length'[x] = llen(list[x])
          /\ UNCHANGED <<pushed, trimmed, counted, cut>>
        BY <1>2, <1>8 DEF Llen, Goto, queueVars, TypeInv, TypeOK
    <2>2. counted[l][v] <= cut[l] + Due(l, v)
        BY <1>3, <1>5, <2>1 DEF ToTrim
    <2>3. CASE list[x] = l
        <3>1. list_length'[x] = pushed[l] - trimmed[l]
            BY <2>1, <2>3 DEF llen
        <3>2. v > trimmed[l] + list_length'[x] => counted[l][v] = 0
            BY <1>4, <1>6, <3>1
        <3> QED BY <1>4, <2>1, <2>2, <3>2 DEF ToTrim, Due
    <2>4. CASE list[x] # l
        BY <2>1, <2>2, <2>4 DEF ToTrim, Due
    <2> QED BY <2>3, <2>4
<1>9. CASE Lrange(x)
    <2>1. /\ pc[x] = "lrange" /\ pc'[x] = "ltrim"
          /\ UNCHANGED <<pushed, trimmed, list, list_length, cut>>
          /\ counted'[l][v] = IF list[x] = l /\ v \in lrange(l, list_length[x])
                              THEN Counted(counted[l][v]) ELSE counted[l][v]
        BY <1>2, <1>9, <1>4 DEF Lrange, Goto, TypeInv, TypeOK
    <2>2. /\ counted[l][v] <= cut[l] + Due(l, v)
          /\ (list[x] = l /\ v > trimmed[l] + list_length[x])
               => counted[l][v] <= cut[l]
        BY <1>3, <1>5, <2>1 DEF ToTrim
    <2>3. CASE list[x] = l
        <3>1. v \in lrange(l, list_length[x]) =>
                  trimmed[l] < v /\ v <= trimmed[l] + list_length[x] + 1
            BY DEF lrange
        <3>2. Counted(counted[l][v]) <= counted[l][v] + 1
            BY <1>4, Bounds DEF Counted
        <3>3. /\ counted'[l][v] \in {counted[l][v], Counted(counted[l][v])}
              /\ counted'[l][v] # counted[l][v] =>
                    trimmed[l] < v /\ v <= trimmed[l] + list_length[x] + 1
            BY <2>1, <3>1
        <3>4. Counted(counted[l][v]) \in Nat
            BY <1>4, Bounds DEF Counted
        <3>5. counted'[l][v] <= cut[l] + DueRead(l, v, list_length[x])
            <4>1. CASE counted'[l][v] = counted[l][v]
                BY <1>4, <2>2, <4>1 DEF Due, DueRead
            <4>2. CASE counted'[l][v] # counted[l][v]
                <5>1. /\ counted'[l][v] <= counted[l][v] + 1
                      /\ counted'[l][v] \in Nat
                      /\ trimmed[l] < v /\ v <= trimmed[l] + list_length[x] + 1
                    BY <3>2, <3>3, <3>4, <4>2
                <5>2. CASE v = trimmed[l] + 1 /\ list_length[x] > 0
                    BY <1>4, <2>2, <5>1, <5>2 DEF Due, DueRead
                <5>3. CASE v = trimmed[l] + 1 /\ list_length[x] = 0
                    BY <1>4, <2>2, <2>3, <5>1, <5>3 DEF Due, DueRead
                <5>4. CASE v > trimmed[l] + 1
                    BY <1>4, <2>2, <5>1, <5>4 DEF Due, DueRead
                <5> QED BY <1>4, <5>1, <5>2, <5>3, <5>4
            <4> QED BY <4>1, <4>2
        <3> QED BY <2>1, <2>3, <3>5 DEF ToTrim, DueRead
    <2>4. CASE list[x] # l
        BY <2>1, <2>2, <2>4 DEF ToTrim, Due
    <2> QED BY <2>3, <2>4
<1>10. CASE Ltrim(x)
    <2>1. /\ pc[x] = "ltrim" /\ pc'[x] \notin {"lrange", "ltrim"}
          /\ UNCHANGED <<pushed, counted, cut>>
          /\ trimmed'[l] = IF list[x] = l THEN ltrim(l, list_length[x])
                           ELSE trimmed[l]
        BY <1>2, <1>4, <1>10 DEF Ltrim, Goto, TypeInv, TypeOK
    <2>2. CASE list[x] = l
        <3>1. trimmed[l] + list_length[x] <= pushed[l]
            BY <2>1, <2>2 DEF LengthFits
        <3>2. trimmed'[l] = trimmed[l] + list_length[x]
            BY <1>4, <2>1, <2>2, <3>1 DEF ltrim, llen
        <3>3. counted[l][v] <= cut[l] + DueRead(l, v, list_length[x])
            BY <1>3, <1>5, <2>1, <2>2 DEF ToTrim
        <3>4. DueRead(l, v, list_length[x]) <= Due(l, v)'
              /\ DueRead(l, v, list_length[x]) \in Nat /\ Due(l, v)' \in Nat
            BY <1>4, <3>2 DEF Due, DueRead
        <3>5. counted[l][v] <= cut[l] + Due(l, v)'
            BY <1>4, <3>3, <3>4
        <3> QED BY <2>1, <3>5 DEF ToTrim
    <2>3. CASE list[x] # l
        <3>1. counted[l][v] <= cut[l] + Due(l, v)
            BY <1>3, <1>5, <2>1, <2>3 DEF ToTrim
        <3> QED BY <2>1, <2>3, <3>1 DEF ToTrim, Due
    <2> QED BY <2>2, <2>3
<1>11. CASE RedisDown(x) \/ Kill(x)
    <2>1. pc'[x] \notin {"lrange", "ltrim"} /\ UNCHANGED queueVars
        BY <1>2, <1>11 DEF RedisDown, Kill, Goto, TypeInv, TypeOK
    <2>2. Cut(x)
        BY <1>11 DEF RedisDown, Kill
    <2>3. CASE ToTrim(x, l)
        <3>1. cut[l] < MaxCuts /\ cut'[l] = cut[l] + 1
            BY <1>2, <1>3, <1>4, <2>2, <2>3, Bounds DEF Cut, ToTrim, TypeInv, TypeOK
        <3>2. counted[l][v] <= cut[l] + DueRead(l, v, list_length[x])
            BY <1>5, <2>3, <3>1
        <3>3. DueRead(l, v, list_length[x]) <= Due(l, v) + 1
            BY <1>4 DEF Due, DueRead
        <3> QED BY <1>4, <2>1, <3>1, <3>2, <3>3 DEF ToTrim, Due, DueRead, queueVars
    <2>4. CASE ~ ToTrim(x, l)
        <3>1. cut'[l] = cut[l]
            BY <1>2, <1>4, <2>2, <2>4 DEF Cut, ToTrim, TypeInv, TypeOK
        <3> QED BY <1>3, <1>5, <2>1, <2>4, <3>1 DEF ToTrim, Due, queueVars
    <2> QED BY <2>3, <2>4
<1>12. CASE Probe(x) \/ WakeUp(x) \/ ProbeCrash(x) \/ Restart(x)
    <2>1. /\ pc'[x] \notin {"lrange", "ltrim"} /\ pc[x] \notin {"lrange", "ltrim"}
          /\ UNCHANGED <<queueVars, cut>>
        BY <1>2, <1>12
        DEF Probe, Ping, ProbeCreate, ProbeFails, ProbeDelete, ProbeReturns,
            WakeUp, ProbeCrash, Restart, Running, Goto, TypeInv, TypeOK
    <2> QED BY <1>3, <1>5, <2>1 DEF ToTrim, Due, queueVars
<1>13. CASE UNCHANGED vars
    BY <1>3, <1>5, <1>13 DEF vars, queueVars, ToTrim, Due, DueRead
<1> QED
    BY <1>1, <1>7, <1>8, <1>9, <1>10, <1>11, <1>12, <1>13
    DEF Next, CalmNext, CalmStep, Move

\* One exporter counts no value more than twice, and once more for every round
\* that ended between LRANGE and LTRIM.
THEOREM RecountsAreFew == Spec => []Recounts
<1>1. CASE OneExporter
    <2>1. CountInv /\ [Next]_vars => CountInv'
        BY <1>1, LossStep, NotPushedStep, RecountStep DEF CountInv, LossInv
    <2>2. CountInv => Recounts
        <3> SUFFICES ASSUME CountInv, NEW l \in Lists, NEW v \in Values,
                            cut[l] < MaxCuts
                     PROVE  counted[l][v] <= cut[l] + 2
            BY DEF Recounts
        <3>1. PICK x \in Exporters : TRUE
            BY <1>1 DEF OneExporter
        <3>2. /\ ~ ToTrim(x, l) => counted[l][v] <= cut[l] + Due(l, v)
              /\ ToTrim(x, l) =>
                    counted[l][v] <= cut[l] + DueRead(l, v, list_length[x])
            BY DEF CountInv, RecountInv
        <3> QED BY <3>1, <3>2, CountTypes
                DEF CountInv, LossInv, Due, DueRead
    <2> QED BY CountInit, <2>1, <2>2, PTL DEF Spec
<1>2. CASE ~ OneExporter
    <2>1. Recounts
        BY <1>2 DEF Recounts
    <2> QED BY <2>1, PTL
<1> QED BY <1>1, <1>2

----------------------------------------------------------------------------
(* The lists and the counters of one exporter implement MetricsQueue.      *)

Queued  == [l \in Lists |-> {v \in Values : trimmed[l] < v /\ v <= pushed[l]}]
Tallied == [l \in Lists |-> {v \in Values : counted[l][v] > 0}]

LEMMA QueueInit == Init => Queue!Init
<1> SUFFICES ASSUME Init PROVE Queue!Init
    OBVIOUS
<1>1. pushed = [l \in Lists |-> 0]
    BY DEF Init
<1>2. Queued = [l \in Lists |-> {}]
    BY DEF Init, Queued, Values
<1>3. Tallied = [l \in Lists |-> {}]
    BY DEF Init, Tallied
<1> QED BY <1>1, <1>2, <1>3 DEF Queue!Init, Queued, Tallied

\* RPUSH records the next value.
LEMMA PushRecords ==
    ASSUME TypeInv, NEW l \in Lists, Push(l) PROVE Queue!Record(l)
<1>1. /\ pushed[l] \in Nat /\ trimmed[l] \in Nat
      /\ trimmed[l] <= pushed[l] /\ pushed[l] < MaxValues
      /\ pushed' = [pushed EXCEPT ![l] = pushed[l] + 1]
    BY Bounds, PushBound DEF Push, TypeInv, TypeOK, TrimBelowPush
<1>2. Tallied' = Tallied
    BY DEF Push, Tallied
<1>3. \A k \in Lists : k # l => pushed'[k] = pushed[k]
    BY <1>1 DEF TypeInv, TypeOK
<1>4. pushed'[l] = pushed[l] + 1
    BY <1>1 DEF TypeInv, TypeOK
<1>5. Queued'[l] = Queued[l] \cup {pushed[l] + 1}
    BY <1>1, <1>4, Bounds DEF Queued, Push, Values
<1>6. Queued' = [Queued EXCEPT ![l] = Queued[l] \cup {pushed[l] + 1}]
    BY <1>3, <1>5 DEF Queued, Push
<1> QED BY <1>1, <1>2, <1>6 DEF Queue!Record, Queued, Tallied

\* The values that LRANGE returned are counted.
LEMMA LrangeCounts ==
    ASSUME TypeInv, NEW e \in Exporters, Lrange(e) PROVE Queue!Next
<1> DEFINE l == list[e]
           S == lrange(l, list_length[e])
<1>1. l \in Lists
    BY DEF TypeInv, TypeOK
<1>2. S \subseteq Values /\ S \subseteq Queued[l]
    BY <1>1 DEF lrange, Queued
<1>3. UNCHANGED <<pushed, Queued>>
    BY DEF Lrange, Queued
<1>4. \A k \in Lists : \A v \in Values : counted[k][v] \in 0 .. MaxCount
    BY DEF TypeInv, TypeOK
<1>5. counted' = [counted EXCEPT ![l] = [v \in Values |->
                    IF v \in S THEN Counted(counted[l][v])
                    ELSE counted[l][v]]]
    BY DEF Lrange
<1> HIDE DEF S
<1>6. Tallied'[l] = Tallied[l] \cup S
    BY <1>1, <1>2, <1>4, <1>5, CountedFacts DEF Tallied, TypeInv, TypeOK
<1>7. \A k \in Lists : k # l => Tallied'[k] = Tallied[k]
    BY <1>1, <1>5 DEF Tallied, TypeInv, TypeOK
<1>8. Tallied' = [Tallied EXCEPT ![l] = Tallied[l] \cup S]
    BY <1>6, <1>7 DEF Tallied
<1>9. PICK k \in Lists, T \in SUBSET (1 .. MaxValues) :
        /\ T \subseteq Queued[k]
        /\ Tallied' = [Tallied EXCEPT ![k] = Tallied[k] \cup T]
    BY <1>1, <1>2, <1>8 DEF Values
<1>10. Queue!Count(k, T)
    BY <1>3, <1>9 DEF Queue!Count, Queued, Tallied
<1> QED BY <1>10 DEF Queue!Next

\* LTRIM discards values that were counted.
LEMMA LtrimDiscards ==
    ASSUME LossInv, NoLoss', NEW e \in Exporters, Ltrim(e) PROVE Queue!Next
<1> DEFINE l == list[e]
           kept == ltrim(l, list_length[e])
           S == {v \in Values : v <= kept}
<1>1. l \in Lists /\ list_length[e] \in Nat /\ pushed[l] \in Nat
    BY Bounds DEF LossInv, TypeInv, TypeOK
<1>2. kept \in Nat /\ trimmed[l] \in Nat /\ trimmed[l] <= kept
    BY <1>1, QueueFacts, Bounds DEF LossInv, TypeInv, TypeOK
<1>3. trimmed' = [trimmed EXCEPT ![l] = kept] /\ UNCHANGED <<pushed, counted>>
    BY DEF Ltrim
<1> HIDE DEF kept
<1>4. S \subseteq Tallied[l]
    BY <1>1, <1>3 DEF Tallied, NoLoss, LossInv, TypeInv, TypeOK
<1>5. Queued'[l] = Queued[l] \ S
    <2>1. Values \subseteq Int
        BY DEF Values
    <2>2. trimmed'[l] = kept
        BY <1>1, <1>3 DEF LossInv, TypeInv, TypeOK
    <2>3. ASSUME NEW v \in Values
          PROVE (kept < v /\ v <= pushed[l])
                  <=> (trimmed[l] < v /\ v <= pushed[l] /\ ~ (v <= kept))
        BY <1>1, <1>2, <2>1
    <2>4. Queued'[l] = {v \in Values : kept < v /\ v <= pushed[l]}
        BY <1>1, <1>3, <2>2 DEF Queued
    <2>5. Queued[l] = {v \in Values : trimmed[l] < v /\ v <= pushed[l]}
        BY <1>1 DEF Queued
    <2> QED BY <2>3, <2>4, <2>5
<1>6. \A k \in Lists : k # l => Queued'[k] = Queued[k]
    BY <1>1, <1>3 DEF Queued, LossInv, TypeInv, TypeOK
<1>7. Queued' = [Queued EXCEPT ![l] = Queued[l] \ S]
    BY <1>5, <1>6 DEF Queued
<1>8. Tallied' = Tallied
    BY <1>3 DEF Tallied
<1> HIDE DEF S
<1>9. PICK k \in Lists, T \in SUBSET (1 .. MaxValues) :
        /\ T \subseteq Tallied[k]
        /\ Queued' = [Queued EXCEPT ![k] = Queued[k] \ T]
    <2>1. S \subseteq 1 .. MaxValues
        BY DEF S, Values
    <2> QED BY <1>1, <1>4, <1>7, <2>1
<1>10. Queue!Discard(k, T)
    BY <1>3, <1>8, <1>9 DEF Queue!Discard, Queued, Tallied
<1> QED BY <1>10 DEF Queue!Next

LEMMA QueueStep ==
    ASSUME LossInv, LossInv', [Next]_vars PROVE [Queue!Next]_Queue!vars
<1>1. ASSUME NEW l \in Lists, Push(l) PROVE Queue!Next
    BY <1>1, PushRecords DEF LossInv, Queue!Next
<1>2. ASSUME NEW e \in Exporters, Lrange(e) PROVE Queue!Next
    BY <1>2, LrangeCounts DEF LossInv
<1>3. ASSUME NEW e \in Exporters, Ltrim(e) PROVE Queue!Next
    BY <1>3, LtrimDiscards DEF LossInv
<1>4. ASSUME UNCHANGED queueVars PROVE UNCHANGED Queue!vars
    BY <1>4 DEF queueVars, Queue!vars
<1>5. ASSUME NEW e \in Exporters,
             Probe(e) \/ Llen(e) \/ WakeUp(e) \/ RedisDown(e)
                \/ ProbeCrash(e) \/ Kill(e) \/ Restart(e)
      PROVE UNCHANGED queueVars
    BY <1>5 DEF Probe, Ping, ProbeCreate, ProbeFails, ProbeDelete, ProbeReturns,
                Llen, WakeUp, RedisDown, ProbeCrash, Kill, Restart
<1>6. CASE UNCHANGED vars
    BY <1>4, <1>6 DEF vars
<1> QED
    BY <1>1, <1>2, <1>3, <1>4, <1>5, <1>6
    DEF Next, CalmNext, CalmStep, Move

\* One exporter implements the queue: values stay in a list until they were
\* counted, and nothing is counted that was not pushed.
THEOREM ImplementsQueue == OneExporter => (Spec => KeepsUntilCounted)
<1> SUFFICES ASSUME OneExporter PROVE Spec => KeepsUntilCounted
    OBVIOUS
<1>1. LossInv /\ [Next]_vars => LossInv'
    BY LossStep
<1>2. LossInv /\ LossInv' /\ [Next]_vars => [Queue!Next]_Queue!vars
    BY QueueStep
<1> QED
    BY LossInit, QueueInit, <1>1, <1>2, PTL DEF Spec, KeepsUntilCounted, Queue!Spec

=============================================================================
