------------------------ MODULE MetricsExporterProps ------------------------
(***************************************************************************)
(* What must be true of the metrics pipeline (module MetricsExporter).     *)
(***************************************************************************)
EXTENDS MetricsExporter

\* Every variable has its type.
TypeOK ==
    /\ pushed \in [Lists -> 0 .. MaxValues]
    /\ trimmed \in [Lists -> 0 .. MaxValues]
    /\ counted \in [Lists -> [Values -> 0 .. MaxCount]]
    /\ pc \in [Exporters -> PCs]
    /\ list \in [Exporters -> Lists]
    /\ list_length \in [Exporters -> 0 .. MaxValues]
    /\ redis \in [Exporters -> {"up", "down"}]
    /\ redis_health \in [Exporters -> {0, 1}]
    /\ mysql_health \in [Exporters -> {0, 1}]
    /\ leftover \subseteq Exporters
    /\ cut \in [Lists -> 0 .. MaxCuts]

\* One exporter alone empties the lists.
OneExporter == \E e \in Exporters : Exporters = {e}

\* "We are keeping all of the values we did not yet process in the list"
\* (prometheus.py 202): a value that was removed from a list was counted.
\* It holds when one exporter empties the lists, whichever commands of Redis
\* fail, provided that none is applied twice.
NoLoss ==
    \A l \in Lists : \A v \in Values : v <= trimmed[l] => counted[l][v] > 0

\* LRANGE is given the length of the list as its last index, so it may read one
\* value more than LTRIM drops (prometheus.py 184, 206).  That value is counted
\* again in the next round, but never a third time, and a value is counted once
\* more only for a round that ended between LRANGE and LTRIM (no command being
\* applied twice).
Recounts ==
    OneExporter => \A l \in Lists : \A v \in Values :
                       cut[l] < MaxCuts => counted[l][v] <= cut[l] + 2

\* Every value that was pushed is counted in the end, unless the exporter
\* stops first, even though Redis errors may cut rounds short.
EveryValueCounted ==
    \A l \in Lists : \A v \in Values :
        v <= pushed[l] ~> \/ counted[l][v] > 0
                          \/ \E e \in Exporters : ~ Running(e)

----------------------------------------------------------------------------
(* Refinement of MetricsQueue.                                             *)

Queue == INSTANCE MetricsQueue WITH
    recorded <- pushed,
    queued   <- [l \in Lists |-> {v \in Values : trimmed[l] < v
                                                 /\ v <= pushed[l]}],
    counted  <- [l \in Lists |-> {v \in Values : counted[l][v] > 0}]

KeepsUntilCounted == Queue!Spec

=============================================================================
