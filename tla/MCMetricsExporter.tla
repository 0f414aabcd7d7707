-------------------------- MODULE MCMetricsExporter --------------------------
(* Small instances of MetricsExporter for TLC.                             *)
EXTENDS MetricsExporterProps

\* How many values the web servers push to each list.
TwoAndOne == [l \in Lists |-> 3 - l]
Three     == [l \in Lists |-> 3]

=============================================================================
