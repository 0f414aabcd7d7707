---------------------------- MODULE MetricsQueue ----------------------------
(***************************************************************************)
(* What the metrics pipeline promises: a value that a web server recorded  *)
(* stays queued until it has been counted, and every value is counted.  It *)
(* may be counted more than once.                                          *)
(***************************************************************************)
EXTENDS Naturals

CONSTANTS Lists, MaxValues

VARIABLES
    recorded,   \* how many values were recorded in each list: 1 .. recorded[l]
    queued,     \* those that are still in the list
    counted     \* those that some exporter has counted

vars == <<recorded, queued, counted>>

Init ==
    /\ recorded = [l \in Lists |-> 0]
    /\ queued = [l \in Lists |-> {}]
    /\ counted = [l \in Lists |-> {}]

Record(l) ==
    /\ recorded[l] < MaxValues
    /\ recorded' = [recorded EXCEPT ![l] = @ + 1]
    /\ queued' = [queued EXCEPT ![l] = @ \cup {recorded[l] + 1}]
    /\ UNCHANGED counted

Count(l, S) ==
    /\ S \subseteq queued[l]
    /\ counted' = [counted EXCEPT ![l] = @ \cup S]
    /\ UNCHANGED <<recorded, queued>>

Discard(l, S) ==
    /\ S \subseteq counted[l]
    /\ queued' = [queued EXCEPT ![l] = @ \ S]
    /\ UNCHANGED <<recorded, counted>>

Next ==
    \E l \in Lists :
        \/ Record(l)
        \/ \E S \in SUBSET (1 .. MaxValues) : Count(l, S) \/ Discard(l, S)

Spec == Init /\ [][Next]_vars

=============================================================================
