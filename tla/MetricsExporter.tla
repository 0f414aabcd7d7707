-------------------------- MODULE MetricsExporter ---------------------------
(***************************************************************************)
(* The Prometheus exporter: a loop beside every web server that probes     *)
(* Redis and MySQL, and moves the values the web servers pushed to Redis   *)
(* lists into its counters (main/prometheus/prometheus.py).                *)
(*                                                                         *)
(* The v-th value ever pushed to a list is the number v, so a Redis list   *)
(* is the interval trimmed + 1 .. pushed.  The seven lists are handled by  *)
(* seven functions of the same shape, in the order of Lists.               *)
(***************************************************************************)
EXTENDS Integers

CONSTANTS
    NumLists,       \* how many metric lists a round goes through
    Exporters,      \* exporter processes, one per container
    MaxPushed,      \* bound of the model: values pushed to each list
    MaxValues,      \* bound of the model: the greatest of these
    MaxCount,       \* bound of the model: a value counted more often than
                    \* this is not told apart
    MaxCuts         \* bound of the model: so many rounds that ended early, or
                    \* more, are not told apart

Lists  == 1 .. NumLists
Values == 1 .. MaxValues

ASSUME ExporterAssumption ==
    /\ NumLists \in Nat \ {0}
    /\ MaxValues \in Nat
    /\ MaxPushed \in [Lists -> 0 .. MaxValues]
    /\ MaxCount \in Nat /\ MaxCount > 0
    /\ MaxCuts \in Nat

VARIABLES
    pushed,         \* number of values web servers pushed to each list
    trimmed,        \* number of values LTRIM has removed from each list
    counted,        \* how often each value was counted, by all exporters
    pc,             \* where the loop of each exporter is
    list,           \* the list it is at
    list_length,    \* its local variable of that name
    redis,          \* what its last PING returned
    redis_health, mysql_health,     \* its gauges
    leftover,       \* exporters that left the ResponseLog row of a probe behind
    cut             \* history: how many rounds ended between the LRANGE and the
                    \* LTRIM of each list

queueVars == <<pushed, trimmed, counted>>
probeVars == <<redis, redis_health, mysql_health, leftover>>
vars == <<queueVars, pc, list, list_length, probeVars, cut>>

PCs == {"ping", "create", "delete", "llen", "lrange", "ltrim", "sleep", "dead",
        "killed"}

Init ==
    /\ pushed = [l \in Lists |-> 0]
    /\ trimmed = [l \in Lists |-> 0]
    /\ counted = [l \in Lists |-> [v \in Values |-> 0]]
    /\ pc = [e \in Exporters |-> "ping"]
    /\ list = [e \in Exporters |-> 1]
    /\ list_length = [e \in Exporters |-> 0]
    /\ redis = [e \in Exporters |-> "down"]
    /\ redis_health = [e \in Exporters |-> 0]
    /\ mysql_health = [e \in Exporters |-> 0]
    /\ leftover = {}
    /\ cut = [l \in Lists |-> 0]

----------------------------------------------------------------------------
(* Web servers: the RPUSH of a view.                                       *)

Push(l) ==
    /\ pushed[l] < MaxPushed[l]
    /\ pushed' = [pushed EXCEPT ![l] = @ + 1]
    /\ UNCHANGED <<trimmed, counted, pc, list, list_length, probeVars, cut>>

----------------------------------------------------------------------------
(* The Redis commands on list l.  A command takes effect once or, when it  *)
(* raises, not at all: no client sends it again after it was applied.      *)

llen(l) == pushed[l] - trimmed[l]

\* Mutant: LRANGE l 1 stop.
lrangeFromOne(l, stop) == {v \in Values : trimmed[l] + 1 < v /\ v <= pushed[l]
                                          /\ v <= trimmed[l] + stop + 1}

\* LRANGE l 0 stop: the values at indices 0 to stop, stop included.
lrange(l, stop) == {v \in Values : trimmed[l] < v /\ v <= pushed[l]
                                   /\ v <= trimmed[l] + stop + 1}

\* Mutant: the last value that was counted is kept.
ltrimOneLess(l, start) ==
    IF start < llen(l) + 1
    THEN IF start = 0 THEN trimmed[l] ELSE trimmed[l] + start - 1
    ELSE pushed[l]

\* Mutant: DEL instead of LTRIM.
ltrimAll(l, start) == pushed[l]

\* LTRIM l start -1: drops the values before index start.
ltrim(l, start) ==
    IF start < llen(l) THEN trimmed[l] + start ELSE pushed[l]

----------------------------------------------------------------------------
(* The loop of exporter e.                                                 *)

Goto(e, label) == pc' = [pc EXCEPT ![e] = label]

\* The variables of a round go when it ends, those of a process when it ends.
EndRound(e) ==
    /\ list' = [list EXCEPT ![e] = 1]
    /\ list_length' = [list_length EXCEPT ![e] = 0]

EndProcess(e) ==
    /\ EndRound(e)
    /\ redis' = [redis EXCEPT ![e] = "down"]
    /\ redis_health' = [redis_health EXCEPT ![e] = 0]
    /\ mysql_health' = [mysql_health EXCEPT ![e] = 0]

Ping(e) ==
    /\ pc[e] = "ping"
    /\ \E answer \in {"up", "down"} : redis' = [redis EXCEPT ![e] = answer]
    /\ Goto(e, "create")
    /\ UNCHANGED <<queueVars, list, list_length, redis_health,
                   mysql_health, leftover, cut>>

Flag(state) == IF state = "up" THEN 1 ELSE 0

\* Both gauges are set once write_read_orm has returned, and the round begins.
ProbeReturns(e, orm) ==
    /\ redis_health' = [redis_health EXCEPT ![e] = Flag(redis[e])]
    /\ mysql_health' = [mysql_health EXCEPT ![e] = Flag(orm)]
    /\ Goto(e, "llen")
    /\ UNCHANGED <<queueVars, list, list_length, redis, leftover, cut>>

\* ResponseLog.objects.create
ProbeCreate(e) ==
    /\ pc[e] = "create"
    /\ Goto(e, "delete")
    /\ UNCHANGED <<queueVars, list, list_length, probeVars, cut>>

\* ensure_connection raises, or the insert raises a DatabaseError.
ProbeFails(e) == pc[e] = "create" /\ ProbeReturns(e, "down")

\* response_log.delete()
ProbeDelete(e) == pc[e] = "delete" /\ ProbeReturns(e, "up")

\* The delete raises: nothing catches it, the process ends and the row stays.
ProbeCrash(e) ==
    /\ pc[e] = "delete"
    /\ Goto(e, "dead")
    /\ leftover' = leftover \cup {e}
    /\ EndProcess(e)
    /\ UNCHANGED <<queueVars, cut>>

Llen(e) ==
    /\ pc[e] = "llen"
    /\ list_length' = [list_length EXCEPT ![e] = llen(list[e])]
    /\ Goto(e, "lrange")
    /\ UNCHANGED <<queueVars, list, probeVars, cut>>

Counted(n) == IF n < MaxCount THEN n + 1 ELSE MaxCount

\* The values read are counted one by one, with no other step in between.
Lrange(e) ==
    LET l == list[e]
        data_list == lrange(l, list_length[e])
    IN  /\ pc[e] = "lrange"
        /\ counted' = [counted EXCEPT ![l] =
                          [v \in Values |-> IF v \in data_list
                                            THEN Counted(counted[l][v])
                                            ELSE counted[l][v]]]
        /\ Goto(e, "ltrim")
        /\ UNCHANGED <<pushed, trimmed, list, list_length, probeVars, cut>>

NextList(e) ==
    /\ list' = [list EXCEPT ![e] = @ + 1]
    /\ list_length' = [list_length EXCEPT ![e] = 0]

\* Mutant: the round goes on past the last list.
LtrimPastLast(e) ==
    LET l == list[e]
    IN  /\ pc[e] = "ltrim"
        /\ trimmed' = [trimmed EXCEPT ![l] = ltrim(l, list_length[e])]
        /\ NextList(e)
        /\ Goto(e, IF l < NumLists THEN "llen" ELSE "sleep")
        /\ UNCHANGED <<pushed, counted, probeVars, cut>>

\* Mutant: the round ends with the first list.
LtrimFirstOnly(e) ==
    LET l == list[e]
    IN  /\ pc[e] = "ltrim"
        /\ trimmed' = [trimmed EXCEPT ![l] = ltrim(l, list_length[e])]
        /\ EndRound(e)
        /\ Goto(e, "sleep")
        /\ UNCHANGED <<pushed, counted, probeVars, cut>>

Ltrim(e) ==
    LET l == list[e]
    IN  /\ pc[e] = "ltrim"
        /\ trimmed' = [trimmed EXCEPT ![l] = ltrim(l, list_length[e])]
        /\ IF l < NumLists THEN NextList(e) /\ Goto(e, "llen")
                           ELSE EndRound(e) /\ Goto(e, "sleep")
        /\ UNCHANGED <<pushed, counted, probeVars, cut>>

\* Exporter e does not get to the LTRIM it had read for.
Cut(e) ==
    cut' = IF pc[e] = "ltrim" /\ cut[list[e]] < MaxCuts
           THEN [cut EXCEPT ![list[e]] = @ + 1] ELSE cut

\* A RedisError in any of the functions ends the round, whatever list it is at.
RedisDown(e) ==
    /\ pc[e] \in {"llen", "lrange", "ltrim"}
    /\ Goto(e, "sleep")
    /\ Cut(e)
    /\ EndRound(e)
    /\ UNCHANGED <<queueVars, probeVars>>

WakeUp(e) ==
    /\ pc[e] = "sleep"
    /\ Goto(e, "ping")
    /\ UNCHANGED <<queueVars, list, list_length, probeVars, cut>>

\* The container is stopped, and the exporter with it; the start script of
\* the next one starts a new exporter.
Running(e) == pc[e] \notin {"dead", "killed"}

Kill(e) ==
    /\ Running(e)
    /\ Goto(e, "killed")
    /\ leftover' = IF pc[e] = "delete" THEN leftover \cup {e} ELSE leftover
    /\ Cut(e)
    /\ EndProcess(e)
    /\ UNCHANGED queueVars

Restart(e) ==
    /\ ~ Running(e)
    /\ Goto(e, "ping")
    /\ UNCHANGED <<queueVars, list, list_length, probeVars, cut>>

----------------------------------------------------------------------------
Probe(e) == Ping(e) \/ ProbeCreate(e) \/ ProbeFails(e) \/ ProbeDelete(e)
Move(e)  == Llen(e) \/ Lrange(e) \/ Ltrim(e)

\* No command of Redis and no delete of a probe fails, and no exporter stops.
CalmStep(e) == Probe(e) \/ Move(e) \/ WakeUp(e)
CalmNext ==
    \/ \E l \in Lists : Push(l)
    \/ \E e \in Exporters : CalmStep(e)

Next ==
    \/ CalmNext
    \/ \E e \in Exporters :
          RedisDown(e) \/ ProbeCrash(e) \/ Kill(e) \/ Restart(e)

Spec     == Init /\ [][Next]_vars
CalmSpec == Init /\ [][CalmNext]_vars

\* The loop of a running exporter goes on, and a Redis command that is tried
\* again and again succeeds some time.
Fairness ==
    \A e \in Exporters :
        /\ WF_vars(Probe(e) \/ WakeUp(e))
        /\ \A l \in Lists :
              /\ SF_vars(list[e] = l /\ Llen(e))
              /\ SF_vars(list[e] = l /\ Lrange(e))
              /\ SF_vars(list[e] = l /\ Ltrim(e))

FairSpec == Spec /\ Fairness

=============================================================================
