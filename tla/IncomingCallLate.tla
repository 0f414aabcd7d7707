--------------------------- MODULE IncomingCallLate -------------------------
(***************************************************************************)
(* Late answers: IncomingCall with a history variable that compares the    *)
(* two clocks of a call.  The age of a push counts from its payload, made  *)
(* by a thread that was started before the deadline of the call was set.   *)
(***************************************************************************)
EXTENDS IncomingCallProps

VARIABLE lag        \* age of a call's first push when its deadline was set

lateVars == <<vars, lag>>

AgeOfFirst(c) == IF push[<<c, 1>>] \in Stamped THEN age[<<c, 1>>] ELSE 0

\* The step that sets the deadline measures; none is kept beyond the deadline.
Measure ==
    lag' = [c \in Calls |->
               IF pc[c] = "timers" /\ pc'[c] = "placeholder" THEN AgeOfFirst(c)
               ELSE IF remaining'[c] > 0 THEN lag[c] ELSE 0]

LateInit == Init /\ lag = [c \in Calls |-> 0]
LateNext == Next /\ Measure
LateSpec == LateInit /\ [][LateNext]_lateVars

FairLateSpec == LateSpec /\ Fairness

\* A phone is turned away (404, "responded too late") at the end of its call's
\* loop only.  The age of its push is measured by another clock than the
\* deadline of the loop, when its answer is in the cache already; so a call may
\* be put through whose phone was turned away, but only while the loop has no
\* more time left than the push was old when the deadline was set.
TurnedAwayAtTheEnd ==
    [][\A r \in Responses : \A c \in Calls :
          (resp[r].pc = "finish" /\ resp'[r].status = 404
             /\ KeyOf[c] = resp[r].key /\ pc[c] \in InLoop)
                => remaining[c] <= lag[c]]_lateVars

=============================================================================
