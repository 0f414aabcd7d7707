---------------------------- MODULE CallDecision ----------------------------
(***************************************************************************)
(* What the incoming-call endpoint promises Asterisk: every call it takes  *)
(* up gets one decision, a call is accepted only when its phone said yes   *)
(* and refused only when it said no or can no longer be reached, and each  *)
(* decision is accounted for under its own name.  How the phone is woken   *)
(* and how its answer travels is left to the implementation, IncomingCall. *)
(* That a call which was taken up is decided in the end is liveness, and   *)
(* IncomingCallProps!EveryCallIsAnswered.                                  *)
(***************************************************************************)

CONSTANT Calls

VARIABLES
    outcome,    \* the decision about each call
    answers     \* what the phone has answered while the call was waiting

vars == <<outcome, answers>>

Answers == {"True", "False", "Removed"}

Init ==
    /\ outcome = [c \in Calls |-> "none"]
    /\ answers = [c \in Calls |-> {}]

Decided(c, o) ==
    /\ outcome' = [outcome EXCEPT ![c] = o]
    /\ UNCHANGED answers

\* A call of a registered user is taken up; any other is settled at once.
TakeUp(c) == outcome[c] = "none" /\ Decided(c, "waiting")

TurnDown(c) ==
    /\ outcome[c] = "none"
    /\ \E o \in {"missing", "uncounted", "invalid", "error"} : Decided(c, o)

\* One answer may reach several calls, those that share its unique_key.
Answer(group, a) ==
    /\ \A c \in group : outcome[c] = "waiting"
    /\ answers' = [c \in Calls |->
                      IF c \in group THEN answers[c] \cup {a} ELSE answers[c]]
    /\ UNCHANGED outcome

Accept(c) == "True" \in answers[c] /\ Decided(c, "accepted")
Refuse(c) == "False" \in answers[c] /\ Decided(c, "refused")
Remove(c) == "Removed" \in answers[c] /\ Decided(c, "removed")
GiveUp(c) == \E o \in {"timeout", "error"} : Decided(c, o)

Decide(c) ==
    /\ outcome[c] = "waiting"
    /\ Accept(c) \/ Refuse(c) \/ Remove(c) \/ GiveUp(c)

Next ==
    \/ \E c \in Calls : TakeUp(c) \/ TurnDown(c) \/ Decide(c)
    \/ \E group \in SUBSET Calls, a \in Answers : Answer(group, a)

Spec == Init /\ [][Next]_vars

=============================================================================
