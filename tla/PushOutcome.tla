---------------------------- MODULE PushOutcome -----------------------------
(***************************************************************************)
(* What the wake-up of a phone relies on of a push thread, and all it      *)
(* assumes of it (the push threads of IncomingCall): a push is sent, or it *)
(* fails; only Firebase makes it known that a token is gone, and then the  *)
(* call's cache entry is marked before the device is removed.  (A thread   *)
(* that has stamped its payload there is still spawned here.)              *)
(***************************************************************************)
CONSTANT Threads

VARIABLES
    outcome,        \* of the push of each thread
    platform        \* of the app of its device

vars == <<outcome, platform>>

States == {"spawned", "sent", "failed", "rejected", "marked", "removed"}

Init ==
    /\ outcome = [t \in Threads |-> "spawned"]
    /\ platform \in [Threads -> {"apns", "gcm", "android"}]

Become(t, from, to) ==
    /\ outcome[t] \in from
    /\ outcome' = [outcome EXCEPT ![t] = to]
    /\ UNCHANGED platform

Send(t)   == Become(t, {"spawned"}, "sent")
Fail(t)   == Become(t, {"spawned", "rejected", "marked"}, "failed")
Reject(t) == platform[t] = "android" /\ Become(t, {"spawned"}, "rejected")
Mark(t)   == Become(t, {"rejected"}, "marked")
Remove(t) == Become(t, {"marked"}, "removed")

Next == \E t \in Threads :
           Send(t) \/ Fail(t) \/ Reject(t) \/ Mark(t) \/ Remove(t)

Spec == Init /\ [][Next]_vars

=============================================================================
