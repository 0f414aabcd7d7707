--------------------------- MODULE MCIncomingCall ---------------------------
(* Small instances of IncomingCall for TLC.                                *)
EXTENDS IncomingCallProps, TLC

CONSTANTS c1, c2, u1, k1, k2

OneUser    == [c \in Calls |-> u1]
OneKey     == [c \in Calls |-> k1]
TwoKeys    == c1 :> k1 @@ c2 :> k2
Android    == [u \in Users |-> "android"]
Apple      == [u \in Users |-> "apns"]

SymmetricResponses == Permutations(Responses)
SymmetricCalls     == Permutations(Calls)
=============================================================================
