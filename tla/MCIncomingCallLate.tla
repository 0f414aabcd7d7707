------------------------- MODULE MCIncomingCallLate -------------------------
(* Small instances of IncomingCallLate for TLC.                            *)
EXTENDS IncomingCallLate

CONSTANTS u1, k1

OneUser == [c \in Calls |-> u1]
OneKey  == [c \in Calls |-> k1]
Android == [u \in Users |-> "android"]

=============================================================================
