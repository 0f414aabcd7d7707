------------------------------ MODULE MCAppApi ------------------------------
(* Small instances of AppApi for TLC: two accounts, and the requests of one *)
(* phone or of two.                                                         *)
EXTENDS AppApiProps

CONSTANTS u1, u2, s1, ios, droid, regA, delA, call1

OneUser     == [r \in ApiRequests \cup Pushes |-> u1]
OneSystemuser == [r \in ApiRequests |-> s1]
TokenMap    == [r \in Registers \cup Deletes |-> droid]
SandboxMap  == [r \in Registers |-> r = regA]
PlatformMap == [t \in Tokens |-> IF t = droid THEN "android" ELSE "apns"]
=============================================================================
