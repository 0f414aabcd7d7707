-------------------------- MODULE MCDeviceRegistry --------------------------
(* Small instances of DeviceRegistry for TLC: one user, an iPhone and an   *)
(* Android phone.                                                          *)
EXTENDS DeviceRegistryProps

CONSTANTS u1, ios, droid, regA, regB, delA, chk1, chk2, call1

OneUser   == [r \in Requests |-> u1]
TokenMap  == [r \in Registers \cup Deletes |-> IF r = regB THEN droid ELSE ios]
SandboxMap  == [r \in Registers |-> r = regA]
PlatformMap == [t \in Tokens |-> IF t = droid THEN "android" ELSE "apns"]
=============================================================================
