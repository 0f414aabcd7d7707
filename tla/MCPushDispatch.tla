--------------------------- MODULE MCPushDispatch ---------------------------
(* Small instances of PushDispatch for TLC: devices of an app with a bad    *)
(* Logentries token, in both environments, and of apps with good ones.     *)
EXTENDS PushDispatchProps, TLC

Device(platform, app, sandbox, logsets) ==
    [platform |-> platform, app |-> app, sandbox |-> sandbox,
     logsets |-> logsets]

SharedDevices == {
    Device("apns", "a", FALSE, <<"bad">>),
    Device("apns", "a", TRUE, <<"good", "bad">>),
    Device("android", "b", FALSE, <<"bad">>),
    Device("gcm", "c", FALSE, <<"good">>)}

PartnerDevices == {
    Device("apns", "a", FALSE, <<"good", "partner">>),
    Device("android", "b", FALSE, <<"other">>)}

SymmetricThreads == Permutations(Threads)
=============================================================================
