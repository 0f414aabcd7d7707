--------------------------- MODULE DeviceRegistry ---------------------------
(***************************************************************************)
(* The Device table and the handlers that write it: DeviceView.post and    *)
(* DeviceView.delete, CheckInView.post, and the push thread of a call,     *)
(* which deletes a device that Firebase no longer knows.                   *)
(*                                                                         *)
(* A handler reads a row into an object of its own (dev), and later writes *)
(* the whole object back or deletes by primary key; every database call is *)
(* a step, so handlers on several servers act on copies that are stale.    *)
(* The app of a device is that of its token, its remaining details are     *)
(* those written along with sandbox.  A request that is answered logs with *)
(* the device, and that call may raise (module Logentries).                *)
(***************************************************************************)
EXTENDS FiniteSets

CONSTANTS
    Users, Tokens,
    Registers, Deletes, CheckIns, Pushes,   \* requests, each handled once
    UserOf,         \* the sip_user_id of a request
    TokenOf,        \* the token of a registration or a deletion
    SandboxOf,      \* the sandbox flag of a registration
    PlatformOf      \* the platform of the app a token belongs to

Requests == Registers \cup Deletes \cup CheckIns \cup Pushes

\* A request is of one kind.
ASSUME RequestAssumption ==
    /\ Registers \cap (Deletes \cup CheckIns \cup Pushes) = {}
    /\ Deletes \cap (CheckIns \cup Pushes) = {}
    /\ CheckIns \cap Pushes = {}
    /\ \A r \in Requests : UserOf[r] \in Users
    /\ TokenOf \in [Registers \cup Deletes -> Tokens]
    /\ SandboxOf \in [Registers -> BOOLEAN]
    /\ PlatformOf \in [Tokens -> {"apns", "gcm", "android"}]
    /\ "none" \notin Tokens
    /\ {"none", "unknown"} \cap Registers = {}

VARIABLES
    row,        \* the Device table
    pc,         \* where the handler of a request is
    dev,        \* its Device object
    created,    \* what its update_or_create returned
    status,     \* its HTTP status
    notified,   \* tokens that task_notify_old_token was called for
    refused,    \* history: calls whose token the push service refused
    intent,     \* history: the request that last settled a user's device
    overlapped, \* history: requests that had to do with a row at one time
    bereft      \* history: requests about to save a device removed since

historyVars == <<intent, overlapped, bereft>>
vars == <<row, pc, dev, created, status, notified, refused, historyVars>>

NoRow == [token |-> "none", sandbox |-> FALSE, last_seen |-> "never"]
Rows  == [token : Tokens \cup {"none"}, sandbox : BOOLEAN,
          last_seen : Requests \cup {"never"}]

Registered(u) == row[u] # NoRow

Init ==
    /\ row = [u \in Users |-> NoRow]
    /\ pc = [r \in Requests |-> "idle"]
    /\ dev = [r \in Requests |-> NoRow]
    /\ created = [r \in Registers |-> FALSE]
    /\ status = [r \in Requests |-> 0]
    /\ notified = {}
    /\ refused = {}
    /\ intent = [u \in Users |-> "none"]
    /\ overlapped = {}
    /\ bereft = {}

Write(r, device) == row' = [row EXCEPT ![UserOf[r]] = device]
Hold(r, device)  == dev' = [dev EXCEPT ![r] = device]
Goto(r, label)   == pc' = [pc EXCEPT ![r] = label]

Return(r, code) ==
    /\ Goto(r, "done")
    /\ status' = [status EXCEPT ![r] = code]

\* An answer after a log line.
Answer(r, code) == \E c \in {code, 500} : Return(r, c)

\* History: what a request leaves behind is certain when no other one of its
\* user was between two steps at the same time.
Settle(r, by) ==
    intent' = [intent EXCEPT ![UserOf[r]] = IF r \in overlapped THEN "unknown"
                                            ELSE by]

\* The data is not valid.  (What a check-in needs has been looked at before.)
Invalid(r) ==
    /\ pc[r] = "idle"
    /\ Return(r, 400)
    /\ UNCHANGED <<row, dev, created, notified, refused, intent>>

----------------------------------------------------------------------------
(* DeviceView.post                                                         *)

\* Mutant: the handler answers 204.
RegisterUnknownAppSilent(r) ==
    /\ pc[r] = "idle"
    /\ Return(r, 204)
    /\ UNCHANGED <<row, dev, created, notified, refused, intent>>

\* get_object_or_404(App, ...)
RegisterUnknownApp(r) ==
    /\ pc[r] = "idle"
    /\ Return(r, 404)
    /\ UNCHANGED <<row, dev, created, notified, refused, intent>>

\* if device.token != token: if not created: task_notify_old_token(...)
OldToken(r, device) ==
    {t \in {device.token} : t # TokenOf[r] /\ Registered(UserOf[r])}

\* update_or_create holds the row's lock: one step.  It writes the token of a
\* row that exists and leaves the rest of the row as it was.  The token of the
\* object it returns is compared with the posted one next.
RegisterUpdate(r) ==
    LET device == [row[UserOf[r]] EXCEPT !.token = TokenOf[r]]
    IN  /\ pc[r] = "idle"
        /\ Write(r, device)
        /\ Hold(r, device)
        /\ created' = [created EXCEPT ![r] = ~ Registered(UserOf[r])]
        /\ notified' = notified \cup OldToken(r, device)
        /\ Goto(r, "save")
        /\ UNCHANGED <<status, refused, intent>>

\* Mutant: the second write leaves the token out (update_fields).
RegisterSaveDetails(r) ==
    /\ pc[r] = "save"
    /\ Write(r, [row[UserOf[r]] EXCEPT !.sandbox = SandboxOf[r],
                                       !.last_seen = r])
    /\ Answer(r, IF created[r] THEN 201 ELSE 200)
    /\ Settle(r, r)
    /\ UNCHANGED <<dev, created, notified, refused>>

\* device.save() writes every field, and inserts the row if it is gone.
RegisterSave(r) ==
    /\ pc[r] = "save"
    /\ Write(r, [token |-> TokenOf[r], sandbox |-> SandboxOf[r],
                 last_seen |-> r])
    /\ Answer(r, IF created[r] THEN 201 ELSE 200)
    /\ Settle(r, r)
    /\ UNCHANGED <<dev, created, notified, refused>>

\* The database raises.
RegisterFail(r) ==
    /\ pc[r] \in {"idle", "save"}
    /\ Return(r, 500)
    /\ IF pc[r] = "save" THEN Settle(r, "unknown") ELSE UNCHANGED intent
    /\ UNCHANGED <<row, dev, created, notified, refused>>

----------------------------------------------------------------------------
(* DeviceView.delete                                                       *)

Matches(r) == Registered(UserOf[r]) /\ row[UserOf[r]].token = TokenOf[r]

DeleteGet(r) ==
    /\ pc[r] = "idle"
    /\ Matches(r)
    /\ Hold(r, row[UserOf[r]])
    /\ Goto(r, "delete")
    /\ UNCHANGED <<row, created, status, notified, refused, intent>>

DeleteMissing(r) ==
    /\ pc[r] = "idle"
    /\ ~ Matches(r)
    /\ Return(r, 404)
    /\ UNCHANGED <<row, dev, created, notified, refused, intent>>

\* device.delete() deletes by primary key, the sip_user_id.
DeleteRow(r) ==
    /\ pc[r] = "delete"
    /\ Write(r, NoRow)
    /\ Answer(r, 200)
    /\ Settle(r, "none")
    /\ UNCHANGED <<dev, created, notified, refused>>

DeleteFail(r) ==
    /\ pc[r] \in {"idle", "delete"}
    /\ Return(r, 500)
    /\ UNCHANGED <<row, dev, created, notified, refused, intent>>

----------------------------------------------------------------------------
(* CheckInView.post                                                        *)

\* Mutant: the check-in saves an object of its own, with default details.
CheckInGetDefaults(r) ==
    /\ pc[r] = "idle"
    /\ Registered(UserOf[r])
    /\ Hold(r, [NoRow EXCEPT !.token = row[UserOf[r]].token, !.last_seen = r])
    /\ Goto(r, "save")
    /\ UNCHANGED <<row, created, status, notified, refused, intent>>

\* Mutant: a check-in of a device that is not there goes on (get_or_create).
CheckInGetOrCreate(r) ==
    /\ pc[r] = "idle"
    /\ Hold(r, [row[UserOf[r]] EXCEPT !.last_seen = r])
    /\ Goto(r, "save")
    /\ UNCHANGED <<row, created, status, notified, refused, intent>>

CheckInGet(r) ==
    /\ pc[r] = "idle"
    /\ Registered(UserOf[r])
    /\ Hold(r, [row[UserOf[r]] EXCEPT !.last_seen = r])
    /\ Goto(r, "save")
    /\ UNCHANGED <<row, created, status, notified, refused, intent>>

CheckInMissing(r) ==
    /\ pc[r] = "idle"
    /\ ~ Registered(UserOf[r])
    /\ Return(r, 404)
    /\ UNCHANGED <<row, dev, created, notified, refused, intent>>

CheckInSave(r) ==
    /\ pc[r] = "save"
    /\ Write(r, dev[r])
    /\ Return(r, 200)
    /\ Settle(r, intent[UserOf[r]])
    /\ UNCHANGED <<dev, created, notified, refused>>

CheckInFail(r) ==
    /\ pc[r] \in {"idle", "save"}
    /\ Return(r, 500)
    /\ UNCHANGED <<row, dev, created, notified, refused, intent>>

----------------------------------------------------------------------------
(* The device of an incoming call: looked up by IncomingCallView.post, used *)
(* and perhaps deleted by the thread that sends the push.                   *)

CallLookup(r) ==
    /\ pc[r] = "idle"
    /\ Registered(UserOf[r])
    /\ Hold(r, row[UserOf[r]])
    /\ Goto(r, "push")
    /\ UNCHANGED <<row, created, status, notified, refused, intent>>

\* The push is delivered, or fails for a reason that is not the token's, or
\* an exception ends the thread.
PushEnds(r) ==
    /\ pc[r] \in {"push", "remove"}
    /\ Goto(r, "done")
    /\ UNCHANGED <<row, dev, created, status, notified, refused, intent>>

\* The service says the token is not registered or bad: Firebase's answer
\* leads to a deletion, those of APNs and GCM are logged.
PushRefused(r) ==
    /\ pc[r] = "push"
    /\ refused' = refused \cup {r}
    /\ Goto(r, IF PlatformOf[dev[r].token] = "android" THEN "remove" ELSE "done")
    /\ UNCHANGED <<row, dev, created, status, notified, intent>>

PushRemove(r) ==
    /\ pc[r] = "remove"
    /\ Write(r, NoRow)
    /\ Goto(r, "done")
    /\ Settle(r, "none")
    /\ UNCHANGED <<dev, created, status, notified, refused>>

----------------------------------------------------------------------------
RegisterStep(r) == Invalid(r) \/ RegisterUnknownApp(r) \/ RegisterUpdate(r)
                      \/ RegisterSave(r) \/ RegisterFail(r)
DeleteStep(r)   == Invalid(r) \/ DeleteGet(r) \/ DeleteMissing(r)
                      \/ DeleteRow(r) \/ DeleteFail(r)
CheckInStep(r)  == CheckInGet(r) \/ CheckInMissing(r) \/ CheckInSave(r)
                      \/ CheckInFail(r)
PushStep(r)     == CallLookup(r) \/ PushEnds(r) \/ PushRefused(r)
                      \/ PushRemove(r)

Step(r) ==
    \/ r \in Registers /\ RegisterStep(r)
    \/ r \in Deletes /\ DeleteStep(r)
    \/ r \in CheckIns /\ CheckInStep(r)
    \/ r \in Pushes /\ PushStep(r)

InFlight(r) == pc[r] \notin {"idle", "done"}

\* The step at hand takes the row of u out of the table.
Removes(u) == Registered(u) /\ ~ Registered(u)'

\* History: a request that gets going meets the others of its user that have,
\* and one that removes a row takes it from those that are about to save it.
Meet(r) ==
    LET others == {q \in Requests \ {r} : UserOf[q] = UserOf[r] /\ InFlight(q)}
    IN  /\ overlapped' = IF pc[r] = "idle" /\ InFlight(r)' /\ others # {}
                         THEN overlapped \cup others \cup {r} ELSE overlapped
        /\ bereft' = {q \in Requests : /\ pc'[q] = "save"
                                       /\ q \in bereft \/ Removes(UserOf[q])}

Next == \E r \in Requests : Step(r) /\ Meet(r)

Spec == Init /\ [][Next]_vars

=============================================================================
