------------------------- MODULE DeviceRegistryProps ------------------------
(***************************************************************************)
(* What must be true of the Device table (module DeviceRegistry).          *)
(***************************************************************************)
EXTENDS DeviceRegistry

\* Every variable has its type.
TypeOK ==
    /\ row \in [Users -> Rows]
    /\ pc \in [Requests -> {"idle", "save", "delete", "push", "remove", "done"}]
    /\ dev \in [Requests -> Rows]
    /\ created \in [Registers -> BOOLEAN]
    /\ status \in [Requests -> {0, 200, 201, 400, 404, 500}]
    /\ notified \subseteq Tokens
    /\ refused \subseteq Pushes
    /\ intent \in [Users -> Registers \cup {"none", "unknown"}]
    /\ overlapped \subseteq Requests
    /\ bereft \subseteq Requests

\* The row is what one registration asked for, token and details alike.
From(r, device) ==
    device.token = TokenOf[r] /\ device.sandbox = SandboxOf[r]

\* Registration writes a row twice, first the token and then the rest.  A row
\* that mixes two registrations (the token of one phone, the sandbox of another)
\* belongs to a registration that is between the two writes or failed there, or
\* to a check-in that read it then and has written it back, however
\* registrations, deletions and removals by push threads interleave.
MixedRowOnlyDuringRegistration ==
    \A u \in Users : Registered(u) =>
        \/ \E r \in Registers : UserOf[r] = u /\ From(r, row[u])
        \/ \E r \in Registers : /\ UserOf[r] = u
                                /\ TokenOf[r] = row[u].token
                                /\ pc[r] = "save" \/ status[r] = 500
        \/ \E r \in CheckIns : /\ UserOf[r] = u
                               /\ status[r] = 200
                               /\ row[u] = dev[r]

\* A phone gets what it asked for last, once its requests no longer overlap:
\* registered with its last token and details, or not registered; neither its
\* check-ins nor calls to it change that, unless its token is found to be gone.
LastRequestHonoured ==
    \A u \in Users :
        (\A r \in Requests : UserOf[r] = u => ~ InFlight(r)) =>
            /\ intent[u] = "none" => ~ Registered(u)
            /\ intent[u] \in Registers => From(intent[u], row[u])

\* A device that is not in the table, never registered or removed by its phone
\* or for a token that is gone, gets there only by a registration whose first
\* write creates it (201), or by a registration or a check-in that read or wrote
\* it before and saves it back, the row having really been removed between the
\* two steps of that request.  No request that starts later brings it back.
RemovedStaysRemoved ==
    [][\A u \in Users : ~ Registered(u) /\ Registered(u)' =>
          \/ \E r \in Registers : /\ UserOf[r] = u
                                 /\ pc[r] = "idle" /\ pc'[r] = "save"
                                 /\ created'[r]
          \/ \E r \in bereft : UserOf[r] = u /\ pc'[r] = "done"]_vars

----------------------------------------------------------------------------
(* What the comments and the documentation say.                            *)

\* views.py 657: "Post view to update the last_seen field on a device": the
\* save of a check-in changes no other field and brings no device back.
CheckInOnlyUpdatesLastSeen ==
    [][\A r \in CheckIns :
          pc[r] = "save" /\ pc'[r] = "done" /\ status'[r] = 200
              => LET u == UserOf[r]
                 IN  row'[u] = [row[u] EXCEPT !.last_seen = row'[u].last_seen]]_vars

=============================================================================
