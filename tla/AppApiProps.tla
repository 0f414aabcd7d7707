----------------------------- MODULE AppApiProps ----------------------------
(***************************************************************************)
(* What must be true of the requests of the app (module AppApi).           *)
(***************************************************************************)
EXTENDS AppApi

\* Every variable has its type, and a request has an account to look up when
\* its app account is asked for.
ApiTypeOK ==
    /\ app_account \in [Systemusers -> ApiUsers]
    /\ at \in [ApiRequests -> {"new", "log", "account", "granted", "denied", "done"}]
    /\ account \in [ApiRequests -> ApiUsers]
    /\ \A r \in ApiRequests : at[r] = "account" => account[r] # "none"
    /\ answer \in [ApiRequests -> {0, 200, 400, 401, 403, 404, 500, 503}]
    /\ \A e \in entries : e[1] \in DOMAIN Labels
    /\ owned \subseteq ApiRequests

\* A row of the device table changes only by a call that finds its token gone,
\* or by a request that the owner of the account made: one whose credentials
\* had the account when the request was taken up, even if VoIPGRID has given it
\* to somebody else by the time the row is written.
OnlyOwnersWrite ==
    [][\A u \in Users : row'[u] # row[u] =>
          \E r \in Requests : /\ UserOf[r] = u
                              /\ pc'[r] # pc[r]
                              /\ r \in Pushes \cup owned]_<<vars, apiVars>>

\* No report of an app ends the exporter for want of a key: an entry that the
\* API pushes, even for a report that it answers with a server error, has every
\* key that the exporter takes from the entries of that list.
EveryEntryIsCountable ==
    \A e \in entries : Labels[e[1]] \subseteq e[2]

=============================================================================
