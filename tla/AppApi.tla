------------------------------- MODULE AppApi -------------------------------
(***************************************************************************)
(* The requests of the app (api/views.py), each of which is authenticated  *)
(* first: VoipgridAuthentication asks the VoIPGRID API for the profile of  *)
(* the system user whose credentials came with the request, and then for   *)
(* the app account the profile refers to.  VoIPGRID may give the account   *)
(* to somebody else, or refuse, at any time.                               *)
(*                                                                         *)
(* A request that passes goes on in its view: those of DeviceRegistry, the *)
(* log line of HangupReasonView, or the entry of a Redis list for the      *)
(* exporter of LogMetricsView.                                             *)
(***************************************************************************)
EXTENDS DeviceRegistry

CONSTANTS
    Hangups, Reports,   \* requests of HangupReasonView and LogMetricsView
    Systemusers,
    CredOf              \* the system user whose credentials a request carries

ApiRequests == Registers \cup Deletes \cup CheckIns \cup Hangups \cup Reports
ApiUsers    == Users \cup {"none"}

ASSUME ApiAssumption ==
    /\ \A r \in ApiRequests : UserOf[r] \in Users /\ CredOf[r] \in Systemusers
    /\ (Hangups \cup Reports) \cap Requests = {}
    /\ Hangups \cap Reports = {}
    /\ "none" \notin Users

VARIABLES
    app_account,    \* VoIPGRID: the account of each system user
    at,             \* where the authentication of a request is
    account,        \* the account that the profile refers to
    answer,         \* status that is not given by a handler of DeviceRegistry
    entries,        \* entries pushed to Redis lists: <<list, keys>>
    owned           \* history: requests made by the owner of the account

authVars == <<at, account, answer>>
apiVars  == <<app_account, authVars, entries, owned>>

ApiInit ==
    /\ Init
    /\ app_account \in [Systemusers -> ApiUsers]
    /\ at = [r \in ApiRequests |-> "new"]
    /\ account = [r \in ApiRequests |-> "none"]
    /\ answer = [r \in ApiRequests |-> 0]
    /\ entries = {}
    /\ owned = {}

----------------------------------------------------------------------------
(* VoipgridAuthentication.authenticate                                     *)

\* VoIPGRID itself: a system user gets another account, or none.
Reassign(s, a) ==
    /\ app_account' = [app_account EXCEPT ![s] = a]
    /\ UNCHANGED <<authVars, entries, owned>>

AuthStep(r, label) ==
    /\ at' = [at EXCEPT ![r] = label]
    /\ UNCHANGED <<app_account, entries>>

Deny(r, code) ==
    /\ AuthStep(r, "denied")
    /\ answer' = [answer EXCEPT ![r] = code]
    /\ account' = [account EXCEPT ![r] = "none"]
    /\ UNCHANGED owned

\* No credentials, or no valid sip_user_id.
Unusable(r) == at[r] = "new" /\ \E code \in {400, 401} : Deny(r, code)

\* _check_status_code, or requests.get raises.
Refused(r) ==
    /\ at[r] \in {"new", "account"}
    /\ \E code \in {401, 403, 500, 503} : Deny(r, code)

\* Mutant: a profile without an app account is not noticed.
ProfileUnchecked(r) ==
    LET a == app_account[CredOf[r]]
    IN  /\ at[r] = "new"
        /\ account' = [account EXCEPT ![r] = a]
        /\ AuthStep(r, "account")
        /\ owned' = IF a = UserOf[r] THEN owned \cup {r} ELSE owned
        /\ UNCHANGED answer

\* The profile comes with the account its system user has at this moment.
Profile(r) ==
    LET a == app_account[CredOf[r]]
    IN  /\ at[r] = "new"
        /\ account' = [account EXCEPT ![r] = a]
        /\ AuthStep(r, IF a = "none" THEN "log" ELSE "account")
        /\ owned' = IF a = UserOf[r] THEN owned \cup {r} ELSE owned
        /\ UNCHANGED answer

\* The log line looks up the device of the account that was asked for: a
\* DoesNotExist is a server error, and the log call itself may raise.
NoAppAccount(r) ==
    /\ at[r] = "log"
    /\ \E code \in {500} \cup IF Registered(UserOf[r]) THEN {403} ELSE {} :
          Deny(r, code)

\* Mutant: any app account will do.
AppAccountAny(r) ==
    /\ at[r] = "account"
    /\ AuthStep(r, "granted")
    /\ account' = [account EXCEPT ![r] = "none"]
    /\ UNCHANGED <<answer, owned>>

\* if str(sip_user_id) != str(account_id)
AppAccount(r) ==
    /\ at[r] = "account"
    /\ account[r] = UserOf[r]
    /\ AuthStep(r, "granted")
    /\ account' = [account EXCEPT ![r] = "none"]
    /\ UNCHANGED <<answer, owned>>

OtherAccount(r) == at[r] = "account" /\ account[r] # UserOf[r] /\ Deny(r, 403)

Authenticate(r) ==
    \/ Unusable(r) \/ Refused(r) \/ Profile(r) \/ NoAppAccount(r)
    \/ AppAccount(r) \/ OtherAccount(r)

----------------------------------------------------------------------------
(* The views without an effect on the device table.                        *)

Reply(r, code) ==
    /\ at[r] = "granted"
    /\ at' = [at EXCEPT ![r] = "done"]
    /\ answer' = [answer EXCEPT ![r] = code]
    /\ UNCHANGED <<app_account, account, owned>>

\* HangupReasonView.post: the device is looked up for a log line.
Hangup(r) ==
    /\ \E code \in {400, 500} \cup IF Registered(UserOf[r]) THEN {200} ELSE {404} :
          Reply(r, code)
    /\ UNCHANGED entries

\* What LogMetricsView tells apart in a report, "null" being a value that is
\* not a string.
ReportData == [hangup_reason : BOOLEAN,
               call_setup_successful : {"absent", "true", "false", "other"},
               network : {"wifi", "mobile", "absent", "null"}]

\* get_metrics_base_data: the keys of its dictionary.
BaseKeys(data) ==
    {"app_version", "connection_type", "direction", "network", "os", "os_version"}
        \cup IF data.network = "wifi" THEN {} ELSE {"network_operator"}

\* Mutant: a successful call is taken for a hangup reason.
EntrySwapped(data) ==
    CASE data.hangup_reason ->
            {<<"hangup_reason", BaseKeys(data) \cup {"hangup_reason"}>>}
      [] data.call_setup_successful = "true" ->
            {<<"call_failure", BaseKeys(data) \cup {"codec", "mos"}>>}
      [] data.call_setup_successful = "false" ->
            {<<"call_success", BaseKeys(data) \cup {"failed_reason"}>>}
      [] OTHER -> {}

\* The entry of a report, if it has one.  Its values are whatever the app posted.
Entry(data) ==
    CASE data.hangup_reason ->
            {<<"hangup_reason", BaseKeys(data) \cup {"hangup_reason"}>>}
      [] data.call_setup_successful = "true" ->
            {<<"call_success", BaseKeys(data) \cup {"codec", "mos"}>>}
      [] data.call_setup_successful = "false" ->
            {<<"call_failure", BaseKeys(data) \cup {"failed_reason"}>>}
      [] OTHER -> {}

\* A network that is no string has no lower().
PushEntry(data) ==
    /\ data.network # "null"
    /\ entries' = entries \cup Entry(data)

\* LogMetricsView.post
Report(r, data) == PushEntry(data) /\ Reply(r, 200)

\* get_metrics_base_data or Redis raises, or the log call once the entry is in.
ReportFails(r) ==
    /\ Reply(r, 500)
    /\ UNCHANGED entries \/ \E data \in ReportData : PushEntry(data)

----------------------------------------------------------------------------
(* The keys that the exporter's functions take from an entry with [], for  *)
(* want of which they raise a KeyError that ends the exporter.  (An entry  *)
(* with a value that literal_eval does not read back also ends it.)        *)

Labels == [
    call_success  |-> {"app_version", "codec", "connection_type", "direction",
                       "mos", "network", "os", "os_version"},
    call_failure  |-> {"app_version", "connection_type", "direction",
                       "failed_reason", "network", "os", "os_version"},
    hangup_reason |-> {"app_version", "connection_type", "direction",
                       "hangup_reason", "network", "os", "os_version"}]

----------------------------------------------------------------------------
\* The view of a device request runs once it is authenticated.
Granted(r) == r \in ApiRequests => at[r] = "granted"

ApiNext ==
    \/ /\ \/ \E s \in Systemusers, a \in ApiUsers : Reassign(s, a)
          \/ \E r \in ApiRequests : Authenticate(r)
          \/ \E r \in Hangups : Hangup(r)
          \/ \E r \in Reports : ReportFails(r) \/ \E data \in ReportData : Report(r, data)
       /\ UNCHANGED vars
    \/ /\ \E r \in Requests : Granted(r) /\ Step(r) /\ Meet(r)
       /\ UNCHANGED apiVars

ApiSpec == ApiInit /\ [][ApiNext]_<<vars, apiVars>>

=============================================================================
