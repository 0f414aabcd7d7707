---------------------------- MODULE AppApiProofs ----------------------------
(***************************************************************************)
(* Proofs about the requests of the app, for any users, system users and   *)
(* requests, on top of those about the device table.                       *)
(***************************************************************************)
EXTENDS AppApiProps, DeviceRegistryProofs

AuthType ==
    /\ app_account \in [Systemusers -> ApiUsers]
    /\ at \in [ApiRequests -> {"new", "log", "account", "granted", "denied", "done"}]
    /\ account \in [ApiRequests -> ApiUsers]
    /\ answer \in [ApiRequests -> {0, 200, 400, 401, 403, 404, 500, 503}]
    /\ owned \subseteq ApiRequests

\* The account that is asked for is the one that the profile referred to, and
\* a request gets through only when its own account is that one.
OwnerAsked ==
    \A r \in ApiRequests :
        /\ at[r] = "account" => account[r] # "none"
        /\ at[r] = "account" /\ account[r] = UserOf[r] => r \in owned
        /\ at[r] = "granted" => r \in owned

EntriesFit ==
    \A e \in entries : e[1] \in DOMAIN Labels /\ Labels[e[1]] \subseteq e[2]

ApiInv == Inv /\ AuthType /\ OwnerAsked /\ EntriesFit

----------------------------------------------------------------------------
LEMMA CredFacts ==
    ASSUME NEW r \in ApiRequests
    PROVE  /\ UserOf[r] \in Users \ {"none"} /\ UserOf[r] \in ApiUsers
           /\ CredOf[r] \in Systemusers
           /\ "none" \in ApiUsers
    BY ApiAssumption DEF ApiAssumption, ApiUsers

\* Each list takes entries with the keys its labels need.
LEMMA EntryFits ==
    ASSUME NEW data \in ReportData, NEW e \in Entry(data)
    PROVE  e[1] \in DOMAIN Labels /\ Labels[e[1]] \subseteq e[2]
<1>1. {"app_version", "connection_type", "direction", "network", "os", "os_version"}
         \subseteq BaseKeys(data)
    BY DEF BaseKeys
<1>2. CASE e = <<"hangup_reason", BaseKeys(data) \cup {"hangup_reason"}>>
    BY <1>1, <1>2 DEF Labels
<1>3. CASE e = <<"call_success", BaseKeys(data) \cup {"codec", "mos"}>>
    BY <1>1, <1>3 DEF Labels
<1>4. CASE e = <<"call_failure", BaseKeys(data) \cup {"failed_reason"}>>
    BY <1>1, <1>4 DEF Labels
<1>5. \/ e = <<"hangup_reason", BaseKeys(data) \cup {"hangup_reason"}>>
      \/ e = <<"call_success", BaseKeys(data) \cup {"codec", "mos"}>>
      \/ e = <<"call_failure", BaseKeys(data) \cup {"failed_reason"}>>
    <2>1. CASE data.hangup_reason
        BY <2>1 DEF Entry, ReportData
    <2>2. CASE ~ data.hangup_reason
        BY <2>2 DEF Entry, ReportData
    <2> QED BY <2>1, <2>2
<1> QED BY <1>2, <1>3, <1>4, <1>5

LEMMA AuthenticateInv ==
    ASSUME AuthType, OwnerAsked, NEW r \in ApiRequests, Authenticate(r)
    PROVE  AuthType' /\ OwnerAsked'
<1> USE DEF AuthType, OwnerAsked, AuthStep, Deny
<1>1. CASE Unusable(r)
    BY <1>1, CredFacts DEF Unusable
<1>2. CASE Refused(r)
    BY <1>2, CredFacts DEF Refused
<1>3. CASE Profile(r)
    <2>1. app_account[CredOf[r]] \in ApiUsers
        BY CredFacts
    <2>2. owned' = owned \/ owned' = owned \cup {r}
        BY <1>3 DEF Profile
    <2>3. AuthType'
        BY <1>3, <2>1, <2>2 DEF Profile
    <2>4. OwnerAsked'
        BY <1>3, <2>1, <2>2, CredFacts DEF Profile
    <2> QED BY <2>3, <2>4
<1>4. CASE NoAppAccount(r)
    BY <1>4, CredFacts DEF NoAppAccount
<1>5. CASE AppAccount(r)
    BY <1>5, CredFacts DEF AppAccount
<1>6. CASE OtherAccount(r)
    BY <1>6, CredFacts DEF OtherAccount
<1> QED BY <1>1, <1>2, <1>3, <1>4, <1>5, <1>6 DEF Authenticate

LEMMA ReplyInv ==
    ASSUME AuthType, OwnerAsked, NEW r \in ApiRequests,
           NEW code \in {200, 400, 404, 500}, Reply(r, code)
    PROVE  AuthType' /\ OwnerAsked'
    BY DEF AuthType, OwnerAsked, Reply

\* What happens around the device table leaves it alone.
LEMMA OutsideInv ==
    ASSUME ApiInv, UNCHANGED vars,
           \/ \E s \in Systemusers, a \in ApiUsers : Reassign(s, a)
           \/ \E r \in ApiRequests : Authenticate(r)
           \/ \E r \in Hangups : Hangup(r)
           \/ \E r \in Reports : ReportFails(r) \/ \E data \in ReportData : Report(r, data)
    PROVE  ApiInv'
<1> USE DEF ApiInv
<1>0. Inv'
    BY StutterInv
<1>1. ASSUME NEW s \in Systemusers, NEW a \in ApiUsers, Reassign(s, a)
      PROVE  ApiInv'
    BY <1>0, <1>1 DEF Reassign, authVars, AuthType, OwnerAsked, EntriesFit
<1>2. ASSUME NEW r \in ApiRequests, Authenticate(r) PROVE ApiInv'
    <2>1. entries' = entries
        BY <1>2 DEF Authenticate, Unusable, Refused, Profile, NoAppAccount, AppAccount,
              OtherAccount, Deny, AuthStep
    <2> QED BY <1>0, <1>2, <2>1, AuthenticateInv DEF EntriesFit
<1>3. ASSUME NEW r \in Hangups, Hangup(r) PROVE ApiInv'
    <2>1. PICK code \in {200, 400, 404, 500} : Reply(r, code)
        BY <1>3 DEF Hangup
    <2> QED BY <1>0, <1>3, <2>1, ReplyInv DEF Hangup, EntriesFit, ApiRequests
<1>4. ASSUME NEW r \in Reports, ReportFails(r) PROVE ApiInv'
    <2>1. AuthType' /\ OwnerAsked'
        BY <1>4, ReplyInv DEF ReportFails, ApiRequests
    <2>2. EntriesFit'
        BY <1>4, EntryFits DEF ReportFails, PushEntry, EntriesFit
    <2> QED BY <1>0, <2>1, <2>2
<1>5. ASSUME NEW r \in Reports, NEW data \in ReportData, Report(r, data) PROVE ApiInv'
    <2>1. AuthType' /\ OwnerAsked'
        BY <1>5, ReplyInv DEF Report, ApiRequests
    <2>2. EntriesFit'
        BY <1>5, EntryFits DEF Report, PushEntry, EntriesFit
    <2> QED BY <1>0, <2>1, <2>2
<1> QED BY <1>1, <1>2, <1>3, <1>4, <1>5

LEMMA ApiInitInv == ApiInit => ApiInv
<1> SUFFICES ASSUME ApiInit PROVE ApiInv
    OBVIOUS
<1>1. AuthType
    BY DEF ApiInit, AuthType, ApiUsers
<1>2. OwnerAsked /\ EntriesFit
    BY DEF ApiInit, OwnerAsked, EntriesFit
<1> QED BY <1>1, <1>2, InitInv DEF ApiInit, ApiInv

LEMMA ApiStepInv == ApiInv /\ [ApiNext]_<<vars, apiVars>> => ApiInv'
<1> SUFFICES ASSUME ApiInv, [ApiNext]_<<vars, apiVars>> PROVE ApiInv'
    OBVIOUS
<1>1. ASSUME UNCHANGED apiVars, Inv' PROVE ApiInv'
    BY <1>1 DEF ApiInv, apiVars, authVars, AuthType, OwnerAsked, EntriesFit
<1>2. CASE UNCHANGED <<vars, apiVars>>
    BY <1>1, <1>2, StutterInv DEF ApiInv
<1>3. ASSUME NEW r \in Requests, Step(r), Meet(r), UNCHANGED apiVars PROVE ApiInv'
    BY <1>1, <1>3, StepInv DEF ApiInv
<1> QED BY <1>2, <1>3, OutsideInv DEF ApiNext

LEMMA ApiInvariance == ApiSpec => []ApiInv
    BY ApiInitInv, ApiStepInv, PTL DEF ApiSpec

----------------------------------------------------------------------------
\* Every variable keeps its type, and a request has an account to ask for.
THEOREM ApiTypeCorrect == ApiSpec => []ApiTypeOK
<1>1. ApiInv => ApiTypeOK
    BY DEF ApiInv, AuthType, OwnerAsked, EntriesFit, ApiTypeOK
<1> QED BY <1>1, ApiInvariance, PTL

\* No report of an app gets an entry into Redis that lacks a key the exporter
\* takes from it.
THEOREM ReportsAreCountable == ApiSpec => []EveryEntryIsCountable
<1>1. ApiInv => EveryEntryIsCountable
    BY DEF ApiInv, EntriesFit, EveryEntryIsCountable
<1> QED BY <1>1, ApiInvariance, PTL

\* The row of a user is written only for a request whose credentials had the
\* account of that user when it was taken up, or by a push of a call.
THEOREM OwnersWrite == ApiSpec => OnlyOwnersWrite
<1>1. ASSUME ApiInv, [ApiNext]_<<vars, apiVars>>, NEW u \in Users, row'[u] # row[u]
      PROVE  \E r \in Requests : /\ UserOf[r] = u
                                 /\ pc'[r] # pc[r]
                                 /\ r \in Pushes \cup owned
    <2>1. PICK r \in Requests : Granted(r) /\ Step(r) /\ Meet(r)
        BY <1>1 DEF ApiNext, vars
    <2>2. StepOf(r) /\ UserOf[r] = u
        BY <1>1, <2>1, StepFrame DEF ApiInv, Inv, StepOf
    <2>3. Writes(r)
        BY <1>1, <2>1, StepCases
    <2>4. pc'[r] # pc[r]
        BY <1>1, <2>3 DEF ApiInv, Inv, DeviceType, TypeOK, Writes, RegisterUpdate,
              RegisterSave, DeleteRow, CheckInSave, PushRemove, Goto, Return, Answer
    <2>5. r \in Pushes \cup owned
        BY <1>1, <2>1 DEF ApiInv, OwnerAsked, Granted, ApiRequests, Requests
    <2> QED BY <2>2, <2>4, <2>5
<1>2. ApiInv /\ [ApiNext]_<<vars, apiVars>> =>
         [\A u \in Users : row'[u] # row[u] =>
             \E r \in Requests : /\ UserOf[r] = u
                                 /\ pc'[r] # pc[r]
                                 /\ r \in Pushes \cup owned]_<<vars, apiVars>>
    BY <1>1
<1> QED BY <1>2, ApiInvariance, PTL DEF ApiSpec, OnlyOwnersWrite

\* Authentication only holds device requests up: whatever is proved of the
\* device table is true of the requests of the app.
THEOREM DeviceRequestsKept == ApiSpec => Spec
<1>1. ApiInit => Init
    BY DEF ApiInit
<1>2. [ApiNext]_<<vars, apiVars>> => [Next]_vars
    BY DEF ApiNext, Next
<1> QED BY <1>1, <1>2, PTL DEF ApiSpec, Spec

=============================================================================
