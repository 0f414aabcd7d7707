------------------------ MODULE DeviceRegistryProofs ------------------------
(***************************************************************************)
(* Proofs about the Device table, for any users, tokens and requests.      *)
(***************************************************************************)
EXTENDS DeviceRegistryProps, TLAPS

----------------------------------------------------------------------------
(* Types.  A row that is there has a token, and so has the object that a   *)
(* check-in is about to save.                                              *)

RowsHaveTokens ==
    /\ \A u \in Users : Registered(u) => row[u].token \in Tokens
    /\ \A r \in CheckIns : pc[r] = "save" => dev[r].token \in Tokens

DeviceType == TypeOK /\ RowsHaveTokens

LEMMA RequestFacts ==
    ASSUME NEW r \in Requests
    PROVE  /\ UserOf[r] \in Users
           /\ r \in Registers => TokenOf[r] \in Tokens /\ SandboxOf[r] \in BOOLEAN
           /\ r \in Registers => r \notin CheckIns /\ r \notin Deletes /\ r \notin Pushes
           /\ r \in Deletes => r \notin CheckIns /\ r \notin Pushes
           /\ r \in CheckIns => r \notin Pushes
           /\ NoRow \in Rows /\ NoRow.token = "none" /\ "none" \notin Tokens
    BY RequestAssumption DEF RequestAssumption, NoRow, Rows

LEMMA RegisterType ==
    ASSUME DeviceType, NEW r \in Registers, RegisterStep(r), Meet(r)
    PROVE  DeviceType'
<1> USE DEF DeviceType, TypeOK, RowsHaveTokens, Registered, Goto, Return, Answer,
            Settle, Write, Hold
<1>0. r \in Requests /\ overlapped' \subseteq Requests /\ bereft' \subseteq Requests
    BY DEF DeviceType, TypeOK, Requests, Meet
<1>1. CASE Invalid(r) \/ RegisterUnknownApp(r)
    <2>1. CASE Invalid(r)
        BY <1>0, <2>1, RequestFacts DEF Invalid
    <2>2. CASE RegisterUnknownApp(r)
        BY <1>0, <2>2, RequestFacts DEF RegisterUnknownApp
    <2> QED BY <1>1, <2>1, <2>2
<1>2. CASE RegisterUpdate(r)
    <2>1. /\ [row[UserOf[r]] EXCEPT !.token = TokenOf[r]] \in Rows
          /\ [row[UserOf[r]] EXCEPT !.token = TokenOf[r]].token \in Tokens
        BY <1>0, RequestFacts DEF Rows
    <2>2. notified' \subseteq Tokens
        BY <1>0, <1>2, <2>1, RequestFacts DEF RegisterUpdate, OldToken, Rows
    <2> QED BY <1>0, <1>2, <2>1, <2>2, RequestFacts DEF RegisterUpdate
<1>3. CASE RegisterSave(r)
    BY <1>0, <1>3, RequestFacts DEF RegisterSave, Rows
<1>4. CASE RegisterFail(r)
    BY <1>0, <1>4, RequestFacts DEF RegisterFail
<1> QED BY <1>1, <1>2, <1>3, <1>4 DEF RegisterStep

LEMMA DeleteType ==
    ASSUME DeviceType, NEW r \in Deletes, DeleteStep(r), Meet(r)
    PROVE  DeviceType'
<1> USE DEF DeviceType, TypeOK, RowsHaveTokens, Registered, Goto, Return, Answer,
            Settle, Write, Hold
<1>0. r \in Requests /\ overlapped' \subseteq Requests /\ bereft' \subseteq Requests
    BY DEF DeviceType, TypeOK, Requests, Meet
<1>1. CASE Invalid(r) \/ DeleteMissing(r) \/ DeleteFail(r)
    <2>1. CASE Invalid(r)
        BY <1>0, <2>1, RequestFacts DEF Invalid
    <2>2. CASE DeleteMissing(r)
        BY <1>0, <2>2, RequestFacts DEF DeleteMissing
    <2>3. CASE DeleteFail(r)
        BY <1>0, <2>3, RequestFacts DEF DeleteFail
    <2> QED BY <1>1, <2>1, <2>2, <2>3
<1>2. CASE DeleteGet(r)
    BY <1>0, <1>2, RequestFacts DEF DeleteGet
<1>3. CASE DeleteRow(r)
    BY <1>0, <1>3, RequestFacts DEF DeleteRow
<1> QED BY <1>1, <1>2, <1>3 DEF DeleteStep

LEMMA CheckInType ==
    ASSUME DeviceType, NEW r \in CheckIns, CheckInStep(r), Meet(r)
    PROVE  DeviceType'
<1> USE DEF DeviceType, TypeOK, RowsHaveTokens, Registered, Goto, Return,
            Settle, Write, Hold
<1>0. r \in Requests /\ overlapped' \subseteq Requests /\ bereft' \subseteq Requests
    BY DEF DeviceType, TypeOK, Requests, Meet
<1>1. CASE CheckInMissing(r) \/ CheckInFail(r)
    <2>1. CASE CheckInMissing(r)
        BY <1>0, <2>1, RequestFacts DEF CheckInMissing
    <2>2. CASE CheckInFail(r)
        BY <1>0, <2>2, RequestFacts DEF CheckInFail
    <2> QED BY <1>1, <2>1, <2>2
<1>2. CASE CheckInGet(r)
    BY <1>0, <1>2, RequestFacts DEF CheckInGet, Rows
<1>3. CASE CheckInSave(r)
    BY <1>0, <1>3, RequestFacts DEF CheckInSave
<1> QED BY <1>1, <1>2, <1>3 DEF CheckInStep

LEMMA PushType ==
    ASSUME DeviceType, NEW r \in Pushes, PushStep(r), Meet(r)
    PROVE  DeviceType'
<1> USE DEF DeviceType, TypeOK, RowsHaveTokens, Registered, Goto, Settle, Write, Hold
<1>0. r \in Requests /\ overlapped' \subseteq Requests /\ bereft' \subseteq Requests
    BY DEF DeviceType, TypeOK, Requests, Meet
<1>1. CASE CallLookup(r)
    BY <1>0, <1>1, RequestFacts DEF CallLookup
<1>2. CASE PushEnds(r) \/ PushRefused(r)
    <2>1. CASE PushEnds(r)
        BY <1>0, <2>1, RequestFacts DEF PushEnds
    <2>2. CASE PushRefused(r)
        BY <1>0, <2>2, RequestFacts DEF PushRefused
    <2> QED BY <1>2, <2>1, <2>2
<1>3. CASE PushRemove(r)
    BY <1>0, <1>3, RequestFacts DEF PushRemove
<1> QED BY <1>1, <1>2, <1>3 DEF PushStep

LEMMA StepType ==
    ASSUME DeviceType, NEW r \in Requests, Step(r), Meet(r)
    PROVE  DeviceType'
    BY RegisterType, DeleteType, CheckInType, PushType DEF Step

LEMMA InitType == Init => DeviceType
<1> SUFFICES ASSUME Init PROVE DeviceType
    OBVIOUS
<1>1. NoRow \in Rows
    BY DEF NoRow, Rows
<1>2. /\ \A u \in Users : row[u] = NoRow
      /\ \A r \in Requests : pc[r] = "idle"
    BY DEF Init
<1>3. RowsHaveTokens
    BY <1>2 DEF RowsHaveTokens, Registered, Requests
<1>4. created \in [Registers -> BOOLEAN]
    BY DEF Init
<1>5. TypeOK
    BY <1>1, <1>4 DEF Init, TypeOK
<1> QED BY <1>3, <1>5 DEF DeviceType

----------------------------------------------------------------------------
\* A step of a request concerns that request and the row of its user.
StepOf(r) ==
    /\ pc[r] # "done"
    /\ \A q \in Requests \ {r} :
          pc'[q] = pc[q] /\ dev'[q] = dev[q] /\ status'[q] = status[q]
    /\ \A q \in Registers \ {r} : created'[q] = created[q]
    /\ \A u \in Users \ {UserOf[r]} : row'[u] = row[u] /\ intent'[u] = intent[u]
    /\ status'[r] # status[r] => pc'[r] = "done"
    /\ overlapped \subseteq overlapped'

LEMMA StepFrame ==
    ASSUME DeviceType, NEW r \in Requests, Step(r), Meet(r)
    PROVE  StepOf(r)
<1> USE DEF DeviceType, TypeOK, Goto, Return, Answer, Settle, Write, Hold, StepOf
<1>0. overlapped \subseteq overlapped'
    BY DEF Meet
<1>1. ASSUME r \in Registers, RegisterStep(r) PROVE StepOf(r)
    <2>1. CASE Invalid(r)
        BY <1>0, <2>1 DEF Invalid
    <2>2. CASE RegisterUnknownApp(r)
        BY <1>0, <2>2 DEF RegisterUnknownApp
    <2>3. CASE RegisterUpdate(r)
        BY <1>0, <2>3 DEF RegisterUpdate
    <2>4. CASE RegisterSave(r)
        BY <1>0, <2>4 DEF RegisterSave
    <2>5. CASE RegisterFail(r)
        BY <1>0, <2>5 DEF RegisterFail
    <2> QED BY <1>1, <2>1, <2>2, <2>3, <2>4, <2>5 DEF RegisterStep
<1>2. ASSUME r \in Deletes, DeleteStep(r) PROVE StepOf(r)
    <2>1. CASE Invalid(r)
        BY <1>0, <2>1 DEF Invalid
    <2>2. CASE DeleteGet(r)
        BY <1>0, <2>2 DEF DeleteGet
    <2>3. CASE DeleteMissing(r)
        BY <1>0, <2>3 DEF DeleteMissing
    <2>4. CASE DeleteRow(r)
        BY <1>0, <2>4 DEF DeleteRow
    <2>5. CASE DeleteFail(r)
        BY <1>0, <2>5 DEF DeleteFail
    <2> QED BY <1>2, <2>1, <2>2, <2>3, <2>4, <2>5 DEF DeleteStep
<1>3. ASSUME r \in CheckIns, CheckInStep(r) PROVE StepOf(r)
    <2>1. CASE CheckInGet(r)
        BY <1>0, <2>1 DEF CheckInGet
    <2>2. CASE CheckInMissing(r)
        BY <1>0, <2>2 DEF CheckInMissing
    <2>3. CASE CheckInSave(r)
        BY <1>0, <2>3 DEF CheckInSave
    <2>4. CASE CheckInFail(r)
        BY <1>0, <2>4 DEF CheckInFail
    <2> QED BY <1>3, <2>1, <2>2, <2>3, <2>4 DEF CheckInStep
<1>4. ASSUME r \in Pushes, PushStep(r) PROVE StepOf(r)
    <2>1. CASE CallLookup(r)
        BY <1>0, <2>1 DEF CallLookup
    <2>2. CASE PushEnds(r)
        BY <1>0, <2>2 DEF PushEnds
    <2>3. CASE PushRefused(r)
        BY <1>0, <2>3 DEF PushRefused
    <2>4. CASE PushRemove(r)
        BY <1>0, <2>4 DEF PushRemove
    <2> QED BY <1>4, <2>1, <2>2, <2>3, <2>4 DEF PushStep
<1> QED BY <1>1, <1>2, <1>3, <1>4 DEF Step

\* Only a few steps write the row of the user, the rest leave it and what is
\* settled alone.
Writes(r) ==
    \/ r \in Registers /\ (RegisterUpdate(r) \/ RegisterSave(r))
    \/ r \in Deletes /\ DeleteRow(r)
    \/ r \in CheckIns /\ CheckInSave(r)
    \/ r \in Pushes /\ PushRemove(r)

LEMMA StepCases ==
    ASSUME NEW r \in Requests, Step(r)
    PROVE  \/ Writes(r)
           \/ /\ row' = row /\ created' = created
              /\ \/ intent' = intent
                 \/ r \in Registers /\ pc[r] = "save" /\ RegisterFail(r)
    BY DEF Step, RegisterStep, DeleteStep, CheckInStep, PushStep, Writes, Invalid,
           RegisterUnknownApp, RegisterFail, DeleteGet, DeleteMissing, DeleteFail,
           CheckInGet, CheckInMissing, CheckInFail, CallLookup, PushEnds, PushRefused

----------------------------------------------------------------------------
(* A row that mixes two registrations.                                     *)

AnsweredIsDone == \A r \in Requests : status[r] # 0 => pc[r] = "done"

LEMMA AnsweredStep ==
    ASSUME DeviceType, AnsweredIsDone, NEW r \in Requests, Step(r), Meet(r)
    PROVE  AnsweredIsDone'
    BY StepFrame DEF StepOf, AnsweredIsDone

LEMMA MixedStep ==
    ASSUME DeviceType, AnsweredIsDone, MixedRowOnlyDuringRegistration,
           NEW r \in Requests, Step(r), Meet(r)
    PROVE  MixedRowOnlyDuringRegistration'
<1> DEFINE By(u) ==
        \/ \E q \in Registers : UserOf[q] = u /\ From(q, row[u])
        \/ \E q \in Registers : /\ UserOf[q] = u
                                /\ TokenOf[q] = row[u].token
                                /\ pc[q] = "save" \/ status[q] = 500
        \/ \E q \in CheckIns : /\ UserOf[q] = u
                               /\ status[q] = 200
                               /\ row[u] = dev[q]
<1>1. SUFFICES ASSUME NEW u \in Users, Registered(u)' PROVE By(u)'
    BY DEF MixedRowOnlyDuringRegistration
<1>2. StepOf(r)
    BY StepFrame
<1>3. CASE Writes(r) /\ UserOf[r] = u
    <2> USE DEF DeviceType, TypeOK, Goto, Return, Answer, Write, From
    <2>1. CASE r \in Registers /\ RegisterUpdate(r)
        <3>1. pc'[r] = "save" /\ row'[u].token = TokenOf[r]
            BY <1>3, <2>1 DEF RegisterUpdate, Rows
        <3> QED BY <1>3, <2>1, <3>1
    <2>2. CASE r \in Registers /\ RegisterSave(r)
        <3>1. row'[u].token = TokenOf[r] /\ row'[u].sandbox = SandboxOf[r]
            BY <1>3, <2>2 DEF RegisterSave
        <3> QED BY <1>3, <2>2, <3>1
    <2>3. CASE r \in Deletes /\ DeleteRow(r)
        BY <1>1, <1>3, <2>3 DEF DeleteRow, Registered
    <2>4. CASE r \in CheckIns /\ CheckInSave(r)
        <3>1. status'[r] = 200 /\ row'[u] = dev'[r]
            BY <1>3, <2>4 DEF CheckInSave
        <3> QED BY <1>3, <2>4, <3>1
    <2>5. CASE r \in Pushes /\ PushRemove(r)
        BY <1>1, <1>3, <2>5 DEF PushRemove, Registered
    <2> QED BY <1>3, <2>1, <2>2, <2>3, <2>4, <2>5 DEF Writes
<1>4. CASE ~ (Writes(r) /\ UserOf[r] = u)
    <2>1. row'[u] = row[u]
        BY <1>2, <1>4, StepCases DEF StepOf
    <2>2. By(u)
        BY <1>1, <2>1 DEF Registered, MixedRowOnlyDuringRegistration
    <2>3. ASSUME NEW q \in Registers, UserOf[q] = u, TokenOf[q] = row[u].token,
                 pc[q] = "save" \/ status[q] = 500
          PROVE  pc'[q] = "save" \/ status'[q] = 500
        <3>1. CASE q # r
            BY <1>2, <2>3, <3>1 DEF StepOf, Requests
        <3>2. CASE q = r
            <4>1. pc[r] = "save"
                BY <1>2, <2>3, <3>2 DEF AnsweredIsDone, StepOf
            <4>2. RegisterFail(r)
                BY <1>4, <2>3, <3>2, <4>1, RequestFacts DEF Writes, Step,
                   RegisterStep, Invalid, RegisterUnknownApp
            <4> QED BY <3>2, <4>2 DEF RegisterFail, Return, DeviceType, TypeOK
        <3> QED BY <3>1, <3>2
    <2>4. ASSUME NEW q \in CheckIns, UserOf[q] = u, status[q] = 200, row[u] = dev[q]
          PROVE  status'[q] = 200 /\ row'[u] = dev'[q]
        <3>1. q \in Requests /\ q # r
            BY <1>2, <2>4 DEF AnsweredIsDone, StepOf, Requests
        <3> QED BY <1>2, <2>1, <2>4, <3>1 DEF StepOf
    <2> QED BY <2>1, <2>2, <2>3, <2>4 DEF From
<1> QED BY <1>3, <1>4

----------------------------------------------------------------------------
(* Removed devices: a request that is about to save a row still has it in  *)
(* the table, or has seen it removed.                                      *)

HeldOrBereft ==
    \A r \in Registers \cup CheckIns :
        pc[r] = "save" => Registered(UserOf[r]) \/ r \in bereft

LEMMA HeldStep ==
    ASSUME DeviceType, HeldOrBereft, NEW r \in Requests, Step(r), Meet(r)
    PROVE  HeldOrBereft'
<1>1. SUFFICES ASSUME NEW q \in Registers \cup CheckIns, pc'[q] = "save"
               PROVE  Registered(UserOf[q])' \/ q \in bereft'
    BY DEF HeldOrBereft
<1>2. StepOf(r) /\ q \in Requests
    BY StepFrame DEF Requests
<1>3. CASE pc[q] = "save"
    <2>1. Registered(UserOf[q]) \/ q \in bereft
        BY <1>3 DEF HeldOrBereft
    <2>2. q \in bereft \/ Removes(UserOf[q]) => q \in bereft'
        BY <1>1, <1>2 DEF Meet
    <2> QED BY <2>1, <2>2 DEF Removes
<1>4. CASE pc[q] # "save"
    <2>1. q = r
        BY <1>1, <1>2, <1>4 DEF StepOf
    <2>2. CASE r \in Registers
        <3>1. RegisterUpdate(r)
            BY <1>1, <1>2, <1>4, <2>1, <2>2, RequestFacts DEF Step, RegisterStep, Invalid,
               RegisterUnknownApp, RegisterSave, RegisterFail, Return, Answer, Goto,
               DeviceType, TypeOK
        <3>2. row'[UserOf[r]].token = TokenOf[r]
            BY <3>1, RequestFacts DEF RegisterUpdate, Write, DeviceType, TypeOK, Rows
        <3> QED BY <2>1, <2>2, <3>2, RequestFacts DEF Registered
    <2>3. CASE r \in CheckIns
        <3>1. CheckInGet(r)
            BY <1>1, <1>2, <1>4, <2>1, <2>3, RequestFacts DEF Step, CheckInStep,
               CheckInMissing, CheckInSave, CheckInFail, Return, Goto, DeviceType, TypeOK
        <3> QED BY <2>1, <3>1 DEF CheckInGet, Registered
    <2> QED BY <2>1, <2>2, <2>3
<1> QED BY <1>3, <1>4

\* A row that was not there is written by a registration that creates it, or by
\* a request that is bereft of it.
LEMMA ReturnOfRow ==
    ASSUME DeviceType, HeldOrBereft, NEW r \in Requests, Step(r), Meet(r),
           NEW u \in Users, ~ Registered(u), Registered(u)'
    PROVE  /\ UserOf[r] = u
           /\ \/ r \in Registers /\ pc[r] = "idle" /\ pc'[r] = "save" /\ created'[r]
              \/ r \in bereft /\ pc'[r] = "done"
<1>1. UserOf[r] = u
    BY StepFrame DEF StepOf, Registered
<1>2. Writes(r)
    BY StepCases DEF Registered
<1> USE DEF DeviceType, TypeOK, Goto, Return, Answer, Write
<1>3. CASE r \in Registers /\ RegisterUpdate(r)
    <2>1. pc[r] = "idle" /\ pc'[r] = "save"
        BY <1>3 DEF RegisterUpdate
    <2>2. created'[r] = ~ Registered(u)
        BY <1>1, <1>3 DEF RegisterUpdate
    <2> QED BY <1>1, <1>3, <2>1, <2>2
<1>4. CASE r \in Registers /\ RegisterSave(r)
    BY <1>1, <1>4 DEF RegisterSave, HeldOrBereft
<1>5. CASE r \in CheckIns /\ CheckInSave(r)
    BY <1>1, <1>5 DEF CheckInSave, HeldOrBereft
<1>6. CASE (r \in Deletes /\ DeleteRow(r)) \/ (r \in Pushes /\ PushRemove(r))
    BY <1>1, <1>6 DEF DeleteRow, PushRemove, Registered
<1> QED BY <1>1, <1>2, <1>3, <1>4, <1>5, <1>6 DEF Writes

----------------------------------------------------------------------------
(* The last request: of two requests that are on their way both overlap,   *)
(* so a check-in that does not holds a copy that is up to date.            *)

Meetings ==
    \A q, r \in Requests :
        q # r /\ UserOf[q] = UserOf[r] /\ InFlight(q) /\ InFlight(r)
            => q \in overlapped /\ r \in overlapped

Fresh(r) ==
    LET u == UserOf[r]
    IN  /\ Registered(u)
        /\ dev[r].token = row[u].token
        /\ dev[r].sandbox = row[u].sandbox

CheckInsAreFresh ==
    \A r \in CheckIns : pc[r] = "save" /\ r \notin overlapped => Fresh(r)

Saving(u) == \E r \in Registers : UserOf[r] = u /\ pc[r] = "save"

Settled ==
    \A u \in Users : ~ Saving(u) =>
        /\ intent[u] = "none" => ~ Registered(u)
        /\ intent[u] \in Registers => From(intent[u], row[u])

LEMMA MeetingStep ==
    ASSUME DeviceType, Meetings, NEW r \in Requests, Step(r), Meet(r)
    PROVE  Meetings'
<1>1. StepOf(r)
    BY StepFrame
<1>2. ASSUME NEW q \in Requests \ {r}, UserOf[q] = UserOf[r], InFlight(q), InFlight(r)'
      PROVE  q \in overlapped' /\ r \in overlapped'
    <2>1. CASE pc[r] = "idle"
        BY <1>2, <2>1 DEF Meet
    <2>2. CASE InFlight(r)
        BY <1>1, <1>2, <2>2 DEF Meetings, StepOf
    <2> QED BY <1>1, <2>1, <2>2 DEF InFlight, StepOf
<1>3. \A q \in Requests \ {r} : InFlight(q)' = InFlight(q)
    BY <1>1 DEF StepOf, InFlight
<1>4. \A q, p \in Requests \ {r} :
          q # p /\ UserOf[q] = UserOf[p] /\ InFlight(q) /\ InFlight(p)
              => q \in overlapped' /\ p \in overlapped'
    BY <1>1 DEF Meetings, StepOf
<1> QED BY <1>2, <1>3, <1>4 DEF Meetings

LEMMA FreshStep ==
    ASSUME DeviceType, Meetings, CheckInsAreFresh, NEW r \in Requests, Step(r), Meet(r)
    PROVE  CheckInsAreFresh'
<1>1. SUFFICES ASSUME NEW q \in CheckIns, pc'[q] = "save", q \notin overlapped'
               PROVE  Fresh(q)'
    BY DEF CheckInsAreFresh
<1>2. StepOf(r) /\ q \in Requests
    BY StepFrame DEF Requests
<1>3. CASE q = r
    <2>1. CheckInStep(r)
        BY <1>3, RequestFacts DEF Step
    <2>2. CheckInGet(r)
        BY <1>1, <1>2, <1>3, <2>1 DEF CheckInStep, CheckInMissing, CheckInSave,
              CheckInFail, Return, Goto, DeviceType, TypeOK
    <2>3. row' = row /\ Registered(UserOf[r])
        BY <2>2 DEF CheckInGet
    <2>4. dev'[r] = [row[UserOf[r]] EXCEPT !.last_seen = r]
        BY <2>2 DEF CheckInGet, Hold, DeviceType, TypeOK
    <2>5. row[UserOf[r]] \in Rows
        BY RequestFacts DEF DeviceType, TypeOK
    <2> QED BY <1>3, <2>3, <2>4, <2>5 DEF Fresh, Registered, Rows
<1>4. CASE q # r
    <2>1. pc[q] = "save" /\ q \notin overlapped /\ dev'[q] = dev[q]
        BY <1>1, <1>2, <1>4 DEF StepOf
    <2>2. Fresh(q)
        BY <2>1 DEF CheckInsAreFresh
    <2>3. CASE UserOf[q] # UserOf[r]
        <3>1. row'[UserOf[q]] = row[UserOf[q]]
            BY <1>2, <2>3, RequestFacts DEF StepOf
        <3> QED BY <2>1, <2>2, <3>1 DEF Fresh, Registered
    <2>4. CASE UserOf[q] = UserOf[r]
        <3>1. ~ InFlight(r)
            BY <1>2, <1>4, <2>1, <2>4 DEF Meetings, InFlight
        <3>2. pc[r] = "idle" => ~ InFlight(r)'
            BY <1>1, <1>2, <1>4, <2>1, <2>4 DEF Meet, InFlight
        <3>3. ~ Writes(r)
            BY <3>1, <3>2 DEF Writes, RegisterUpdate, RegisterSave, DeleteRow,
               CheckInSave, PushRemove, InFlight, Goto, DeviceType, TypeOK
        <3>4. row' = row
            BY <3>3, StepCases
        <3> QED BY <2>1, <2>2, <3>4 DEF Fresh, Registered
    <2> QED BY <2>3, <2>4
<1> QED BY <1>3, <1>4

LEMMA SettledStep ==
    ASSUME DeviceType, CheckInsAreFresh, Settled, NEW r \in Requests, Step(r), Meet(r)
    PROVE  Settled'
<1>1. SUFFICES ASSUME NEW u \in Users, ~ Saving(u)'
               PROVE  /\ intent'[u] = "none" => ~ Registered(u)'
                      /\ intent'[u] \in Registers => From(intent'[u], row'[u])
    BY DEF Settled, From
<1>2. StepOf(r) /\ UserOf[r] \in Users
    BY StepFrame, RequestFacts
<1>3. "none" \notin Registers /\ "unknown" \notin Registers
    BY RequestAssumption DEF RequestAssumption
<1>4. ASSUME r \notin Registers \/ UserOf[r] # u \/ pc[r] # "save" PROVE ~ Saving(u)
    BY <1>1, <1>2, <1>4 DEF Saving, StepOf, Requests
<1>5. CASE UserOf[r] # u
    BY <1>2, <1>4, <1>5 DEF Settled, StepOf, Registered
<1>6. CASE UserOf[r] = u /\ Writes(r)
    <2> USE DEF DeviceType, TypeOK, Goto, Return, Answer, Write, Settle
    <2>1. CASE r \in Registers /\ RegisterUpdate(r)
        BY <1>1, <1>6, <2>1 DEF RegisterUpdate, Saving
    <2>2. CASE r \in Registers /\ RegisterSave(r)
        <3>1. row'[u].token = TokenOf[r] /\ row'[u].sandbox = SandboxOf[r]
            BY <1>6, <2>2 DEF RegisterSave
        <3>2. intent'[u] \in {r, "unknown"}
            BY <1>6, <2>2 DEF RegisterSave
        <3> QED BY <1>3, <2>2, <3>1, <3>2 DEF From
    <2>3. CASE (r \in Deletes /\ DeleteRow(r)) \/ (r \in Pushes /\ PushRemove(r))
        <3>1. row'[u] = NoRow
            BY <1>6, <2>3 DEF DeleteRow, PushRemove
        <3>2. intent'[u] \in {"none", "unknown"}
            BY <1>6, <2>3 DEF DeleteRow, PushRemove
        <3> QED BY <1>3, <3>1, <3>2 DEF Registered
    <2>4. CASE r \in CheckIns /\ CheckInSave(r)
        <3>1. pc[r] = "save" /\ row'[u] = dev[r]
            BY <1>6, <2>4 DEF CheckInSave
        <3>2. CASE r \in overlapped
            <4>1. intent'[u] = "unknown"
                BY <1>6, <2>4, <3>2 DEF CheckInSave
            <4> QED BY <1>3, <4>1
        <3>3. CASE r \notin overlapped
            <4>1. intent'[u] = intent[u]
                BY <1>6, <2>4, <3>3 DEF CheckInSave
            <4>2. ~ Saving(u)
                BY <1>4, <2>4, RequestFacts
            <4>3. Fresh(r)
                BY <2>4, <3>1, <3>3 DEF CheckInsAreFresh
            <4> QED BY <1>6, <3>1, <4>1, <4>2, <4>3 DEF Settled, Fresh, From
        <3> QED BY <3>2, <3>3
    <2> QED BY <1>6, <2>1, <2>2, <2>3, <2>4 DEF Writes
<1>7. CASE UserOf[r] = u /\ ~ Writes(r)
    <2>1. row' = row
        BY <1>7, StepCases
    <2>2. CASE r \in Registers /\ pc[r] = "save"
        <3>1. RegisterFail(r)
            BY <1>7, <2>2, RequestFacts DEF Writes, Step, RegisterStep, Invalid,
               RegisterUnknownApp
        <3>2. intent'[u] = "unknown"
            BY <1>7, <2>2, <3>1 DEF RegisterFail, Settle, DeviceType, TypeOK
        <3> QED BY <1>3, <3>2
    <2>3. CASE ~ (r \in Registers /\ pc[r] = "save")
        <3>1. intent' = intent
            BY <1>7, <2>3, StepCases
        <3>2. ~ Saving(u)
            BY <1>4, <2>3
        <3> QED BY <2>1, <3>1, <3>2 DEF Settled, Registered
    <2> QED BY <2>2, <2>3
<1> QED BY <1>5, <1>6, <1>7

----------------------------------------------------------------------------
(* The invariant of the device table, which AppApi shares.                 *)

Inv ==
    /\ DeviceType
    /\ AnsweredIsDone
    /\ MixedRowOnlyDuringRegistration
    /\ HeldOrBereft
    /\ Meetings /\ CheckInsAreFresh /\ Settled

LEMMA InitInv == Init => Inv
<1> SUFFICES ASSUME Init PROVE Inv
    OBVIOUS
<1>1. /\ \A r \in Requests : pc[r] = "idle" /\ status[r] = 0
      /\ \A r \in Registers : ~ created[r]
      /\ \A u \in Users : ~ Registered(u) /\ intent[u] = "none"
    BY DEF Init, Registered
<1>2. "none" \notin Registers
    BY RequestAssumption DEF RequestAssumption
<1>3. AnsweredIsDone /\ MixedRowOnlyDuringRegistration
    BY <1>1 DEF AnsweredIsDone, MixedRowOnlyDuringRegistration
<1>4. HeldOrBereft
    BY <1>1 DEF HeldOrBereft, Requests
<1>5. Meetings /\ CheckInsAreFresh /\ Settled
    BY <1>1, <1>2 DEF Meetings, CheckInsAreFresh, Settled, InFlight, Requests
<1> QED BY <1>3, <1>4, <1>5, InitType DEF Inv

LEMMA StepInv ==
    ASSUME Inv, NEW r \in Requests, Step(r), Meet(r)
    PROVE  Inv'
    BY StepType, AnsweredStep, MixedStep, HeldStep, MeetingStep, FreshStep,
       SettledStep DEF Inv

LEMMA StutterInv == Inv /\ UNCHANGED vars => Inv'
<1> SUFFICES ASSUME Inv, UNCHANGED vars PROVE Inv'
    OBVIOUS
<1> USE DEF vars, historyVars, Inv, Registered
<1>1. DeviceType'
    BY DEF DeviceType, TypeOK, RowsHaveTokens
<1>2. AnsweredIsDone' /\ MixedRowOnlyDuringRegistration'
    BY DEF AnsweredIsDone, MixedRowOnlyDuringRegistration, From
<1>3. HeldOrBereft'
    BY DEF HeldOrBereft
<1>4. Meetings' /\ CheckInsAreFresh' /\ Settled'
    BY DEF Meetings, CheckInsAreFresh, Settled, InFlight, Fresh, Saving, From
<1> QED BY <1>1, <1>2, <1>3, <1>4

LEMMA Invariance == Spec => []Inv
<1>1. Inv /\ [Next]_vars => Inv'
    BY StepInv, StutterInv DEF Next
<1> QED BY <1>1, InitInv, PTL DEF Spec

\* Every variable of the device table and its handlers keeps its type.
THEOREM TypeCorrect == Spec => []TypeOK
<1>1. Inv => TypeOK
    BY DEF Inv, DeviceType
<1> QED BY <1>1, Invariance, PTL

\* A row mixes two registrations only while one of them is half done or has
\* failed there, or because a check-in wrote such a row back.
THEOREM RowsMixBriefly == Spec => []MixedRowOnlyDuringRegistration
<1>1. Inv => MixedRowOnlyDuringRegistration
    BY DEF Inv
<1> QED BY <1>1, Invariance, PTL

\* A device that was removed comes back only by a registration that creates it,
\* or by a request that had the row and saves it after its removal.
THEOREM RemovedForGood == Spec => RemovedStaysRemoved
<1>1. ASSUME Inv, NEW r \in Requests, Step(r), Meet(r),
             NEW u \in Users, ~ Registered(u), Registered(u)'
      PROVE  \/ \E q \in Registers : /\ UserOf[q] = u
                                    /\ pc[q] = "idle" /\ pc'[q] = "save"
                                    /\ created'[q]
             \/ \E q \in bereft : UserOf[q] = u /\ pc'[q] = "done"
    BY <1>1, ReturnOfRow DEF Inv
<1>2. Inv /\ [Next]_vars =>
         [\A u \in Users : ~ Registered(u) /\ Registered(u)' =>
             \/ \E r \in Registers : /\ UserOf[r] = u
                                    /\ pc[r] = "idle" /\ pc'[r] = "save"
                                    /\ created'[r]
             \/ \E r \in bereft : UserOf[r] = u /\ pc'[r] = "done"]_vars
    BY <1>1 DEF Next
<1> QED BY <1>2, Invariance, PTL DEF Spec, RemovedStaysRemoved

\* When the requests of a phone do not overlap, the table holds what it asked
\* for last: by Settled, since no registration is between its two writes.
THEOREM LastRequestWins == Spec => []LastRequestHonoured
<1>1. Inv => LastRequestHonoured
    BY DEF Inv, Settled, LastRequestHonoured, Saving, InFlight, Requests
<1> QED BY <1>1, Invariance, PTL

=============================================================================
