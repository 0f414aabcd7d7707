------------------------- MODULE IncomingCallProofs --------------------------
(***************************************************************************)
(* Proofs about the wake-up of a phone, for any set of calls and responses *)
(* and any sharing of users and keys.                                      *)
(***************************************************************************)
EXTENDS IncomingCallProps, TLAPS

LEMMA Times ==
    /\ Wait \in Nat /\ Resend \in Nat /\ TTL \in Nat
    /\ 0 < Resend /\ 0 < TTL
    BY TimeAssumption DEF TimeAssumption

LEMMA CallConstants ==
    /\ \A c \in Calls : KeyOf[c] \in Keys /\ UserOf[c] \in Users
    /\ \A u \in Users : PlatformOf[u] \in Platforms
    /\ (CHOOSE k \in Keys : TRUE) \in Keys
    BY CallAssumption DEF CallAssumption

LEMMA AttemptFacts ==
    /\ MaxAttempts \in Int
    /\ 1 \in Attempts
    /\ \A n \in Attempts \cup {0} : n < MaxAttempts => n + 1 \in Attempts
<1>1. Wait \div Resend \in Int
    BY Times
<1> QED BY <1>1 DEF MaxAttempts, Attempts

\* The entries of the cache.
CacheOK == cache \in [CacheKeys -> [val : CacheValues, ttl : 0 .. TTL]]

LEMMA CacheFacts ==
    ASSUME CacheOK
    PROVE  /\ \A k \in Keys : CallKey(k) \in CacheKeys /\ BareKey(k) \in CacheKeys
           /\ \A key \in CacheKeys : get(key) \in CacheValues
           /\ \A key \in CacheKeys, v \in CacheValues :
                 /\ stored(key, v) \in [CacheKeys -> [val : CacheValues, ttl : 0 .. TTL]]
                 /\ \A other \in CacheKeys :
                       stored(key, v)[other].val =
                          IF other = key THEN v ELSE cache[other].val
           /\ \A key \in CacheKeys :
                 /\ Expired(cache[key]) \in [val : CacheValues, ttl : 0 .. TTL]
                 /\ Expired(cache[key]).val \in {cache[key].val, "None"}
<1>1. \A k \in Keys : CallKey(k) \in CacheKeys /\ BareKey(k) \in CacheKeys
    BY DEF CallKey, BareKey, CacheKeys
<1>2. \A key \in CacheKeys : get(key) \in CacheValues
    BY DEF get, CacheOK
<1>3. ASSUME NEW key \in CacheKeys, NEW v \in CacheValues
      PROVE  /\ stored(key, v) \in [CacheKeys -> [val : CacheValues, ttl : 0 .. TTL]]
             /\ \A other \in CacheKeys :
                   stored(key, v)[other].val =
                      IF other = key THEN v ELSE cache[other].val
    BY <1>3, Times DEF stored, CacheOK
<1>4. ASSUME NEW key \in CacheKeys
      PROVE  /\ Expired(cache[key]) \in [val : CacheValues, ttl : 0 .. TTL]
             /\ Expired(cache[key]).val \in {cache[key].val, "None"}
    <2>1. cache[key] \in [val : CacheValues, ttl : 0 .. TTL]
        BY DEF CacheOK
    <2>2. "None" \in CacheValues
        BY DEF CacheValues
    <2> QED BY <2>1, <2>2, Times DEF Expired, Absent
<1> QED BY <1>1, <1>2, <1>3, <1>4

\* The answers are told apart from every other value of the cache.
LEMMA AnswerFacts ==
    /\ Answers \subseteq CacheValues /\ Platforms \subseteq CacheValues
    /\ "Removed" \in CacheValues /\ "None" \in CacheValues
    /\ \A v \in Platforms \cup {"None", "Removed"} : v \notin Answers
    BY DEF Answers, Platforms, CacheValues

----------------------------------------------------------------------------
(* Types.  A handler's variables, the push threads, the responses and the  *)
(* rest change apart from each other, so each has its own part.            *)

CallsOK ==
    /\ pc \in [Calls -> PCs]
    /\ remaining \in [Calls -> 0 .. Wait]
    /\ untilResend \in [Calls -> -1 .. Resend]
    /\ attempt \in [Calls -> Attempts \cup {0}]
    /\ available \in [Calls -> CacheValues]
    /\ reply \in [Calls -> {"none", "ACK", "NAK", "400", "500"}]
    /\ metrics \in [Calls -> SUBSET Metrics]

PushOK ==
    /\ push \in [Calls \X Attempts -> PushStates]
    /\ age \in [Calls \X Attempts -> 0 .. Wait + 1]

RespPCs == {"idle", "exists", "get", "set", "finish", "done"}
Codes   == {0, 202, 400, 404, 500}

RespRecord ==
    [pc : RespPCs, key : Keys, age : 0 .. Wait + 1, available : Answers,
     platform : CacheValues, status : Codes]

RespOK == resp \in [Responses -> RespRecord] /\ respLog \subseteq CacheValues

HeardOK == heard \in [Calls -> SUBSET (News \X BOOLEAN)]

LEMMA TypeParts ==
    TypeOK <=> /\ registered \subseteq Users
               /\ CacheOK /\ CallsOK /\ PushOK /\ RespOK /\ HeardOK
    BY DEF TypeOK, CacheOK, CallsOK, PushOK, RespOK, HeardOK, RespRecord, RespPCs,
        Codes

LEMMA TypePartsNext ==
    TypeOK' <=> /\ registered' \subseteq Users
                /\ CacheOK' /\ CallsOK' /\ PushOK' /\ RespOK' /\ HeardOK'
    BY DEF TypeOK, CacheOK, CallsOK, PushOK, RespOK, HeardOK, RespRecord, RespPCs,
        Codes

LEMMA NoResponseFacts == NoResponse \in RespRecord
    BY CallConstants, AnswerFacts, Times 
    DEF NoResponse, RespRecord, RespPCs, Codes, Answers

LEMMA ReturnedRecord ==
    \A x \in RespRecord, code \in Codes :
        [x EXCEPT !.pc = "done", !.status = code] \in RespRecord
<1>1. "done" \in RespPCs
    BY DEF RespPCs
<1> QED BY <1>1 DEF RespRecord

LEMMA TypeInit == Init => TypeOK
<1> SUFFICES ASSUME Init PROVE TypeOK
    OBVIOUS
<1>1. CacheOK
    BY AnswerFacts, Times DEF Init, CacheOK, Absent
<1>2. CallsOK
    BY AnswerFacts, Times DEF Init, CallsOK, PCs
<1>3. PushOK
    BY Times DEF Init, PushOK, PushStates
<1>4. RespOK
    BY NoResponseFacts DEF Init, RespOK
<1>5. HeardOK /\ registered \subseteq Users
    BY DEF Init, HeardOK
<1> QED BY <1>1, <1>2, <1>3, <1>4, <1>5, TypeParts

\* A handler that returns.
LEMMA ReturnType ==
    ASSUME TypeOK, NEW c \in Calls, NEW v \in {"ACK", "NAK", "400", "500"},
           NEW m \in SUBSET Metrics, Return(c, v, m)
    PROVE  TypeOK'
<1>1. CallsOK'
    <2>1. pc' \in [Calls -> PCs]
        BY DEF Return, TypeOK, PCs
    <2>2. /\ remaining' \in [Calls -> 0 .. Wait]
          /\ untilResend' \in [Calls -> -1 .. Resend]
          /\ attempt' \in [Calls -> Attempts \cup {0}]
        BY Times DEF Return, TypeOK
    <2>3. available' \in [Calls -> CacheValues]
        BY AnswerFacts DEF Return, TypeOK
    <2>4. reply' \in [Calls -> {"none", "ACK", "NAK", "400", "500"}]
        BY DEF Return, TypeOK
    <2>5. metrics' \in [Calls -> SUBSET Metrics]
        BY DEF Return, TypeOK
    <2> QED BY <2>1, <2>2, <2>3, <2>4, <2>5 DEF CallsOK
<1>2. UNCHANGED <<registered, cache, pushVars, resp, respLog, heard>>
    BY DEF Return
<1> QED BY <1>1, <1>2, TypeParts, TypePartsNext
        DEF CacheOK, PushOK, RespOK, HeardOK, pushVars

\* A handler of a call.
LEMMA HandlerType ==
    ASSUME TypeOK, NEW c \in Calls, HandlerStep(c) \/ Reject(c) \/ Abort(c)
    PROVE  TypeOK'
<1>1. CASE \E v \in {"ACK", "NAK", "400", "500"}, m \in SUBSET Metrics :
              Return(c, v, m)
    BY <1>1, ReturnType
<1>2. CASE LookupFound(c)
    <2>1. CallsOK'
        BY <1>2 DEF LookupFound, TypeOK, CallsOK, PCs, Metrics
    <2> QED BY <1>2, <2>1, TypeParts, TypePartsNext
            DEF LookupFound, CacheOK, PushOK, RespOK, HeardOK, pushVars
<1>3. CASE Notify(c)
    <2>1. CallsOK'
        BY <1>3, AttemptFacts DEF Notify, TypeOK, CallsOK, PCs
    <2>2. PushOK'
        BY <1>3, AttemptFacts DEF Notify, Spawn, TypeOK, PushOK, PushStates
    <2> QED BY <1>3, <2>1, <2>2, TypeParts, TypePartsNext
            DEF Notify, CacheOK, RespOK, HeardOK
<1>4. CASE StartTimers(c)
    <2>1. CallsOK'
        BY <1>4, Times DEF StartTimers, TypeOK, CallsOK, PCs
    <2> QED BY <1>4, <2>1, TypeParts, TypePartsNext
            DEF StartTimers, CacheOK, PushOK, RespOK, HeardOK, pushVars
<1>5. CASE SetPlaceholder(c)
    <2>1. CallsOK'
        BY <1>5 DEF SetPlaceholder, TypeOK, CallsOK, PCs
    <2>2. PlatformOf[UserOf[c]] \in CacheValues /\ KeyOf[c] \in Keys
        BY CallConstants, AnswerFacts
    <2>3. CacheOK'
        BY <1>5, <2>2, CacheFacts, TypeParts DEF SetPlaceholder, CacheOK
    <2> QED BY <1>5, <2>1, <2>3, TypeParts, TypePartsNext
            DEF SetPlaceholder, PushOK, RespOK, HeardOK, pushVars
<1>6. CASE LoopTest(c) \/ NoResend(c)
    <2>1. CallsOK'
        BY <1>6 DEF LoopTest, NoResend, TypeOK, CallsOK, PCs
    <2> QED BY <1>6, <2>1, TypeParts, TypePartsNext
            DEF LoopTest, NoResend, CacheOK, PushOK, RespOK, HeardOK, pushVars
<1>7. CASE Poll(c)
    <2>1. get(CallKey(KeyOf[c])) \in CacheValues
        BY CacheFacts, CallConstants, TypeParts
    <2>2. CallsOK'
        BY <1>7, <2>1 DEF Poll, TypeOK, CallsOK, PCs
    <2> QED BY <1>7, <2>2, TypeParts, TypePartsNext
            DEF Poll, CacheOK, PushOK, RespOK, HeardOK, pushVars
<1>8. CASE ResendPush(c)
    <2>1. attempt[c] + 1 \in Attempts
        BY <1>8, AttemptFacts DEF ResendPush, ResendDue, TypeOK
    <2>2. CallsOK'
        BY <1>8, <2>1, Times DEF ResendPush, TypeOK, CallsOK, PCs
    <2>3. PushOK'
        BY <1>8, <2>1 DEF ResendPush, Spawn, TypeOK, PushOK, PushStates
    <2> QED BY <1>8, <2>2, <2>3, TypeParts, TypePartsNext
            DEF ResendPush, CacheOK, RespOK, HeardOK
<1>9. CASE Abort(c)
    BY <1>1, <1>9 DEF Abort, PendingLists
<1> QED
    BY <1>1, <1>2, <1>3, <1>4, <1>5, <1>6, <1>7, <1>8, <1>9
    DEF HandlerStep, Reject, LookupMissing, LookupError, TimeOut, Ack, Nak, Metrics

\* A news of the phone is kept for the calls that poll its key.
LEMMA HeardType ==
    ASSUME HeardOK, NEW k, NEW a \in News, HeardOf(k, a)
    PROVE  HeardOK'
<1>1. \A c \in Calls : InTime(c) \in BOOLEAN
    BY DEF InTime
<1> QED BY <1>1 DEF HeardOf, HeardOK

\* A push thread.
LEMMA PushType ==
    ASSUME TypeOK, NEW p \in Calls \X Attempts, PushStep(p)
    PROVE  TypeOK'
<1>1. ASSUME NEW s \in PushStates, PushTo(p, s),
             age' \in [Calls \X Attempts -> 0 .. Wait + 1]
      PROVE  PushOK' /\ CallsOK' /\ RespOK'
    BY <1>1, TypeParts DEF PushTo, CallsOK, PushOK, RespOK, callVars
<1>2. CASE PushStamp(p) \/ PushSend(p) \/ PushFailed(p) \/ PushRejected(p)
    <2>1. age' \in [Calls \X Attempts -> 0 .. Wait + 1]
        BY <1>2, Times DEF PushStamp, PushSend, PushFailed, PushRejected, TypeOK
    <2>2. \E s \in PushStates : PushTo(p, s)
        BY <1>2 DEF PushStamp, PushSend, PushFailed, PushRejected, PushStates
    <2> QED BY <1>1, <1>2, <2>1, <2>2, TypeParts, TypePartsNext
            DEF PushStamp, PushSend, PushFailed, PushRejected, CacheOK, HeardOK
<1>3. CASE MarkRemoved(p)
    <2>1. KeyOf[p[1]] \in Keys
        BY CallConstants
    <2>2. CacheOK'
        BY <1>3, <2>1, CacheFacts, AnswerFacts, TypeParts DEF MarkRemoved, CacheOK
    <2>3. HeardOK'
        BY <1>3, HeardType, TypeParts DEF MarkRemoved, News
    <2>4. PushOK' /\ CallsOK' /\ RespOK'
        BY <1>1, <1>3 DEF MarkRemoved, PushStates, TypeOK
    <2> QED BY <1>3, <2>2, <2>3, <2>4, TypeParts, TypePartsNext DEF MarkRemoved
<1>4. CASE RemoveDevice(p)
    <2>1. PushOK' /\ CallsOK' /\ RespOK'
        BY <1>1, <1>4 DEF RemoveDevice, PushStates, TypeOK
    <2> QED BY <1>4, <2>1, TypeParts, TypePartsNext
            DEF RemoveDevice, CacheOK, HeardOK
<1> QED BY <1>2, <1>3, <1>4 DEF PushStep

\* The handler of a response.
LEMMA RespType ==
    ASSUME TypeOK, NEW r \in Responses,
           \/ RespStep(r) \/ RespInvalid(r) \/ RespAbort(r)
           \/ \E p \in Calls \X Attempts, a \in Answers : Respond(r, p, a)
    PROVE  TypeOK'
<1>1. ASSUME NEW fields \in RespRecord, RespTo(r, fields),
             respLog' \subseteq CacheValues
      PROVE  RespOK' /\ CallsOK' /\ PushOK' /\ registered' \subseteq Users
    BY <1>1, TypeParts DEF RespTo, CallsOK, PushOK, RespOK, callVars, pushVars
<1>2. resp[r] \in RespRecord /\ resp[r].key \in Keys
    BY TypeParts DEF RespOK, RespRecord
<1>3. CASE \/ RespFound(r) \/ RespGet(r) \/ RespUnknown(r)
           \/ RespInvalid(r) \/ RespAbort(r) \/ RespFinish(r)
    <2>1. \E fields \in RespRecord : RespTo(r, fields)
        <3>1. get(CallKey(resp[r].key)) \in CacheValues
            BY <1>2, CacheFacts, TypeParts
        <3>2. CASE RespFound(r)
            BY <1>2, <3>2 DEF RespFound, RespRecord, RespPCs
        <3>3. CASE RespGet(r)
            BY <1>2, <3>1, <3>3 DEF RespGet, RespRecord, RespPCs
        <3>4. ASSUME NEW code \in Codes, RespReturn(r, code)
              PROVE  \E fields \in RespRecord : RespTo(r, fields)
            <4>1. [NoResponse EXCEPT !.pc = "done", !.status = code]
                    \in RespRecord
                BY NoResponseFacts, ReturnedRecord
            <4> QED BY <3>4, <4>1 DEF RespReturn
        <3>5. CASE RespFinish(r)
            <4>1. RespReturn(r, 404) \/ RespReturn(r, 202)
                BY <3>5 DEF RespFinish
            <4> QED BY <3>4, <4>1 DEF Codes
        <3>6. CASE RespUnknown(r)
            BY <3>4, <3>6 DEF RespUnknown, Codes
        <3>7. CASE RespInvalid(r)
            BY <3>4, <3>7 DEF RespInvalid, Codes
        <3>8. CASE RespAbort(r)
            BY <3>4, <3>8 DEF RespAbort, Codes
        <3> QED BY <1>3, <3>2, <3>3, <3>5, <3>6, <3>7, <3>8
    <2>2. respLog' \subseteq CacheValues
        <3>1. respLog \subseteq CacheValues /\ resp[r].platform \in CacheValues
            BY <1>2, TypeParts DEF RespOK, RespRecord
        <3>2. respLog' \subseteq respLog \cup {resp[r].platform}
            BY <1>3 DEF RespFound, RespGet, RespUnknown, RespInvalid,
                        RespAbort, RespFinish, LogToDb
        <3> QED BY <3>1, <3>2
    <2>3. UNCHANGED <<cache, heard>>
        BY <1>3 DEF RespFound, RespGet, RespUnknown, RespInvalid, RespAbort,
                    RespFinish
    <2> QED BY <1>1, <2>1, <2>2, <2>3, TypeParts, TypePartsNext
            DEF CacheOK, HeardOK
<1>4. CASE RespSet(r)
    <2>1. resp[r].available \in Answers
        BY <1>2 DEF RespRecord
    <2>2. CacheOK'
        BY <1>2, <1>4, <2>1, CacheFacts, AnswerFacts, TypeParts
        DEF RespSet, CacheOK
    <2>3. HeardOK'
        BY <1>4, <2>1, HeardType, TypeParts DEF RespSet, News
    <2>4. [resp[r] EXCEPT !.pc = "finish"] \in RespRecord
        BY <1>2 DEF RespRecord, RespPCs
    <2>5. respLog' \subseteq CacheValues
        BY <1>4, TypeParts DEF RespSet, RespOK
    <2> QED BY <1>1, <1>4, <2>2, <2>3, <2>4, <2>5, TypeParts, TypePartsNext
            DEF RespSet
<1>5. ASSUME NEW p \in Calls \X Attempts, NEW a \in Answers, Respond(r, p, a)
      PROVE  TypeOK'
    <2>1. KeyOf[p[1]] \in Keys /\ age[p] \in 0 .. Wait + 1
        BY CallConstants, TypeParts DEF PushOK
    <2>2. \E fields \in RespRecord : RespTo(r, fields)
        BY <1>2, <1>5, <2>1 DEF Respond, RespRecord, RespPCs
    <2>3. respLog' \subseteq CacheValues /\ UNCHANGED <<cache, heard>>
        BY <1>5, TypeParts DEF Respond, RespOK
    <2> QED BY <1>1, <2>2, <2>3, TypeParts, TypePartsNext DEF CacheOK, HeardOK
<1> QED BY <1>3, <1>4, <1>5 DEF RespStep

\* A poll interval.
LEMMA TickType == ASSUME TypeOK, Tick PROVE TypeOK'
<1>1. CallsOK'
    <2>1. /\ remaining' \in [Calls -> 0 .. Wait]
          /\ untilResend' \in [Calls -> -1 .. Resend]
        BY Times DEF Tick, Lowered, TypeOK
    <2>2. pc' \in [Calls -> PCs]
        BY DEF Tick, TypeOK, PCs
    <2> QED BY <2>1, <2>2 DEF Tick, TypeOK, CallsOK
<1>2. \A a \in 0 .. Wait + 1 : Aged(a) \in 0 .. Wait + 1
    BY Times DEF Aged
<1>3. PushOK'
    BY <1>2 DEF Tick, TypeOK, PushOK
<1>4. RespOK'
    <2>1. \A r \in Responses :
            [resp[r] EXCEPT !.age = Aged(resp[r].age)] \in RespRecord
        BY <1>2, TypeParts DEF RespOK, RespRecord
    <2> QED BY <2>1, TypeParts DEF Tick, RespOK
<1>5. CacheOK'
    BY CacheFacts, TypeParts DEF Tick, CacheOK
<1> QED BY <1>1, <1>3, <1>4, <1>5, TypeParts, TypePartsNext
        DEF Tick, HeardOK

LEMMA TypeStep == TypeOK /\ [Next]_vars => TypeOK'
<1> SUFFICES ASSUME TypeOK, [Next]_vars PROVE TypeOK'
    OBVIOUS
<1>1. ASSUME NEW u \in Users, Register(u) \/ Unregister(u) PROVE TypeOK'
    BY <1>1, TypeParts, TypePartsNext
    DEF Register, Unregister, CacheOK, CallsOK, PushOK, RespOK, HeardOK,
        callVars, pushVars
<1>2. CASE UNCHANGED vars
    BY <1>2, TypeParts, TypePartsNext
    DEF vars, CacheOK, CallsOK, PushOK, RespOK, HeardOK, callVars, pushVars
<1> QED
    BY <1>1, <1>2, HandlerType, PushType, RespType, TickType DEF Next, Untimed

\* Every variable keeps its type: the cache holds only values that the
\* handlers and push threads write, and no more pushes are sent for a call
\* than its attempts, however the calls and responses interleave.
THEOREM TypeCorrect == Spec => []TypeOK
    BY TypeInit, TypeStep, PTL DEF Spec

----------------------------------------------------------------------------
(* A decision follows what the phone said.  An answer that a polling call  *)
(* finds in the cache was given while it polled, since its placeholder has *)
(* replaced whatever was there before, and so was one it has read.         *)

CacheHeard ==
    \A c \in Calls : pc[c] \in InLoop =>
        \A a \in Answers : get(CallKey(KeyOf[c])) = a => Heard(c, a)

ReadHeard ==
    \A c \in Calls : pc[c] = "decide" =>
        \A a \in Answers : available[c] = a => Heard(c, a)

DecisionInv == /\ TypeOK /\ CacheHeard /\ ReadHeard
               /\ AckOnlyWhenAnswered /\ UnavailableOnlyWhenRefused

LEMMA DecisionInit == Init => DecisionInv
<1> SUFFICES ASSUME Init PROVE DecisionInv
    OBVIOUS
<1>1. TypeOK
    BY TypeInit
<1>2. CacheHeard /\ ReadHeard
    BY DEF Init, CacheHeard, ReadHeard, InLoop
<1>3. AckOnlyWhenAnswered /\ UnavailableOnlyWhenRefused
    BY DEF Init, AckOnlyWhenAnswered, UnavailableOnlyWhenRefused
<1> QED BY <1>1, <1>2, <1>3 DEF DecisionInv

\* News is never forgotten.
LEMMA NewsStays ==
    ASSUME HeardOK, UNCHANGED heard \/ \E k, a : HeardOf(k, a)
    PROVE  \A c \in Calls, a \in Answers : Heard(c, a) => Heard(c, a)'
    BY DEF Heard, HeardOf, HeardOK

\* News reaches every call that polls its key.
LEMMA NewsArrives ==
    ASSUME NEW k, NEW a, HeardOf(k, a), NEW c \in Calls,
           KeyOf[c] = k, pc[c] \in InLoop
    PROVE  Heard(c, a)'
<1>1. <<a, InTime(c)>> \in heard'[c]
    BY DEF HeardOf
<1>2. InTime(c) \in BOOLEAN
    BY DEF InTime
<1> QED BY <1>1, <1>2 DEF Heard

\* A step keeps the invariant if it begins no loop, gives a polling call no
\* answer to find, and decides nothing.
LEMMA Quiet ==
    ASSUME DecisionInv, TypeOK',
           \A c \in Calls, a \in Answers : Heard(c, a) => Heard(c, a)',
           \A c \in Calls : /\ pc'[c] \in InLoop => pc[c] \in InLoop
                            /\ pc'[c] = "decide" => /\ pc[c] = "decide"
                                                    /\ available'[c] = available[c]
                            /\ reply'[c] = "ACK" => reply[c] = "ACK"
                            /\ "not_available" \in metrics'[c]
                                 => "not_available" \in metrics[c],
           \A c \in Calls, a \in Answers :
               pc[c] \in InLoop /\ get(CallKey(KeyOf[c]))' = a
                   => get(CallKey(KeyOf[c])) = a
    PROVE  DecisionInv'
<1>1. "True" \in Answers /\ "False" \in Answers
    BY DEF Answers
<1>2. CacheHeard'
    BY DEF DecisionInv, CacheHeard
<1>3. ReadHeard'
    BY DEF DecisionInv, ReadHeard
<1>4. AckOnlyWhenAnswered' /\ UnavailableOnlyWhenRefused'
    BY <1>1 DEF DecisionInv, AckOnlyWhenAnswered, UnavailableOnlyWhenRefused
<1> QED BY <1>2, <1>3, <1>4 DEF DecisionInv

\* A handler that returns keeps it too, if it heard the decision it returns.
LEMMA ReturnDecision ==
    ASSUME DecisionInv, TypeOK', NEW c \in Calls, NEW v, NEW m, Return(c, v, m),
           v = "ACK" => Heard(c, "True"),
           "not_available" \in m => Heard(c, "False")
    PROVE  DecisionInv'
<1>1. UNCHANGED <<cache, heard>>
    BY DEF Return
<1>2. \A d \in Calls : \A a : Heard(d, a) => Heard(d, a)'
    BY <1>1 DEF Heard
<1>3. \A d \in Calls : /\ pc'[d] = IF d = c THEN "done" ELSE pc[d]
                       /\ available'[d] = IF d = c THEN "None" ELSE available[d]
                       /\ reply'[d] = IF d = c THEN v ELSE reply[d]
                       /\ metrics'[d] = IF d = c THEN metrics[c] \cup m
                                        ELSE metrics[d]
    BY DEF Return, DecisionInv, TypeOK
<1>4. CacheHeard' /\ ReadHeard'
    BY <1>1, <1>2, <1>3 DEF DecisionInv, CacheHeard, ReadHeard, get, InLoop
<1>5. AckOnlyWhenAnswered'
    BY <1>2, <1>3 DEF DecisionInv, AckOnlyWhenAnswered
<1>6. UnavailableOnlyWhenRefused'
    BY <1>2, <1>3 DEF DecisionInv, UnavailableOnlyWhenRefused
<1> QED BY <1>4, <1>5, <1>6 DEF DecisionInv

LEMMA HandlerDecision ==
    ASSUME DecisionInv, NEW c \in Calls, HandlerStep(c) \/ Reject(c) \/ Abort(c)
    PROVE  DecisionInv'
<1>1. TypeOK'
    BY HandlerType DEF DecisionInv
<1>2. \A a : UNCHANGED heard => \A d \in Calls : Heard(d, a) => Heard(d, a)'
    BY DEF Heard
<1>3. \A d \in Calls : CallKey(KeyOf[d]) \in CacheKeys
    BY CallConstants, CacheFacts DEF DecisionInv, TypeOK, CacheOK
<1>4. CASE Reject(c) \/ LookupMissing(c) \/ LookupError(c) \/ TimeOut(c)
    BY <1>1, <1>4, ReturnDecision
    DEF Reject, LookupMissing, LookupError, TimeOut
<1>10. CASE Abort(c)
    <2>1. PICK m \in SUBSET PendingLists(c) : Return(c, "500", m)
        BY <1>10 DEF Abort
    <2>2. "not_available" \in m => Heard(c, "False")
        BY DEF PendingLists, DecisionInv, ReadHeard, Answers
    <2> QED BY <1>1, <2>1, <2>2, ReturnDecision
<1>5. CASE Ack(c)
    <2>1. Heard(c, "True")
        BY <1>5 DEF Ack, DecisionInv, ReadHeard, Answers
    <2> QED BY <1>1, <1>5, <2>1, ReturnDecision DEF Ack
<1>6. CASE Nak(c)
    <2>1. available[c] = "False" => Heard(c, "False")
        BY <1>6 DEF Nak, DecisionInv, ReadHeard, Answers
    <2> QED BY <1>1, <1>6, <2>1, ReturnDecision DEF Nak
<1>7. CASE LookupFound(c) \/ Notify(c) \/ StartTimers(c) \/ LoopTest(c)
           \/ ResendPush(c) \/ NoResend(c)
    <2>1. UNCHANGED <<cache, available, reply, heard>>
        BY <1>7 DEF LookupFound, Notify, StartTimers, LoopTest, ResendPush,
                    NoResend
    <2>2. \A d \in Calls : /\ pc'[d] \in InLoop => pc[d] \in InLoop
                           /\ pc'[d] = "decide" => pc[d] = "decide"
        BY <1>7 DEF LookupFound, Notify, StartTimers, LoopTest, ResendPush,
                    NoResend, Undecided, InLoop, DecisionInv, TypeOK
    <2>3. \A d \in Calls : "not_available" \in metrics'[d]
                              => "not_available" \in metrics[d]
        BY <1>7 DEF LookupFound, Notify, StartTimers, LoopTest, ResendPush,
                    NoResend, DecisionInv, TypeOK
    <2> QED BY <1>1, <1>2, <2>1, <2>2, <2>3, Quiet DEF get
<1>8. CASE SetPlaceholder(c)
    <2>1. PlatformOf[UserOf[c]] \in CacheValues \ Answers
        BY CallConstants, AnswerFacts
    <2>2. /\ UNCHANGED <<available, reply, metrics, heard>>
          /\ \A d \in Calls : pc'[d] = IF d = c THEN "test" ELSE pc[d]
        BY <1>8 DEF SetPlaceholder, DecisionInv, TypeOK
    <2>3. \A d \in Calls : get(CallKey(KeyOf[d]))' =
                              IF CallKey(KeyOf[d]) = CallKey(KeyOf[c])
                              THEN PlatformOf[UserOf[c]]
                              ELSE get(CallKey(KeyOf[d]))
        <3> DEFINE key == CallKey(KeyOf[c])
                   v == PlatformOf[UserOf[c]]
        <3>1. key \in CacheKeys /\ v \in CacheValues /\ CacheOK
            BY <1>3, <2>1, TypeParts DEF DecisionInv
        <3>2. \A other \in CacheKeys : stored(key, v)[other].val =
                                          IF other = key THEN v
                                          ELSE cache[other].val
            BY <3>1, CacheFacts
        <3>3. cache' = stored(key, v)
            BY <1>8 DEF SetPlaceholder
        <3> HIDE DEF key, v
        <3>4. \A other \in CacheKeys :
                cache'[other].val = IF other = key THEN v ELSE cache[other].val
            BY <3>2, <3>3
        <3> QED BY <1>3, <3>4 DEF get, key, v
    <2>4. CacheHeard'
        <3> SUFFICES ASSUME NEW d \in Calls, pc'[d] \in InLoop,
                            get(CallKey(KeyOf[d]))' \in Answers
                     PROVE  Heard(d, get(CallKey(KeyOf[d])))'
            BY DEF CacheHeard
        <3>1. CallKey(KeyOf[d]) # CallKey(KeyOf[c])
            BY <2>1, <2>3
        <3>2. d # c /\ get(CallKey(KeyOf[d]))' = get(CallKey(KeyOf[d]))
            BY <2>3, <3>1
        <3> QED BY <1>2, <2>2, <3>2 DEF DecisionInv, CacheHeard
    <2>5. ReadHeard' /\ AckOnlyWhenAnswered' /\ UnavailableOnlyWhenRefused'
        BY <1>2, <2>2 DEF DecisionInv, ReadHeard, AckOnlyWhenAnswered,
                          UnavailableOnlyWhenRefused
    <2> QED BY <1>1, <2>4, <2>5 DEF DecisionInv
<1>9. CASE Poll(c)
    <2>1. /\ UNCHANGED <<cache, reply, metrics, heard>>
          /\ \A d \in Calls : /\ pc'[d] = IF d = c THEN "decide" ELSE pc[d]
                              /\ available'[d] = IF d = c
                                                 THEN get(CallKey(KeyOf[c]))
                                                 ELSE available[d]
        BY <1>9 DEF Poll, DecisionInv, TypeOK
    <2>2. pc[c] \in InLoop
        BY <1>9 DEF Poll, InLoop
    <2>3. CacheHeard' /\ ReadHeard'
        BY <1>2, <2>1, <2>2 DEF DecisionInv, CacheHeard, ReadHeard, get
    <2>4. AckOnlyWhenAnswered' /\ UnavailableOnlyWhenRefused'
        BY <1>2, <2>1 DEF DecisionInv, AckOnlyWhenAnswered,
                          UnavailableOnlyWhenRefused
    <2> QED BY <1>1, <2>3, <2>4 DEF DecisionInv
<1> QED BY <1>4, <1>5, <1>6, <1>7, <1>8, <1>9, <1>10 DEF HandlerStep

LEMMA PushDecision ==
    ASSUME DecisionInv, NEW p \in Calls \X Attempts, PushStep(p)
    PROVE  DecisionInv'
<1>1. TypeOK'
    BY PushType DEF DecisionInv
<1>2. \A c \in Calls, a \in Answers : Heard(c, a) => Heard(c, a)'
    <2>1. HeardOK
        BY TypeParts DEF DecisionInv
    <2>2. UNCHANGED heard \/ \E k, a : HeardOf(k, a)
        BY DEF PushStep, PushStamp, PushSend, PushFailed, PushRejected, MarkRemoved,
               RemoveDevice
    <2> QED BY <2>1, <2>2, NewsStays
<1>3. UNCHANGED callVars
    BY DEF PushStep, PushStamp, PushSend, PushFailed, PushRejected, MarkRemoved,
           RemoveDevice, PushTo
<1>4. \A c \in Calls : get(CallKey(KeyOf[c]))' = get(CallKey(KeyOf[c]))
    <2>1. CASE MarkRemoved(p)
        <3> DEFINE key == BareKey(KeyOf[p[1]])
        <3>1. CacheOK /\ key \in CacheKeys
            BY CallConstants, CacheFacts, TypeParts DEF DecisionInv
        <3>2. cache' \in {cache, stored(key, "Removed")}
            BY <2>1 DEF MarkRemoved
        <3>3. \A c \in Calls : /\ CallKey(KeyOf[c]) \in CacheKeys
                               /\ CallKey(KeyOf[c]) # key
            BY <3>1, CallConstants, CacheFacts DEF CallKey, BareKey
        <3>4. \A other \in CacheKeys :
                other # key => stored(key, "Removed")[other].val
                                  = cache[other].val
            BY <3>1, CacheFacts, AnswerFacts
        <3> HIDE DEF key
        <3> QED BY <3>2, <3>3, <3>4 DEF get
    <2>2. CASE ~ MarkRemoved(p)
        BY <2>2 DEF PushStep, PushStamp, PushSend, PushFailed, PushRejected, RemoveDevice,
                    get
    <2> QED BY <2>1, <2>2
<1> QED BY <1>1, <1>2, <1>3, <1>4, Quiet DEF callVars

LEMMA RespDecision ==
    ASSUME DecisionInv, NEW r \in Responses,
           \/ RespStep(r) \/ RespInvalid(r) \/ RespAbort(r)
           \/ \E p \in Calls \X Attempts, a \in Answers : Respond(r, p, a)
    PROVE  DecisionInv'
<1>1. TypeOK'
    BY RespType DEF DecisionInv
<1>2. UNCHANGED callVars
    BY DEF RespStep, RespFound, RespUnknown, RespGet, RespSet, RespFinish,
           RespInvalid, RespAbort, Respond, RespReturn, RespTo
<1>3. CASE RespSet(r)
    <2>0. PICK k \in Keys, v \in Answers :
            k = resp[r].key /\ v = resp[r].available
        BY TypeParts DEF DecisionInv, RespOK, RespRecord
    <2> DEFINE key == CallKey(k)
    <2>1. CacheOK /\ HeardOK /\ key \in CacheKeys /\ v \in CacheValues
        BY CacheFacts, TypeParts, AnswerFacts DEF DecisionInv
    <2>2. cache' = stored(key, v) /\ HeardOf(k, v)
        BY <1>3, <2>0 DEF RespSet
    <2>3. \A c \in Calls, a \in Answers : Heard(c, a) => Heard(c, a)'
        BY <2>1, <2>2, NewsStays
    <2>4. \A c \in Calls : CallKey(KeyOf[c]) \in CacheKeys
        BY <2>1, CallConstants, CacheFacts
    <2>5. \A other \in CacheKeys :
            stored(key, v)[other].val = IF other = key THEN v
                                        ELSE cache[other].val
        BY <2>1, CacheFacts
    <2>6. \A c \in Calls : CallKey(KeyOf[c]) = key => KeyOf[c] = k
        BY DEF CallKey, key
    <2>7. ASSUME NEW c \in Calls, pc[c] \in InLoop, KeyOf[c] = k
          PROVE  Heard(c, v)'
        BY <2>2, <2>7, NewsArrives
    <2> HIDE DEF key
    <2>8. CacheHeard'
        <3> SUFFICES ASSUME NEW c \in Calls, pc'[c] \in InLoop,
                            NEW a \in Answers, get(CallKey(KeyOf[c]))' = a
                     PROVE  Heard(c, a)'
            BY DEF CacheHeard
        <3>1. pc[c] \in InLoop
            BY <1>2 DEF callVars
        <3>2. CASE CallKey(KeyOf[c]) = key
            <4>1. a = v
                BY <2>2, <2>4, <2>5, <3>2 DEF get
            <4> QED BY <2>6, <2>7, <3>1, <3>2, <4>1
        <3>3. CASE CallKey(KeyOf[c]) # key
            <4>1. get(CallKey(KeyOf[c])) = a
                BY <2>2, <2>4, <2>5, <3>3 DEF get
            <4> QED BY <2>3, <3>1, <4>1 DEF DecisionInv, CacheHeard
        <3> QED BY <3>2, <3>3
    <2>9. ReadHeard'
        BY <1>2, <2>3 DEF callVars, DecisionInv, ReadHeard
    <2>10. AckOnlyWhenAnswered' /\ UnavailableOnlyWhenRefused'
        <3>1. "True" \in Answers /\ "False" \in Answers
            BY DEF Answers
        <3> QED BY <1>2, <2>3, <3>1
                DEF callVars, DecisionInv, AckOnlyWhenAnswered,
                    UnavailableOnlyWhenRefused
    <2> QED BY <1>1, <2>8, <2>9, <2>10 DEF DecisionInv
<1>4. CASE UNCHANGED <<cache, heard>>
    <2>1. \A c \in Calls, a \in Answers : Heard(c, a) => Heard(c, a)'
        BY <1>4 DEF Heard
    <2> QED BY <1>1, <1>2, <1>4, <2>1, Quiet DEF callVars, get
<1> QED BY <1>3, <1>4
        DEF RespStep, RespFound, RespUnknown, RespGet, RespFinish, RespInvalid,
            RespAbort, Respond

LEMMA TickDecision == ASSUME DecisionInv, Tick PROVE DecisionInv'
<1>1. TypeOK'
    BY TickType DEF DecisionInv
<1>2. \A c \in Calls, a \in Answers : Heard(c, a) => Heard(c, a)'
    BY DEF Tick, Heard
<1>3. \A c \in Calls : /\ pc'[c] \in InLoop => pc[c] \in InLoop
                       /\ pc'[c] = "decide" => pc[c] = "decide"
    BY DEF Tick, InLoop
<1>4. \A c \in Calls, a \in Answers :
        get(CallKey(KeyOf[c]))' = a => get(CallKey(KeyOf[c])) = a
    <2>1. CacheOK
        BY TypeParts DEF DecisionInv
    <2>2. \A c \in Calls : CallKey(KeyOf[c]) \in CacheKeys
        BY <2>1, CallConstants, CacheFacts
    <2>3. \A key \in CacheKeys : cache'[key].val \in {cache[key].val, "None"}
        BY <2>1, CacheFacts DEF Tick
    <2> QED BY <2>2, <2>3, AnswerFacts DEF get
<1> QED BY <1>1, <1>2, <1>3, <1>4, Quiet DEF Tick

LEMMA DecisionStep == DecisionInv /\ [Next]_vars => DecisionInv'
<1> SUFFICES ASSUME DecisionInv, [Next]_vars PROVE DecisionInv'
    OBVIOUS
<1>1. TypeOK'
    BY TypeStep DEF DecisionInv
<1>2. ASSUME \/ UNCHANGED vars
             \/ \E u \in Users : Register(u) \/ Unregister(u)
      PROVE  DecisionInv'
    <2>1. UNCHANGED <<cache, callVars, heard>>
        BY <1>2 DEF Register, Unregister, vars
    <2>2. \A c \in Calls, a \in Answers : Heard(c, a) => Heard(c, a)'
        BY <2>1 DEF Heard
    <2> QED BY <1>1, <2>1, <2>2, Quiet DEF callVars, get
<1> QED BY <1>2, HandlerDecision, PushDecision, RespDecision, TickDecision
        DEF Next, Untimed

\* Asterisk gets an ACK only for a call whose phone said yes while the call
\* was polling, for any number of calls that share users and unique_keys, any
\* number of responses, and any interleaving with pushes, expiry and errors.
THEOREM AckIsAnswered == Spec => []AckOnlyWhenAnswered
<1>1. Spec => []DecisionInv
    BY DecisionInit, DecisionStep, PTL DEF Spec
<1> QED BY <1>1, PTL DEF DecisionInv

\* And no call is counted as refused whose phone did not say no meanwhile.
THEOREM RefusalIsAnswered == Spec => []UnavailableOnlyWhenRefused
<1>1. Spec => []DecisionInv
    BY DecisionInit, DecisionStep, PTL DEF Spec
<1> QED BY <1>1, PTL DEF DecisionInv

----------------------------------------------------------------------------
(* How far a handler is from its answer.                                   *)

Nearer(c) == /\ StepsLeft(c)' \in 0 .. StepsLeft(c)
             /\ pc'[c] # pc[c] => StepsLeft(c)' < StepsLeft(c)

LEMMA TimerFacts ==
    ASSUME TypeOK, TypeOK', NEW c \in Calls
    PROVE  /\ remaining[c] \in Nat /\ remaining[c] <= Wait
           /\ remaining'[c] \in Nat /\ remaining'[c] <= Wait
           /\ pc[c] \in PCs /\ pc'[c] \in PCs /\ Wait \in Nat
    BY Times DEF TypeOK

\* A step of another process lets time pass at most.
LEMMA StaysNear ==
    ASSUME TypeOK, TypeOK', NEW c \in Calls, pc'[c] = pc[c],
           remaining'[c] <= remaining[c]
    PROVE  Nearer(c)
<1> DEFINE t == remaining[c]
           u == remaining'[c]
<1>1. t \in Nat /\ u \in Nat /\ u <= t /\ pc[c] \in PCs /\ Wait \in Nat
    BY TimerFacts
<1> HIDE DEF t, u
<1>2. \A label \in PCs : StepsAt(u)[label] \in 0 .. StepsAt(t)[label]
    BY <1>1 DEF StepsAt, PCs
<1> QED BY <1>1, <1>2 DEF Nearer, StepsLeft, t, u

\* A handler that returns has no step left.
LEMMA ReturnIsNearer ==
    ASSUME TypeOK, TypeOK', NEW c \in Calls, NEW v, NEW m, Return(c, v, m),
           pc[c] # "done"
    PROVE  Nearer(c)
<1> DEFINE t == remaining[c]
           u == remaining'[c]
<1>1. t \in Nat /\ u \in Nat /\ pc[c] \in PCs /\ pc'[c] = "done" /\ Wait \in Nat
    BY TimerFacts DEF Return, TypeOK
<1> HIDE DEF t, u
<1>2. StepsAt(u)["done"] = 0
    BY <1>1 DEF StepsAt
<1>3. \A label \in PCs \ {"done"} : StepsAt(t)[label] \in Nat \ {0}
    BY <1>1 DEF StepsAt, PCs
<1> QED BY <1>1, <1>2, <1>3 DEF Nearer, StepsLeft, t, u

LEMMA HandlerIsNearer ==
    ASSUME TypeOK, TypeOK', NEW c \in Calls, HandlerStep(c) \/ Reject(c) \/ Abort(c)
    PROVE  Nearer(c)
<1> DEFINE t == remaining[c]
           u == remaining'[c]
<1>1. t \in Nat /\ u \in Nat /\ t <= Wait /\ u <= Wait /\ Wait \in Nat
    BY TimerFacts
<1>2. CASE \/ Reject(c) \/ LookupMissing(c) \/ LookupError(c) \/ TimeOut(c)
           \/ Ack(c) \/ Nak(c) \/ Abort(c)
    BY <1>2, ReturnIsNearer
    DEF Reject, LookupMissing, LookupError, TimeOut, Ack, Nak, Abort, CallsOut
<1>3. CASE LookupFound(c) \/ Notify(c)
    <2>1. <<pc[c], pc'[c]>> \in {<<"idle", "notify">>, <<"notify", "timers">>}
        BY <1>3 DEF LookupFound, Notify, TypeOK
    <2> HIDE DEF t, u
    <2>2. /\ StepsAt(u)["notify"] \in 0 .. StepsAt(t)["idle"] - 1
          /\ StepsAt(u)["timers"] \in 0 .. StepsAt(t)["notify"] - 1
          /\ StepsAt(t)["idle"] \in Nat /\ StepsAt(t)["notify"] \in Nat
        BY <1>1 DEF StepsAt
    <2> QED BY <1>1, <2>1, <2>2 DEF Nearer, StepsLeft, t, u
<1>4. CASE StartTimers(c)
    <2>1. pc[c] = "timers" /\ pc'[c] = "placeholder"
        BY <1>4 DEF StartTimers, TypeOK
    <2> HIDE DEF t, u
    <2>2. /\ StepsAt(u)["placeholder"] \in Nat /\ StepsAt(t)["timers"] \in Int
          /\ StepsAt(u)["placeholder"] < StepsAt(t)["timers"]
        BY <1>1 DEF StepsAt
    <2> QED BY <2>1, <2>2 DEF Nearer, StepsLeft, t, u
<1>5. CASE \/ SetPlaceholder(c) \/ LoopTest(c) \/ Poll(c) \/ ResendPush(c)
           \/ NoResend(c)
    <2>1. /\ u = t
          /\ \/ pc[c] = "placeholder" /\ pc'[c] = "test"
             \/ pc[c] = "test" /\ pc'[c] = "poll" /\ t > 0
             \/ pc[c] = "poll" /\ pc'[c] = "decide"
             \/ pc[c] = "decide" /\ pc'[c] = "sleep"
        BY <1>5 DEF SetPlaceholder, LoopTest, Poll, ResendPush, NoResend,
                    Undecided, TypeOK
    <2> HIDE DEF t, u
    <2>2. /\ StepsAt(t)["test"] < StepsAt(t)["placeholder"]
          /\ t > 0 => StepsAt(t)["poll"] < StepsAt(t)["test"]
          /\ StepsAt(t)["decide"] < StepsAt(t)["poll"]
          /\ StepsAt(t)["sleep"] < StepsAt(t)["decide"]
          /\ \A label \in {"placeholder", "test", "poll", "decide", "sleep"} :
                StepsAt(t)[label] \in Nat
        BY <1>1 DEF StepsAt
    <2> QED BY <2>1, <2>2 DEF Nearer, StepsLeft, t, u
<1> QED BY <1>2, <1>3, <1>4, <1>5 DEF HandlerStep

\* A sleep ends with the interval it has waited for.
LEMMA TickIsNearer ==
    ASSUME TypeOK, TypeOK', NEW c \in Calls, Tick PROVE Nearer(c)
<1> DEFINE t == remaining[c]
           u == remaining'[c]
<1>1. /\ t \in Nat /\ u \in Nat /\ Wait \in Nat
      /\ u = IF t > 0 THEN t - 1 ELSE 0
    BY TimerFacts DEF Tick, Lowered
<1>2. CASE pc[c] = "sleep"
    <2>1. pc'[c] = "test"
        BY <1>2 DEF Tick
    <2> HIDE DEF t, u
    <2>2. /\ StepsAt(u)["test"] < StepsAt(t)["sleep"]
          /\ StepsAt(u)["test"] \in Nat /\ StepsAt(t)["sleep"] \in Int
        BY <1>1 DEF StepsAt
    <2> QED BY <1>2, <2>1, <2>2 DEF Nearer, StepsLeft, t, u
<1>3. CASE pc[c] # "sleep"
    BY <1>1, <1>3, StaysNear DEF Tick
<1> QED BY <1>2, <1>3

LEMMA StepIsNearer ==
    ASSUME TypeOK, TypeOK', [Next]_vars, NEW c \in Calls PROVE Nearer(c)
<1>1. ASSUME UNCHANGED <<pc[c], remaining[c]>> PROVE Nearer(c)
    BY <1>1, TimerFacts, StaysNear
<1>2. ASSUME NEW d \in Calls \ {c}, HandlerStep(d) \/ Reject(d) \/ Abort(d)
      PROVE  UNCHANGED <<pc[c], remaining[c]>>
    <2>1. CASE \E v, m : Return(d, v, m)
        BY <1>2, <2>1 DEF Return, TypeOK
    <2>2. CASE \/ LookupFound(d) \/ Notify(d) \/ StartTimers(d) \/ SetPlaceholder(d)
               \/ LoopTest(d) \/ Poll(d) \/ ResendPush(d) \/ NoResend(d)
        BY <1>2, <2>2 DEF LookupFound, Notify, StartTimers, SetPlaceholder,
                          LoopTest, Poll, ResendPush, NoResend, TypeOK
    <2> QED BY <1>2, <2>1, <2>2
            DEF HandlerStep, Reject, Abort, LookupMissing, LookupError, TimeOut,
                Ack, Nak
<1>3. ASSUME NEW p \in Calls \X Attempts, PushStep(p) PROVE UNCHANGED callVars
    BY <1>3 DEF PushStep, PushStamp, PushSend, PushFailed, PushRejected,
                MarkRemoved, RemoveDevice, PushTo
<1>4. ASSUME NEW r \in Responses,
             \/ RespStep(r) \/ RespInvalid(r) \/ RespAbort(r)
             \/ \E p \in Calls \X Attempts, a \in Answers : Respond(r, p, a)
      PROVE  UNCHANGED callVars
    BY <1>4 DEF RespStep, RespFound, RespUnknown, RespGet, RespSet, RespFinish,
                RespInvalid, RespAbort, Respond, RespReturn, RespTo
<1>5. ASSUME \/ UNCHANGED vars
             \/ \E u \in Users : Register(u) \/ Unregister(u)
      PROVE  UNCHANGED callVars
    BY <1>5 DEF Register, Unregister, vars
<1>6. UNCHANGED callVars => UNCHANGED <<pc[c], remaining[c]>>
    BY DEF callVars
<1> QED
    BY <1>1, <1>2, <1>3, <1>4, <1>5, <1>6, HandlerIsNearer, TickIsNearer
    DEF Next, Untimed

\* Each step of a handler brings its call nearer to an answer, and no step of
\* another process, no answer and no clock tick takes it away again: a call is
\* answered within 4 * Wait + 9 steps of its handler, for any wait.
THEOREM AnswerIsNearer == Spec => EachStepIsNearer
<1>1. TypeOK /\ TypeOK' /\ [Next]_vars => [\A c \in Calls : Nearer(c)]_vars
    BY StepIsNearer
<1> QED BY <1>1, TypeCorrect, PTL DEF Spec, EachStepIsNearer, Nearer

----------------------------------------------------------------------------
(* The push threads implement PushOutcome.  Each attempt of a call is a    *)
(* thread that was not started before.                                     *)

NotStarted ==
    \A c \in Calls, n \in Attempts :
        \/ pc[c] \in {"idle", "notify"}
        \/ pc[c] # "done" /\ n > attempt[c]
        => push[<<c, n>>] = "none"

PushInv == TypeOK /\ NotStarted

Threads == Calls \X Attempts
Outcome == [p \in Threads |-> IF push[p] \in {"none", "stamped"} THEN "spawned"
                              ELSE push[p]]

\* A thread that is started, or has made its payload, does nothing yet.
LEMMA NothingYet ==
    ASSUME TypeOK, NEW p \in Threads, NEW s \in {"spawned", "stamped"},
           push[p] \in {"none", "spawned"}, push' = [push EXCEPT ![p] = s]
    PROVE  UNCHANGED Outcome
    BY DEF TypeOK, Outcome, Threads

\* A thread that does something.
LEMMA Becomes ==
    ASSUME TypeOK, NEW p \in Threads, NEW from,
           NEW s \in {"sent", "failed", "rejected", "marked", "removed"},
           Outcome[p] \in from, push' = [push EXCEPT ![p] = s]
    PROVE  PushThreads!Become(p, from, s)
<1>1. Outcome' = [Outcome EXCEPT ![p] = s]
    BY DEF TypeOK, Outcome, Threads
<1> QED BY <1>1 DEF PushThreads!Become, Outcome, Threads

LEMMA PushAllowed ==
    ASSUME TypeOK, NEW p \in Threads, PushStep(p)
    PROVE  PushThreads!Next \/ UNCHANGED Outcome
<1>1. CASE PushStamp(p)
    BY <1>1, NothingYet DEF PushStamp, PushTo
<1>2. CASE PushSend(p)
    <2>1. Outcome[p] \in {"spawned"}
        BY <1>2 DEF PushSend, Outcome
    <2>2. PushThreads!Send(p)
        BY <1>2, <2>1, Becomes DEF PushSend, PushTo, PushThreads!Send
    <2> QED BY <2>2 DEF PushThreads!Next, Threads
<1>3. CASE PushFailed(p)
    <2>1. Outcome[p] \in {"spawned", "rejected", "marked"}
        BY <1>3 DEF PushFailed, Outcome
    <2>2. PushThreads!Fail(p)
        BY <1>3, <2>1, Becomes DEF PushFailed, PushTo, PushThreads!Fail
    <2> QED BY <2>2 DEF PushThreads!Next, Threads
<1>4. CASE PushRejected(p)
    <2>1. Outcome[p] \in {"spawned"}
        BY <1>4 DEF PushRejected, Outcome
    <2>2. PushThreads!Reject(p)
        BY <1>4, <2>1, Becomes
        DEF PushRejected, PushTo, PushThreads!Reject, Threads
    <2> QED BY <2>2 DEF PushThreads!Next, Threads
<1>5. CASE MarkRemoved(p)
    <2>1. Outcome[p] \in {"rejected"}
        BY <1>5 DEF MarkRemoved, Outcome
    <2>2. PushThreads!Mark(p)
        BY <1>5, <2>1, Becomes DEF MarkRemoved, PushTo, PushThreads!Mark
    <2> QED BY <2>2 DEF PushThreads!Next, Threads
<1>6. CASE RemoveDevice(p)
    <2>1. Outcome[p] \in {"marked"}
        BY <1>6 DEF RemoveDevice, Outcome
    <2>2. PushThreads!Remove(p)
        BY <1>6, <2>1, Becomes DEF RemoveDevice, PushTo, PushThreads!Remove
    <2> QED BY <2>2 DEF PushThreads!Next, Threads
<1> QED BY <1>1, <1>2, <1>3, <1>4, <1>5, <1>6 DEF PushStep

LEMMA PushInvStep == PushInv /\ [Next]_vars => PushInv'
<1> SUFFICES ASSUME TypeOK, NotStarted, [Next]_vars PROVE NotStarted'
    BY TypeStep DEF PushInv
<1>1. ASSUME NEW c \in Calls, HandlerStep(c) \/ Reject(c) \/ Abort(c)
      PROVE  NotStarted'
    <2>1. ASSUME NEW v, NEW m, Return(c, v, m) PROVE NotStarted'
        BY <2>1 DEF Return, NotStarted, TypeOK, pushVars
    <2>2. CASE LookupFound(c)
        BY <2>2 DEF LookupFound, NotStarted, TypeOK, pushVars
    <2>3. CASE Notify(c)
        BY <2>3, AttemptFacts DEF Notify, Spawn, NotStarted, TypeOK, Attempts
    <2>4. CASE ResendPush(c)
        <3>1. /\ attempt[c] \in Int /\ attempt' = [attempt EXCEPT ![c] = attempt[c] + 1]
              /\ push' = [push EXCEPT ![<<c, attempt[c] + 1>>] = "spawned"]
              /\ pc[c] = "decide" /\ pc' = [pc EXCEPT ![c] = "sleep"]
            BY <2>4 DEF ResendPush, Spawn, Undecided, TypeOK, Attempts
        <3> QED BY <3>1 DEF NotStarted, TypeOK, Attempts
    <2>5. CASE \/ StartTimers(c) \/ SetPlaceholder(c) \/ LoopTest(c) \/ Poll(c)
               \/ NoResend(c)
        <3>1. /\ UNCHANGED <<attempt, push>> /\ pc[c] \notin {"idle", "notify", "done"}
              /\ pc'[c] \notin {"idle", "notify"}
              /\ \A d \in Calls \ {c} : pc'[d] = pc[d]
            BY <2>5 DEF StartTimers, SetPlaceholder, LoopTest, Poll, NoResend,
                        Undecided, TypeOK, pushVars
        <3> QED BY <3>1 DEF NotStarted
    <2> QED BY <1>1, <2>1, <2>2, <2>3, <2>4, <2>5
            DEF HandlerStep, Reject, Abort, LookupMissing, LookupError, TimeOut,
                Ack, Nak
<1>2. ASSUME NEW p \in Calls \X Attempts, PushStep(p) PROVE NotStarted'
    <2>1. PICK s : push' = [push EXCEPT ![p] = s]
        BY <1>2 DEF PushStep, PushStamp, PushSend, PushFailed, PushRejected,
                    MarkRemoved, RemoveDevice, PushTo
    <2>2. push[p] # "none" /\ UNCHANGED <<pc, attempt>>
        BY <1>2 DEF PushStep, PushStamp, PushSend, PushFailed, PushRejected,
                    MarkRemoved, RemoveDevice, PushTo, callVars
    <2> QED BY <2>1, <2>2 DEF NotStarted, TypeOK
<1>3. ASSUME NEW r \in Responses,
             \/ RespStep(r) \/ RespInvalid(r) \/ RespAbort(r)
             \/ \E p \in Calls \X Attempts, a \in Answers : Respond(r, p, a)
      PROVE  UNCHANGED <<callVars, push>>
    BY <1>3 DEF RespStep, RespFound, RespUnknown, RespGet, RespSet, RespFinish,
                RespInvalid, RespAbort, Respond, RespReturn, RespTo, pushVars
<1>4. ASSUME \/ UNCHANGED vars
             \/ \E u \in Users : Register(u) \/ Unregister(u)
      PROVE  UNCHANGED <<callVars, push>>
    BY <1>4 DEF Register, Unregister, vars, pushVars
<1>5. ASSUME UNCHANGED <<callVars, push>> PROVE NotStarted'
    BY <1>5 DEF callVars, NotStarted
<1>6. CASE Tick
    <2>1. /\ UNCHANGED <<attempt, push>>
          /\ \A c \in Calls : pc'[c] = pc[c] \/ (pc[c] = "sleep" /\ pc'[c] = "test")
        BY <1>6 DEF Tick
    <2> QED BY <2>1 DEF NotStarted
<1> QED BY <1>1, <1>2, <1>3, <1>4, <1>5, <1>6 DEF Next, Untimed

LEMMA OutcomeStep ==
    ASSUME PushInv, [Next]_vars PROVE [PushThreads!Next]_PushThreads!vars
<1>1. SUFFICES PushThreads!Next \/ UNCHANGED Outcome
    BY DEF PushThreads!vars, Outcome, Threads
<1>2. UNCHANGED push => UNCHANGED Outcome
    BY DEF Outcome
<1>3. ASSUME NEW c \in Calls, HandlerStep(c) \/ Reject(c) \/ Abort(c)
      PROVE  UNCHANGED Outcome
    <2>1. CASE Notify(c)
        <3>1. push[<<c, 1>>] = "none" /\ <<c, 1>> \in Threads
            BY <2>1, AttemptFacts DEF Notify, PushInv, NotStarted, Threads
        <3> QED BY <2>1, <3>1, NothingYet DEF Notify, Spawn, PushInv
    <2>2. CASE ResendPush(c)
        <3>1. /\ attempt[c] \in Int /\ attempt[c] + 1 \in Attempts
              /\ pc[c] = "decide"
            BY <2>2, AttemptFacts
            DEF ResendPush, ResendDue, Undecided, PushInv, TypeOK, Attempts
        <3>2. push[<<c, attempt[c] + 1>>] = "none"
            BY <3>1 DEF PushInv, NotStarted
        <3> QED BY <2>2, <3>1, <3>2, NothingYet
                DEF ResendPush, Spawn, PushInv, Threads
    <2>3. CASE ~ Notify(c) /\ ~ ResendPush(c)
        BY <1>2, <1>3, <2>3
        DEF HandlerStep, Reject, Abort, LookupMissing, LookupError, LookupFound,
            StartTimers, SetPlaceholder, LoopTest, TimeOut, Poll, Ack, Nak,
            NoResend, Return, pushVars
    <2> QED BY <2>1, <2>2, <2>3
<1>4. ASSUME NEW r \in Responses,
             \/ RespStep(r) \/ RespInvalid(r) \/ RespAbort(r)
             \/ \E p \in Calls \X Attempts, a \in Answers : Respond(r, p, a)
      PROVE  UNCHANGED push
    BY <1>4 DEF RespStep, RespFound, RespUnknown, RespGet, RespSet, RespFinish,
                RespInvalid, RespAbort, Respond, RespReturn, RespTo, pushVars
<1>5. ASSUME \/ UNCHANGED vars \/ Tick
             \/ \E u \in Users : Register(u) \/ Unregister(u)
      PROVE  UNCHANGED push
    BY <1>5 DEF Register, Unregister, Tick, vars, pushVars
<1> QED BY <1>2, <1>3, <1>4, <1>5, PushAllowed DEF Next, Untimed, PushInv, Threads

LEMMA OutcomeInit == Init => PushInv /\ PushThreads!Init
<1> SUFFICES ASSUME Init PROVE PushInv /\ PushThreads!Init
    OBVIOUS
<1>1. PushInv
    BY TypeInit DEF Init, PushInv, NotStarted
<1>2. Outcome = [p \in Threads |-> "spawned"]
    BY DEF Init, Outcome, Threads
<1>3. [p \in Threads |-> PlatformOf[UserOf[p[1]]]]
            \in [Threads -> {"apns", "gcm", "android"}]
    BY CallConstants DEF Threads, Platforms
<1> QED BY <1>1, <1>2, <1>3 DEF PushThreads!Init, Outcome, Threads

\* The push threads of any calls do what PushOutcome says, the module that
\* PushDispatch implements too: a device is removed only after the cache was
\* marked, only on Firebase's word, and no thread is started a second time.
THEOREM PushesImplementOutcome == Spec => PushesAsAssumed
<1>1. PushInv /\ [Next]_vars => PushInv' /\ [PushThreads!Next]_PushThreads!vars
    BY PushInvStep, OutcomeStep
<1> QED BY OutcomeInit, <1>1, PTL DEF Spec, PushesAsAssumed, PushThreads!Spec

=============================================================================
