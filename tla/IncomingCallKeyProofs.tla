----------------------- MODULE IncomingCallKeyProofs ------------------------
(***************************************************************************)
(* Proofs about the wake-up of a phone when each call has a unique_key of  *)
(* its own, as call ids of Asterisk have: what is in the cache is about    *)
(* one call, and a timely server (PromptSpec) honours it.                  *)
(***************************************************************************)
EXTENDS IncomingCallProofs, IncomingCallLate

OwnKeys == \A c, d \in Calls : KeyOf[c] = KeyOf[d] => c = d

BeforeLoop == {"idle", "notify", "timers", "placeholder"}

----------------------------------------------------------------------------
(* What a step of a handler, a push thread or a response may change.       *)

EntryOf(c) == cache[CallKey(KeyOf[c])]

LEMMA EntryFacts ==
    ASSUME TypeOK
    PROVE  /\ \A c \in Calls : EntryOf(c) \in [val : CacheValues, ttl : 0 .. TTL]
           /\ \A k \in Keys, v \in CacheValues, c \in Calls :
                 cache' = stored(CallKey(k), v) =>
                    EntryOf(c)' = IF KeyOf[c] = k THEN [val |-> v, ttl |-> TTL]
                                  ELSE EntryOf(c)
           /\ \A k \in Keys, v \in CacheValues, c \in Calls :
                 cache' = stored(BareKey(k), v) => EntryOf(c)' = EntryOf(c)
<1>1. CacheOK /\ \A k \in Keys : CallKey(k) \in CacheKeys
    BY CacheFacts, TypeParts
<1>2. \A c \in Calls : KeyOf[c] \in Keys
    BY CallConstants
<1>3. \A k, l \in Keys : /\ CallKey(k) = CallKey(l) => k = l
                         /\ CallKey(k) # BareKey(l)
    BY DEF CallKey, BareKey
<1> HIDE DEF CallKey, BareKey
<1>4. \A c \in Calls : EntryOf(c) \in [val : CacheValues, ttl : 0 .. TTL]
    BY <1>1, <1>2 DEF EntryOf, CacheOK
<1>5. ASSUME NEW k \in Keys, NEW v \in CacheValues, NEW c \in Calls,
             cache' = stored(CallKey(k), v)
      PROVE  EntryOf(c)' = IF KeyOf[c] = k THEN [val |-> v, ttl |-> TTL] ELSE EntryOf(c)
    BY <1>1, <1>2, <1>3, <1>5 DEF EntryOf, stored, CacheOK
<1>6. ASSUME NEW k \in Keys, NEW v \in CacheValues, NEW c \in Calls,
             cache' = stored(BareKey(k), v)
      PROVE  EntryOf(c)' = EntryOf(c)
    BY <1>1, <1>2, <1>3, <1>6 DEF EntryOf, stored, CacheOK
<1> QED BY <1>4, <1>5, <1>6

\* A handler acts on its own variables, on the placeholder of its key and on a
\* push of its call.
LEMMA HandlerFrame ==
    ASSUME TypeOK, NEW c \in Calls, HandlerStep(c) \/ Reject(c) \/ Abort(c)
    PROVE  /\ UNCHANGED <<age, resp, heard>>
           /\ \A d \in Calls \ {c} :
                 /\ pc'[d] = pc[d] /\ remaining'[d] = remaining[d]
                 /\ untilResend'[d] = untilResend[d] /\ attempt'[d] = attempt[d]
                 /\ available'[d] = available[d] /\ metrics'[d] = metrics[d]
           /\ \A p \in Calls \X Attempts :
                 push'[p] = push[p] \/ (p[1] = c /\ push'[p] = "spawned")
           /\ SetPlaceholder(c) \/ UNCHANGED cache
<1> DEFINE Other == \A d \in Calls \ {c} :
                       /\ pc'[d] = pc[d] /\ remaining'[d] = remaining[d]
                       /\ untilResend'[d] = untilResend[d] /\ attempt'[d] = attempt[d]
                       /\ available'[d] = available[d] /\ metrics'[d] = metrics[d]
           Pushed == \A p \in Calls \X Attempts :
                        push'[p] = push[p] \/ (p[1] = c /\ push'[p] = "spawned")
<1>0. CallsOK /\ push \in [Calls \X Attempts -> PushStates]
    BY TypeParts DEF PushOK
<1> USE DEF CallsOK, pushVars
<1>1. CASE LookupFound(c)
    BY <1>0, <1>1 DEF LookupFound
<1>2. CASE StartTimers(c)
    BY <1>0, <1>2 DEF StartTimers
<1>3. CASE LoopTest(c)
    BY <1>0, <1>3 DEF LoopTest
<1>4. CASE Poll(c)
    BY <1>0, <1>4 DEF Poll
<1>5. CASE NoResend(c)
    BY <1>0, <1>5 DEF NoResend
<1>6. CASE SetPlaceholder(c)
    BY <1>0, <1>6 DEF SetPlaceholder
<1>7. ASSUME NEW n, push' = [push EXCEPT ![<<c, n>>] = "spawned"] PROVE Pushed
    <2>1. ASSUME NEW p \in Calls \X Attempts, push'[p] # push[p]
          PROVE  p[1] = c /\ push'[p] = "spawned"
        <3>1. p = <<c, n>>
            BY <1>0, <1>7, <2>1
        <3> QED BY <1>0, <1>7, <3>1
    <2> QED BY <2>1
<1>8. CASE Notify(c)
    <2>1. Other /\ UNCHANGED <<age, resp, heard, cache>>
        BY <1>0, <1>8 DEF Notify
    <2> QED BY <1>7, <1>8, <2>1 DEF Notify, Spawn
<1>9. CASE ResendPush(c)
    <2>1. Other /\ UNCHANGED <<age, resp, heard, cache>>
        BY <1>0, <1>9 DEF ResendPush
    <2>2. Pushed
        BY <1>7, <1>9 DEF ResendPush, Spawn
    <2> QED BY <2>1, <2>2
<1>10. ASSUME NEW v, NEW m, Return(c, v, m)
       PROVE  Other /\ UNCHANGED <<age, resp, heard, push, cache>>
    BY <1>0, <1>10 DEF Return
<1>11. CASE \/ LookupMissing(c) \/ LookupError(c) \/ TimeOut(c) \/ Ack(c) \/ Nak(c)
            \/ Reject(c) \/ Abort(c)
    <2>1. PICK v, m : Return(c, v, m)
        BY <1>11 DEF LookupMissing, LookupError, TimeOut, Ack, Nak, Reject, Abort
    <2> QED BY <1>10, <2>1
<1> QED BY <1>1, <1>2, <1>3, <1>4, <1>5, <1>6, <1>8, <1>9, <1>11 DEF HandlerStep

\* A push thread leaves the entry of its call alone: it writes another key.
LEMMA PushFrame ==
    ASSUME TypeOK, NEW p \in Calls \X Attempts, PushStep(p)
    PROVE  /\ UNCHANGED <<callVars, resp>>
           /\ \A c \in Calls : EntryOf(c)' = EntryOf(c)
           /\ \A q \in Calls \X Attempts : q # p => /\ push'[q] = push[q]
                                                    /\ age'[q] = age[q]
           /\ push[p] \notin {"none", "sent"}
           /\ push'[p] \in Stamped => \/ age'[p] = 0
                                      \/ (push[p] \in Stamped /\ age'[p] = age[p])
           /\ \/ UNCHANGED heard
              \/ \E k \in Keys : HeardOf(k, "Removed")
<1> USE DEF TypeOK, PushTo, EntryOf, Stamped
<1>1. CASE PushStamp(p)
    BY <1>1 DEF PushStamp
<1>3. CASE PushSend(p)
    BY <1>3 DEF PushSend
<1>4. CASE PushFailed(p) \/ PushRejected(p) \/ RemoveDevice(p)
    BY <1>4 DEF PushFailed, PushRejected, RemoveDevice
<1>2. CASE MarkRemoved(p)
    <2>1. KeyOf[p[1]] \in Keys /\ "Removed" \in CacheValues
        BY CallConstants, AnswerFacts
    <2>2. cache' = cache \/ cache' = stored(BareKey(KeyOf[p[1]]), "Removed")
        BY <1>2 DEF MarkRemoved
    <2>3. \A c \in Calls : EntryOf(c)' = EntryOf(c)
        BY <2>1, <2>2, EntryFacts DEF EntryOf
    <2> QED BY <1>2, <2>1, <2>3 DEF MarkRemoved
<1> QED BY <1>1, <1>2, <1>3, <1>4 DEF PushStep

\* A response looks its key up, reads it, and only then writes it.
Stage(r, from, to) ==
    /\ resp[r].pc = from /\ resp'[r].pc = to
    /\ resp'[r].key = resp[r].key /\ resp'[r].age = resp[r].age
    /\ resp'[r].available = resp[r].available /\ resp'[r].status = resp[r].status

LEMMA RespFrame ==
    ASSUME TypeOK, NEW r \in Responses,
           \/ RespStep(r) \/ RespInvalid(r) \/ RespAbort(r)
           \/ \E p \in Calls \X Attempts, a \in Answers : Respond(r, p, a)
    PROVE  /\ UNCHANGED <<callVars, pushVars>>
           /\ \A q \in Responses \ {r} : resp'[q] = resp[q]
           /\ \/ (resp'[r].pc = "done" /\ UNCHANGED <<cache, heard>>)
              \/ /\ resp[r].pc = "idle" /\ resp'[r].pc = "exists"
                 /\ resp'[r].status = resp[r].status /\ UNCHANGED <<cache, heard>>
                 /\ \E p \in Calls \X Attempts :
                       /\ push[p] = "sent" /\ resp'[r].age = age[p]
                       /\ resp'[r].key = KeyOf[p[1]]
              \/ /\ Stage(r, "exists", "get") /\ exists(CallKey(resp[r].key))
                 /\ UNCHANGED <<cache, heard>>
              \/ (Stage(r, "get", "set") /\ UNCHANGED <<cache, heard>>)
              \/ /\ Stage(r, "set", "finish")
                 /\ cache' = stored(CallKey(resp[r].key), resp[r].available)
                 /\ HeardOf(resp[r].key, resp[r].available)
<1> USE DEF RespTo, Stage
<1>0. resp \in [Responses -> RespRecord] /\ resp[r] \in RespRecord
    BY TypeParts DEF RespOK
<1>1. ASSUME NEW code, RespReturn(r, code)
      PROVE  /\ UNCHANGED <<callVars, pushVars>>
             /\ \A q \in Responses \ {r} : resp'[q] = resp[q]
             /\ resp'[r].pc = "done"
    <2>1. [NoResponse EXCEPT !.pc = "done", !.status = code].pc = "done"
        BY NoResponseFacts DEF RespRecord
    <2> QED BY <1>0, <1>1, <2>1 DEF RespReturn
<1>2. CASE RespUnknown(r) \/ RespFinish(r) \/ RespInvalid(r) \/ RespAbort(r)
    <2>1. \/ RespReturn(r, 404) \/ RespReturn(r, 202)
          \/ RespReturn(r, 400) \/ RespReturn(r, 500)
        BY <1>2 DEF RespUnknown, RespFinish, RespInvalid, RespAbort
    <2>2. UNCHANGED <<cache, heard>>
        BY <1>2 DEF RespUnknown, RespFinish, RespInvalid, RespAbort
    <2>3. /\ UNCHANGED <<callVars, pushVars>>
          /\ \A q \in Responses \ {r} : resp'[q] = resp[q]
          /\ resp'[r].pc = "done"
        <3> HIDE DEF RespTo, Stage
        <3> QED BY <1>1, <2>1
    <2> QED BY <2>2, <2>3
<1>3. ASSUME NEW p \in Calls \X Attempts, NEW a \in Answers, Respond(r, p, a)
      PROVE  /\ UNCHANGED <<callVars, pushVars, cache, heard>>
             /\ \A q \in Responses \ {r} : resp'[q] = resp[q]
             /\ push[p] = "sent" /\ resp'[r].age = age[p]
             /\ resp[r].pc = "idle" /\ resp'[r].pc = "exists"
             /\ resp'[r].key = KeyOf[p[1]] /\ resp'[r].status = resp[r].status
    BY <1>0, <1>3 DEF Respond, RespRecord
<1>4. CASE RespFound(r)
    BY <1>0, <1>4 DEF RespFound, RespRecord
<1>5. CASE RespGet(r)
    BY <1>0, <1>5 DEF RespGet, RespRecord
<1>6. CASE RespSet(r)
    BY <1>0, <1>6 DEF RespSet, RespRecord
<1> QED BY <1>2, <1>3, <1>4, <1>5, <1>6 DEF RespStep

----------------------------------------------------------------------------
(* Before the loop of a call, nothing is found under its key.              *)

NotFoundYet ==
    \A c \in Calls : pc[c] \in BeforeLoop =>
        /\ EntryOf(c).val = "None"
        /\ \A r \in Responses : resp[r].key = KeyOf[c] => resp[r].pc \notin {"get", "set"}

LEMMA NotFoundInit == Init => NotFoundYet
<1> SUFFICES ASSUME Init PROVE NotFoundYet
    OBVIOUS
<1>1. \A c \in Calls : CallKey(KeyOf[c]) \in CacheKeys
    BY TypeInit, CallConstants, CacheFacts, TypeParts
<1>2. \A c \in Calls : EntryOf(c).val = "None"
    BY <1>1 DEF Init, EntryOf, Absent
<1>3. \A r \in Responses : resp[r].pc = "idle"
    BY DEF Init, NoResponse
<1> QED BY <1>2, <1>3 DEF NotFoundYet

LEMMA NotFoundHandler ==
    ASSUME OwnKeys, TypeOK, NotFoundYet,
           NEW c \in Calls, HandlerStep(c) \/ Reject(c) \/ Abort(c)
    PROVE  NotFoundYet'
<1> SUFFICES ASSUME NEW d \in Calls, pc'[d] \in BeforeLoop
             PROVE  /\ EntryOf(d)' = EntryOf(d) /\ resp' = resp
                    /\ pc[d] \in BeforeLoop
    BY DEF NotFoundYet
<1>1. resp' = resp /\ (SetPlaceholder(c) \/ UNCHANGED cache)
    BY HandlerFrame
<1>2. CASE d # c
    <2>1. pc[d] \in BeforeLoop
        BY <1>2, HandlerFrame
    <2>2. CASE SetPlaceholder(c)
        <3>1. KeyOf[c] \in Keys /\ PlatformOf[UserOf[c]] \in CacheValues /\ KeyOf[d] # KeyOf[c]
            BY <1>2, CallConstants, AnswerFacts DEF OwnKeys
        <3> QED BY <1>1, <2>1, <2>2, <3>1, EntryFacts DEF SetPlaceholder
    <2> QED BY <1>1, <2>1, <2>2 DEF EntryOf
<1>3. CASE d = c
    <2>1. pc \in [Calls -> PCs]
        BY DEF TypeOK
    <2>2. LookupFound(c) \/ Notify(c) \/ StartTimers(c)
        BY <1>3, <2>1 DEF HandlerStep, Reject, Abort, LookupMissing, LookupError, TimeOut,
           Ack, Nak, Return, SetPlaceholder, LoopTest, Poll, ResendPush, NoResend, BeforeLoop
    <2> QED BY <1>1, <1>3, <2>2 DEF LookupFound, Notify, StartTimers, BeforeLoop, EntryOf
<1> QED BY <1>2, <1>3

LEMMA NotFoundResp ==
    ASSUME OwnKeys, TypeOK, NotFoundYet, NEW r \in Responses,
           \/ RespStep(r) \/ RespInvalid(r) \/ RespAbort(r)
           \/ \E p \in Calls \X Attempts, a \in Answers : Respond(r, p, a)
    PROVE  NotFoundYet'
<1>0. UNCHANGED pc /\ \A q \in Responses \ {r} : resp'[q] = resp[q]
    BY RespFrame DEF callVars
<1> SUFFICES ASSUME NEW c \in Calls, pc[c] \in BeforeLoop
             PROVE  /\ EntryOf(c)' = EntryOf(c)
                    /\ resp'[r].key = KeyOf[c] => resp'[r].pc \notin {"get", "set"}
    BY <1>0 DEF NotFoundYet
<1>1. EntryOf(c).val = "None" /\ (resp[r].key = KeyOf[c] => resp[r].pc \notin {"get", "set"})
    BY DEF NotFoundYet
<1>2. resp[r].key = KeyOf[c] => ~ exists(CallKey(resp[r].key))
    BY <1>1 DEF exists, EntryOf
<1>3. resp[r].key \in Keys /\ resp[r].available \in CacheValues
    BY TypeParts, AnswerFacts DEF RespOK, RespRecord
<1>4. CASE UNCHANGED cache
    BY <1>1, <1>2, <1>4, RespFrame DEF Stage, EntryOf
<1>5. CASE /\ Stage(r, "set", "finish")
           /\ cache' = stored(CallKey(resp[r].key), resp[r].available)
    BY <1>1, <1>3, <1>5, EntryFacts DEF Stage
<1> QED BY <1>4, <1>5, RespFrame

LEMMA TickEntry ==
    ASSUME TypeOK, Tick, NEW c \in Calls
    PROVE  EntryOf(c)' = Expired(EntryOf(c))
<1>1. CallKey(KeyOf[c]) \in CacheKeys
    BY CallConstants, CacheFacts, TypeParts
<1> QED BY <1>1 DEF Tick, EntryOf

LEMMA TickResp ==
    ASSUME TypeOK, Tick, NEW r \in Responses
    PROVE  /\ resp'[r].pc = resp[r].pc /\ resp'[r].key = resp[r].key
           /\ resp'[r].status = resp[r].status
           /\ resp[r].pc \notin {"idle", "done"} => resp'[r].age = Aged(resp[r].age)
    BY TypeParts DEF Tick, RespOK, RespRecord

LEMMA NotFoundStep ==
    ASSUME OwnKeys, TypeOK, NotFoundYet, [Next]_vars
    PROVE  NotFoundYet'
<1>1. ASSUME NEW p \in Calls \X Attempts, PushStep(p) PROVE NotFoundYet'
    BY <1>1, PushFrame DEF NotFoundYet, callVars
<1>2. CASE Tick
    <2>1. \A c \in Calls : pc'[c] \in BeforeLoop => pc[c] \in BeforeLoop
        BY <1>2 DEF Tick, BeforeLoop
    <2>2. \A c \in Calls : EntryOf(c).val = "None" => EntryOf(c)'.val = "None"
        BY <1>2, TickEntry, EntryFacts DEF Expired, Absent
    <2> QED BY <1>2, <2>1, <2>2, TickResp DEF NotFoundYet
<1>3. CASE UNCHANGED vars \/ \E u \in Users : Register(u) \/ Unregister(u)
    BY <1>3 DEF NotFoundYet, EntryOf, vars, callVars, Register, Unregister
<1> QED BY <1>1, <1>2, <1>3, NotFoundHandler, NotFoundResp DEF Next, Untimed

\* With keys of their own, no placeholder comes after an answer to its call.
LEMMA KeptStep ==
    ASSUME TypeOK, NotFoundYet, [Next]_vars, NEW k \in Keys, get(CallKey(k)) \in Answers
    PROVE  get(CallKey(k))' \notin Platforms
<1> DEFINE key == CallKey(k)
<1>1. \A v \in Answers : v \in CacheValues /\ v \notin Platforms
    BY AnswerFacts
<1>2. /\ CacheOK /\ key \in CacheKeys /\ cache[key].val \in Answers
      /\ "None" \notin Platforms
      /\ \A l \in Keys : CallKey(l) \in CacheKeys /\ BareKey(l) \in CacheKeys
    BY CacheFacts, AnswerFacts, TypeParts DEF Platforms, get
<1>10. \A o \in CacheKeys, v \in CacheValues :
          stored(o, v)[key].val = IF key = o THEN v ELSE cache[key].val
    BY <1>2, CacheFacts
<1>0. SUFFICES cache'[key].val \notin Platforms
    BY DEF get
<1> HIDE DEF key
<1>3. ASSUME NEW l \in Keys, NEW v \in CacheValues \ Platforms,
             NEW other \in {CallKey(l), BareKey(l)}, cache' = stored(other, v)
      PROVE  cache'[key].val \notin Platforms
    <2>1. stored(other, v)[key].val = IF key = other THEN v ELSE cache[key].val
        BY <1>2, <1>3, <1>10
    <2> QED BY <1>1, <1>2, <1>3, <2>1
<1>4. ASSUME UNCHANGED cache PROVE cache'[key].val \notin Platforms
    BY <1>1, <1>2, <1>4
<1>5. ASSUME NEW c \in Calls, HandlerStep(c) \/ Reject(c) \/ Abort(c)
      PROVE  cache'[key].val \notin Platforms
    <2>1. CASE SetPlaceholder(c)
        <3>1. EntryOf(c).val = "None"
            BY <2>1 DEF NotFoundYet, SetPlaceholder, BeforeLoop
        <3>2. key # CallKey(KeyOf[c])
            BY <1>2, <3>1, AnswerFacts DEF EntryOf
        <3>3. /\ CallKey(KeyOf[c]) \in CacheKeys
              /\ PlatformOf[UserOf[c]] \in CacheValues
            BY <1>2, CallConstants, CacheFacts, AnswerFacts
        <3>4. cache' = stored(CallKey(KeyOf[c]), PlatformOf[UserOf[c]])
            BY <2>1 DEF SetPlaceholder
        <3>5. stored(CallKey(KeyOf[c]), PlatformOf[UserOf[c]])[key].val = cache[key].val
            BY <3>2, <3>3, <1>10
        <3> QED BY <1>1, <1>2, <3>4, <3>5
    <2>2. CASE UNCHANGED cache
        BY <1>4, <2>2
    <2> QED BY <1>5, <2>1, <2>2, HandlerFrame
<1>6. ASSUME NEW p \in Calls \X Attempts, PushStep(p) PROVE cache'[key].val \notin Platforms
    <2>1. CASE MarkRemoved(p)
        <3>1. KeyOf[p[1]] \in Keys /\ "Removed" \in CacheValues \ Platforms
            BY CallConstants, AnswerFacts DEF Platforms
        <3> QED BY <1>3, <1>4, <2>1, <3>1 DEF MarkRemoved
    <2>2. CASE ~ MarkRemoved(p)
        BY <1>4, <1>6, <2>2 DEF PushStep, PushStamp, PushSend, PushFailed, PushRejected, RemoveDevice
    <2> QED BY <2>1, <2>2
<1>7. ASSUME NEW r \in Responses,
             \/ RespStep(r) \/ RespInvalid(r) \/ RespAbort(r)
             \/ \E p \in Calls \X Attempts, a \in Answers : Respond(r, p, a)
      PROVE  cache'[key].val \notin Platforms
    <2>1. resp[r].key \in Keys /\ resp[r].available \in CacheValues \ Platforms
        BY <1>1, TypeParts DEF RespOK, RespRecord
    <2> QED BY <1>3, <1>4, <1>7, <2>1, RespFrame
<1>8. CASE Tick
    <2>1. cache'[key].val \in {cache[key].val, "None"}
        BY <1>2, <1>8, CacheFacts DEF Tick
    <2> QED BY <1>1, <1>2, <2>1
<1>9. CASE UNCHANGED vars \/ \E u \in Users : Register(u) \/ Unregister(u)
    <2>1. UNCHANGED cache
        BY <1>9 DEF vars, Register, Unregister
    <2> QED BY <1>4, <2>1
<1> QED BY <1>5, <1>6, <1>7, <1>8, <1>9 DEF Next, Untimed

THEOREM AnswerIsKept == ASSUME OwnKeys PROVE Spec => PlaceholderNeverErasesAnswer
<1>1. NotFoundYet /\ TypeOK /\ [Next]_vars => NotFoundYet'
    BY NotFoundStep
<1>2. TypeOK /\ NotFoundYet /\ [Next]_vars =>
         [\A k \in Keys : get(CallKey(k)) \in Answers
                             => get(CallKey(k))' \notin Platforms]_vars
    BY KeptStep
<1> QED BY <1>1, <1>2, NotFoundInit, TypeCorrect, PTL
        DEF Spec, PlaceholderNeverErasesAnswer

----------------------------------------------------------------------------
(* Ages.  The age of a push, or of a response to it, and the time its call *)
(* has left are never more than the wait and what passed between making    *)
(* the first payload and setting the deadline.                             *)

Running == InLoop \cup {"placeholder"}

Fits(c, a) ==
    /\ pc[c] \notin {"idle", "notify"}
    /\ pc[c] \in Running /\ remaining[c] > 0 => a + remaining[c] <= Wait + lag[c]

LagOK == lag \in [Calls -> 0 .. Wait + 1]

\* Until the deadline is set, there is only the first push.
PushesFit ==
    \A p \in Calls \X Attempts :
        /\ pc[p[1]] \in {"idle", "notify"} => push[p] = "none"
        /\ pc[p[1]] = "timers" /\ push[p] # "none" => p[2] = 1
        /\ push[p] \in Stamped => Fits(p[1], age[p])

Answered(c, a) ==
    /\ Fits(c, a)
    /\ pc[c] = "timers" => push[<<c, 1>>] = "sent" /\ a <= age[<<c, 1>>]

ResponsesFit ==
    \A r \in Responses :
        /\ resp[r].pc # "done" => resp[r].status = 0
        /\ \A c \in Calls :
              resp[r].pc \notin {"idle", "done"} /\ resp[r].key = KeyOf[c]
                  => Answered(c, resp[r].age)

AgesFit == LagOK /\ PushesFit /\ ResponsesFit

LEMMA AgesInit == LateInit => AgesFit
<1> SUFFICES ASSUME LateInit PROVE AgesFit
    OBVIOUS
<1>1. \A r \in Responses : resp[r].pc = "idle" /\ resp[r].status = 0
    BY DEF LateInit, Init, NoResponse
<1>2. PushesFit
    BY DEF LateInit, Init, PushesFit, Stamped
<1>3. LagOK
    BY Times DEF LateInit, LagOK
<1> QED BY <1>1, <1>2, <1>3 DEF AgesFit, ResponsesFit

LEMMA FirstAge ==
    ASSUME TypeOK, NEW c \in Calls
    PROVE  AgeOfFirst(c) \in 0 .. Wait + 1
<1>1. <<c, 1>> \in Calls \X Attempts
    BY AttemptFacts
<1> QED BY <1>1, Times, TypeParts DEF AgeOfFirst, PushOK

\* What the history says after a step.
LEMMA Measured ==
    ASSUME TypeOK, TypeOK', AgesFit, Measure
    PROVE  /\ LagOK'
           /\ \A c \in Calls :
                 IF pc[c] = "timers" /\ pc'[c] = "placeholder"
                 THEN lag'[c] = AgeOfFirst(c)
                 ELSE remaining'[c] > 0 => lag'[c] = lag[c]
<1>1. \A c \in Calls : AgeOfFirst(c) \in 0 .. Wait + 1 /\ lag[c] \in 0 .. Wait + 1
    BY FirstAge DEF AgesFit, LagOK
<1> QED BY <1>1, Times DEF Measure, LagOK

\* A step that sets no deadline, gives no call more time and starts no push.
LEMMA FitsOn ==
    ASSUME TypeOK, TypeOK', AgesFit, Measure, NEW c \in Calls, NEW a \in 0 .. Wait + 1,
           Fits(c, a), pc'[c] \notin {"idle", "notify"},
           pc'[c] \in Running => pc[c] \in Running,
           remaining'[c] = remaining[c]
    PROVE  Fits(c, a)'
<1>1. pc'[c] \in Running => pc[c] # "timers"
    BY DEF Running, InLoop
<1>2. pc'[c] \in Running /\ remaining'[c] > 0 => lag'[c] = lag[c]
    BY <1>1, Measured
<1> QED BY <1>2 DEF Fits

\* What a handler does to the call it handles.
LEMMA HandlerFits ==
    ASSUME TypeOK, NEW c \in Calls, HandlerStep(c) \/ Reject(c) \/ Abort(c)
    PROVE  \/ StartTimers(c)
           \/ /\ LookupFound(c)
              /\ pc[c] = "idle" /\ pc'[c] = "notify" /\ push' = push
           \/ /\ Notify(c)
              /\ pc[c] = "notify" /\ pc'[c] = "timers"
              /\ push' = [push EXCEPT ![<<c, 1>>] = "spawned"]
           \/ /\ pc'[c] \notin {"idle", "notify", "timers"}
              /\ pc'[c] \in Running => /\ pc[c] \in Running
                                       /\ remaining'[c] = remaining[c]
<1>1. pc \in [Calls -> PCs] /\ remaining \in [Calls -> 0 .. Wait]
    BY DEF TypeOK
<1> USE DEF Running, InLoop
<1>2. ASSUME NEW v, NEW m, Return(c, v, m) PROVE pc'[c] = "done"
    BY <1>1, <1>2 DEF Return
<1>3. CASE \/ LookupMissing(c) \/ LookupError(c) \/ TimeOut(c) \/ Ack(c) \/ Nak(c)
           \/ Reject(c) \/ Abort(c)
    <2>1. PICK v, m : Return(c, v, m)
        BY <1>3 DEF LookupMissing, LookupError, TimeOut, Ack, Nak, Reject, Abort
    <2> QED BY <1>2, <2>1
<1>4. CASE LookupFound(c)
    BY <1>1, <1>4 DEF LookupFound, pushVars
<1>5. CASE Notify(c)
    BY <1>1, <1>5 DEF Notify, Spawn
<1>6. CASE SetPlaceholder(c) \/ LoopTest(c) \/ Poll(c)
    BY <1>1, <1>6 DEF SetPlaceholder, LoopTest, Poll
<1>7. CASE ResendPush(c) \/ NoResend(c)
    BY <1>1, <1>7 DEF ResendPush, NoResend, Undecided
<1> QED BY <1>3, <1>4, <1>5, <1>6, <1>7 DEF HandlerStep

LEMMA AgesHandler ==
    ASSUME TypeOK, TypeOK', AgesFit, Measure,
           NEW c \in Calls, HandlerStep(c) \/ Reject(c) \/ Abort(c)
    PROVE  AgesFit'
<1>1. /\ \A p \in Calls \X Attempts : p[1] \in Calls /\ age[p] \in 0 .. Wait + 1
      /\ \A r \in Responses : resp[r].age \in 0 .. Wait + 1
      /\ \A d \in Calls : <<d, 1>> \in Calls \X Attempts
      /\ push \in [Calls \X Attempts -> PushStates]
    BY TypeParts, AttemptFacts DEF PushOK, RespOK, RespRecord
<1>2. UNCHANGED <<age, resp>>
    BY HandlerFrame
<1>3. LagOK'
    BY Measured
<1>4. \A p \in Calls \X Attempts :
         push'[p] = push[p] \/ (p[1] = c /\ push'[p] = "spawned")
    BY HandlerFrame
<1>5. \A d \in Calls \ {c}, a \in 0 .. Wait + 1 : Fits(d, a) => Fits(d, a)'
    <2> SUFFICES ASSUME NEW d \in Calls \ {c}, NEW a \in 0 .. Wait + 1, Fits(d, a)
                 PROVE  Fits(d, a)'
        OBVIOUS
    <2>1. pc'[d] = pc[d] /\ remaining'[d] = remaining[d] /\ pc[d] \notin {"idle", "notify"}
        BY HandlerFrame DEF Fits
    <2> QED BY <2>1, FitsOn
\* The step that sets the deadline.
<1>6. ASSUME NEW a \in 0 .. Wait + 1, StartTimers(c), a <= AgeOfFirst(c)
      PROVE  Fits(c, a)'
    <2>1. pc[c] = "timers" /\ pc'[c] = "placeholder" /\ remaining'[c] = Wait
        BY <1>6 DEF StartTimers, TypeOK
    <2>2. lag'[c] = AgeOfFirst(c) /\ AgeOfFirst(c) \in 0 .. Wait + 1
        BY <2>1, Measured, FirstAge
    <2> QED BY <1>6, <2>1, <2>2, Times DEF Fits
<1>7. ASSUME NEW a \in 0 .. Wait + 1, Fits(c, a), ~ StartTimers(c) PROVE Fits(c, a)'
    <2>1. pc'[c] \notin {"idle", "notify", "timers"}
          /\ (pc'[c] \in Running => pc[c] \in Running /\ remaining'[c] = remaining[c])
        BY <1>7, HandlerFits DEF Fits
    <2>2. CASE pc'[c] \in Running
        BY <1>7, <2>1, <2>2, FitsOn
    <2>3. CASE pc'[c] \notin Running
        BY <2>1, <2>3 DEF Fits
    <2> QED BY <2>2, <2>3
<1>8. PushesFit'
    <2> SUFFICES ASSUME NEW p \in Calls \X Attempts
                 PROVE  /\ pc'[p[1]] \in {"idle", "notify"} => push'[p] = "none"
                        /\ pc'[p[1]] = "timers" /\ push'[p] # "none" => p[2] = 1
                        /\ push'[p] \in Stamped => Fits(p[1], age[p])'
        BY <1>2 DEF PushesFit, Fits
    <2>1. /\ pc[p[1]] \in {"idle", "notify"} => push[p] = "none"
          /\ pc[p[1]] = "timers" /\ push[p] # "none" => p[2] = 1
          /\ push[p] \in Stamped => Fits(p[1], age[p])
        BY DEF AgesFit, PushesFit
    <2>2. push'[p] \in Stamped => push[p] \in Stamped
        BY <1>4 DEF Stamped
    <2>3. CASE p[1] # c
        <3>1. pc'[p[1]] = pc[p[1]] /\ push'[p] = push[p]
            BY <1>1, <1>4, <2>3, HandlerFrame
        <3>2. push[p] \in Stamped => Fits(p[1], age[p])'
            <4>1. PICK a \in 0 .. Wait + 1 : a = age[p]
                BY <1>1
            <4> QED BY <1>1, <1>2, <1>5, <2>1, <2>3, <4>1 DEF Fits
        <3> QED BY <2>1, <3>1, <3>2
    <2>4. CASE p[1] = c /\ StartTimers(c)
        <3>1. pc[c] = "timers" /\ pc'[c] = "placeholder" /\ push' = push
            BY <2>4 DEF StartTimers, pushVars, TypeOK
        <3>2. push[p] \in Stamped => AgeOfFirst(c) = age[p]
            <4>1. push[p] \in Stamped => p = <<c, 1>>
                BY <2>1, <2>4, <3>1 DEF Stamped
            <4> QED BY <4>1 DEF AgeOfFirst
        <3>3. push[p] \in Stamped => Fits(c, age[p])'
            <4>1. PICK a \in 0 .. Wait + 1 : a = age[p]
                BY <1>1
            <4> QED BY <1>2, <1>6, <2>4, <3>2, <4>1 DEF Fits
        <3> QED BY <2>4, <3>1, <3>3
    <2>5. CASE p[1] = c /\ ~ StartTimers(c)
        <3>1. push[p] \in Stamped => Fits(p[1], age[p])'
            <4>1. PICK a \in 0 .. Wait + 1 : a = age[p]
                BY <1>1
            <4> QED BY <1>2, <1>7, <2>1, <2>5, <4>1 DEF Fits
        <3>2. /\ pc'[c] \in {"idle", "notify"} => push'[p] = "none"
              /\ pc'[c] = "timers" /\ push'[p] # "none" => p[2] = 1
            <4>1. CASE LookupFound(c)
                <5>1. pc[c] = "idle" /\ pc'[c] = "notify" /\ push' = push
                    BY <4>1, TypeParts DEF LookupFound, pushVars, TypeOK
                <5> QED BY <2>1, <2>5, <5>1
            <4>2. CASE Notify(c)
                <5>1. /\ pc[c] = "notify" /\ pc'[c] = "timers"
                      /\ push' = [push EXCEPT ![<<c, 1>>] = "spawned"]
                    BY <4>2, TypeParts DEF Notify, Spawn, TypeOK
                <5>2. p = <<c, p[2]>>
                    BY <2>5
                <5>3. push'[p] # "none" => p = <<c, 1>>
                    BY <2>1, <2>5, <5>1, TypeParts DEF TypeOK
                <5> QED BY <5>1, <5>3, <2>5
            <4>3. CASE pc'[c] \notin {"idle", "notify", "timers"}
                BY <4>3
            <4> QED BY <1>1, <2>5, <4>1, <4>2, <4>3, HandlerFits
        <3> QED BY <2>2, <2>5, <3>1, <3>2
    <2> QED BY <2>3, <2>4, <2>5
<1>9. ResponsesFit'
    <2> SUFFICES ASSUME NEW r \in Responses, NEW d \in Calls,
                        resp[r].pc \notin {"idle", "done"}, resp[r].key = KeyOf[d]
                 PROVE  Answered(d, resp[r].age)'
        BY <1>2 DEF AgesFit, ResponsesFit
    <2>1. PICK a \in 0 .. Wait + 1 : a = resp[r].age
        BY <1>1
    <2>2. Answered(d, a)
        BY <2>1 DEF AgesFit, ResponsesFit
    <2>3. Fits(d, a)'
        <3>1. CASE d = c /\ StartTimers(c)
            <4>1. a <= AgeOfFirst(c)
                BY <2>2, <3>1 DEF Answered, StartTimers, AgeOfFirst, Stamped
            <4> QED BY <1>6, <3>1, <4>1
        <3> QED BY <1>5, <1>7, <2>2, <3>1 DEF Answered
    <2>4. pc'[d] = "timers" => push'[<<d, 1>>] = "sent" /\ a <= age'[<<d, 1>>]
        <3> SUFFICES ASSUME pc'[d] = "timers"
                     PROVE  push'[<<d, 1>>] = "sent" /\ a <= age'[<<d, 1>>]
            OBVIOUS
        <3>1. pc[d] \notin {"idle", "notify"}
            BY <2>2 DEF Answered, Fits
        <3>2. d # c
            <4>1. ~ StartTimers(c) \/ d # c
                BY DEF StartTimers, TypeOK
            <4> QED BY <3>1, <4>1, HandlerFits
        <3>3. pc[d] = "timers" /\ push'[<<d, 1>>] = push[<<d, 1>>]
            BY <1>1, <1>4, <3>2, HandlerFrame
        <3> QED BY <1>2, <2>2, <3>3 DEF Answered
    <2> QED BY <1>2, <2>1, <2>3, <2>4 DEF Answered, Fits
<1> QED BY <1>3, <1>8, <1>9 DEF AgesFit

LEMMA AgesPush ==
    ASSUME TypeOK, TypeOK', AgesFit, Measure, NEW p \in Calls \X Attempts, PushStep(p)
    PROVE  AgesFit'
<1>1. /\ UNCHANGED <<pc, remaining, resp>> /\ p[1] \in Calls
      /\ push[p] \notin {"none", "sent"}
      /\ \A q \in Calls \X Attempts : q # p => push'[q] = push[q] /\ age'[q] = age[q]
    BY PushFrame DEF callVars
<1>2. /\ \A q \in Calls \X Attempts : q[1] \in Calls /\ age[q] \in 0 .. Wait + 1
      /\ \A r \in Responses : resp[r].age \in 0 .. Wait + 1
      /\ \A c \in Calls : <<c, 1>> \in Calls \X Attempts
    BY TypeParts, AttemptFacts DEF PushOK, RespOK, RespRecord
<1>3. LagOK'
    BY Measured
<1>4. \A c \in Calls, a \in 0 .. Wait + 1 : Fits(c, a) => Fits(c, a)'
    <2> SUFFICES ASSUME NEW c \in Calls, NEW a \in 0 .. Wait + 1, Fits(c, a)
                 PROVE  Fits(c, a)'
        OBVIOUS
    <2>1. pc[c] \notin {"idle", "notify"}
        BY DEF Fits
    <2> QED BY <1>1, <2>1, FitsOn
<1>5. PushesFit'
    <2> SUFFICES ASSUME NEW q \in Calls \X Attempts
                 PROVE  /\ pc[q[1]] \in {"idle", "notify"} => push'[q] = "none"
                        /\ pc[q[1]] = "timers" /\ push'[q] # "none" => q[2] = 1
                        /\ push'[q] \in Stamped => Fits(q[1], age[q])'
        BY <1>1 DEF PushesFit
    <2>1. /\ pc[q[1]] \in {"idle", "notify"} => push[q] = "none"
          /\ pc[q[1]] = "timers" /\ push[q] # "none" => q[2] = 1
          /\ push[q] \in Stamped => Fits(q[1], age[q])
        BY DEF AgesFit, PushesFit
    <2>2. /\ pc[q[1]] \in {"idle", "notify"} => push'[q] = "none"
          /\ pc[q[1]] = "timers" /\ push'[q] # "none" => q[2] = 1
        BY <1>1, <2>1
    <2>3. ASSUME push'[q] \in Stamped PROVE Fits(q[1], age[q])'
        <3>1. CASE push[q] \in Stamped /\ age'[q] = age[q]
            <4>1. PICK a \in 0 .. Wait + 1 : a = age[q]
                BY <1>2
            <4> QED BY <1>2, <1>4, <2>1, <3>1, <4>1 DEF Fits
        <3>2. CASE q = p /\ age'[q] = 0
            <4>1. pc'[p[1]] \notin {"idle", "notify"}
                BY <1>1, <2>1, <3>2
            <4>2. remaining'[p[1]] \in 0 .. Wait /\ lag'[p[1]] \in 0 .. Wait + 1
                BY <1>1, <1>3 DEF TypeOK, LagOK
            <4> QED BY <3>2, <4>1, <4>2, Times DEF Fits
        <3> QED BY <1>1, <2>3, <3>1, <3>2, PushFrame
    <2> QED BY <2>2, <2>3
<1>6. ResponsesFit'
    <2> SUFFICES ASSUME NEW r \in Responses, NEW c \in Calls,
                        resp[r].pc \notin {"idle", "done"}, resp[r].key = KeyOf[c]
                 PROVE  Answered(c, resp[r].age)'
        BY <1>1 DEF AgesFit, ResponsesFit
    <2>1. PICK a \in 0 .. Wait + 1 : a = resp[r].age
        BY <1>2
    <2>2. Answered(c, a)
        BY <2>1 DEF AgesFit, ResponsesFit
    <2>3. Fits(c, a)'
        BY <1>4, <2>2 DEF Answered
    <2>4. pc[c] = "timers" => push'[<<c, 1>>] = "sent" /\ a <= age'[<<c, 1>>]
        BY <1>1, <1>2, <2>2 DEF Answered
    <2> QED BY <1>1, <2>1, <2>3, <2>4 DEF Answered, Fits
<1> QED BY <1>3, <1>5, <1>6 DEF AgesFit

LEMMA AgesResp ==
    ASSUME OwnKeys, TypeOK, TypeOK', AgesFit, Measure, NEW r \in Responses,
           \/ RespStep(r) \/ RespInvalid(r) \/ RespAbort(r)
           \/ \E p \in Calls \X Attempts, a \in Answers : Respond(r, p, a)
    PROVE  AgesFit'
<1> USE DEF AgesFit
<1>1. UNCHANGED <<pc, remaining, push, age>> /\ \A q \in Responses \ {r} : resp'[q] = resp[q]
    BY RespFrame DEF callVars, pushVars
<1>2. /\ \A p \in Calls \X Attempts : p[1] \in Calls /\ age[p] \in 0 .. Wait + 1
      /\ \A q \in Responses : /\ resp[q].age \in 0 .. Wait + 1
                              /\ resp'[q].age \in 0 .. Wait + 1
    BY TypeParts, TypePartsNext DEF PushOK, RespOK, RespRecord
<1>3. \A c \in Calls, a \in 0 .. Wait + 1 :
         /\ Fits(c, a) => Fits(c, a)'
         /\ Answered(c, a) => Answered(c, a)'
    <2> SUFFICES ASSUME NEW c \in Calls, NEW a \in 0 .. Wait + 1, Fits(c, a)
                 PROVE  Fits(c, a)'
        BY <1>1 DEF Answered
    <2>1. pc[c] \notin {"idle", "notify"}
        BY DEF Fits
    <2> QED BY <1>1, <2>1, FitsOn
<1>4. /\ resp'[r].pc # "done" => resp'[r].status = resp[r].status /\ resp[r].pc # "done"
      /\ \A c \in Calls :
            resp'[r].pc \notin {"idle", "done"} /\ resp'[r].key = KeyOf[c]
                => Answered(c, resp'[r].age)
    <2>1. CASE resp'[r].pc = "done"
        BY <2>1
    <2>2. ASSUME NEW p \in Calls \X Attempts, push[p] = "sent",
                 resp'[r].age = age[p], resp'[r].key = KeyOf[p[1]]
          PROVE  \A c \in Calls : resp'[r].key = KeyOf[c] => Answered(c, resp'[r].age)
        <3>1. Fits(p[1], age[p]) /\ (pc[p[1]] = "timers" => p[2] = 1)
            BY <2>2 DEF PushesFit, Stamped
        <3>2. \A c \in Calls : resp'[r].key = KeyOf[c] => c = p[1]
            BY <2>2 DEF OwnKeys
        <3>3. pc[p[1]] = "timers" => p = <<p[1], 1>>
            BY <3>1
        <3>4. age[p] <= age[p]
            BY <1>2
        <3> QED BY <2>2, <3>1, <3>2, <3>3, <3>4 DEF Answered
    <2>3. CASE Stage(r, "exists", "get") \/ Stage(r, "get", "set") \/ Stage(r, "set", "finish")
        BY <2>3 DEF Stage, ResponsesFit
    <2> QED BY <2>1, <2>2, <2>3, RespFrame
<1>5. ResponsesFit'
    <2> SUFFICES ASSUME NEW q \in Responses
                 PROVE  /\ resp'[q].pc # "done" => resp'[q].status = 0
                        /\ \A c \in Calls :
                              resp'[q].pc \notin {"idle", "done"} /\ resp'[q].key = KeyOf[c]
                                  => Answered(c, resp[q].age)'
        BY DEF ResponsesFit
    <2>1. /\ resp'[q].pc # "done" => resp'[q].status = 0
          /\ \A c \in Calls :
                resp'[q].pc \notin {"idle", "done"} /\ resp'[q].key = KeyOf[c]
                    => Answered(c, resp'[q].age)
        BY <1>1, <1>4 DEF ResponsesFit
    <2>2. PICK a \in 0 .. Wait + 1 : a = resp'[q].age
        BY <1>2
    <2> QED BY <1>3, <2>1, <2>2 DEF Answered, Fits
<1>6. PushesFit'
    <2> SUFFICES ASSUME NEW p \in Calls \X Attempts, push[p] \in Stamped
                 PROVE  Fits(p[1], age[p])'
        BY <1>1 DEF PushesFit
    <2>1. PICK a \in 0 .. Wait + 1 : a = age[p]
        BY <1>2
    <2> QED BY <1>1, <1>2, <1>3, <2>1 DEF PushesFit, Fits
<1> QED BY <1>5, <1>6, Measured

LEMMA AgesTick ==
    ASSUME TypeOK, TypeOK', AgesFit, Measure, Tick PROVE AgesFit'
<1> USE DEF AgesFit
<1>1. /\ pc \in [Calls -> PCs] /\ remaining \in [Calls -> 0 .. Wait]
      /\ \A c \in Calls :
            /\ pc'[c] = IF pc[c] = "sleep" THEN "test" ELSE pc[c]
            /\ remaining'[c] = IF remaining[c] > 0 THEN remaining[c] - 1 ELSE 0
            /\ lag[c] \in 0 .. Wait + 1
      /\ push' = push
    BY DEF TypeOK, Tick, Lowered, LagOK
<1>2. \A a \in 0 .. Wait + 1 : Aged(a) \in 0 .. a + 1
    BY Times DEF Aged
<1>3. \A a, b \in 0 .. Wait + 1 : a <= b => Aged(a) <= Aged(b)
    BY Times DEF Aged
<1>4. /\ \A p \in Calls \X Attempts :
            /\ p[1] \in Calls /\ age[p] \in 0 .. Wait + 1
            /\ push[p] \in Stamped => age'[p] = Aged(age[p])
      /\ \A r \in Responses : resp[r].age \in 0 .. Wait + 1
      /\ \A c \in Calls : <<c, 1>> \in Calls \X Attempts
    BY TypeParts, AttemptFacts DEF PushOK, RespOK, RespRecord, Tick
<1>5. ASSUME NEW c \in Calls, NEW a \in 0 .. Wait + 1, NEW b, b = Aged(a), Fits(c, a)
      PROVE  /\ pc'[c] \notin {"idle", "notify"}
             /\ pc'[c] \in Running /\ remaining'[c] > 0 => b + remaining'[c] <= Wait + lag'[c]
    <2>1. pc'[c] \notin {"idle", "notify"} /\ (pc'[c] \in Running => pc[c] \in Running)
        BY <1>1, <1>5 DEF Fits, Running, InLoop
    <2>2. ASSUME pc'[c] \in Running, remaining'[c] > 0
          PROVE  b + remaining'[c] <= Wait + lag'[c]
        <3>1. pc'[c] # "placeholder" \/ pc[c] # "timers"
            BY <1>1
        <3>2. lag'[c] = lag[c]
            BY <2>2, <3>1, Measured
        <3>3. remaining[c] > 0 /\ remaining'[c] = remaining[c] - 1 /\ remaining[c] \in 0 .. Wait
            BY <1>1, <2>2
        <3>4. a + remaining[c] <= Wait + lag[c]
            BY <1>5, <2>1, <2>2, <3>3 DEF Fits
        <3>5. b \in 0 .. a + 1 /\ Wait \in Nat /\ lag[c] \in 0 .. Wait + 1
            BY <1>1, <1>2, <1>5, Times
        <3> QED BY <3>2, <3>3, <3>4, <3>5
    <2> QED BY <2>1, <2>2
<1>6. PushesFit'
    <2> SUFFICES ASSUME NEW p \in Calls \X Attempts
                 PROVE  /\ pc'[p[1]] \in {"idle", "notify"} => push'[p] = "none"
                        /\ pc'[p[1]] = "timers" /\ push'[p] # "none" => p[2] = 1
                        /\ push'[p] \in Stamped => Fits(p[1], age[p])'
        BY DEF PushesFit
    <2>1. /\ pc'[p[1]] \in {"idle", "notify"} => push'[p] = "none"
          /\ pc'[p[1]] = "timers" /\ push'[p] # "none" => p[2] = 1
        BY <1>1, <1>4 DEF PushesFit
    <2>2. push'[p] \in Stamped => Fits(p[1], age[p])'
        BY <1>1, <1>4, <1>5 DEF PushesFit, Fits
    <2> QED BY <2>1, <2>2
<1>7. ResponsesFit'
    <2> SUFFICES ASSUME NEW r \in Responses
                 PROVE  /\ resp'[r].pc # "done" => resp'[r].status = 0
                        /\ \A c \in Calls :
                              resp'[r].pc \notin {"idle", "done"} /\ resp'[r].key = KeyOf[c]
                                  => Answered(c, resp[r].age)'
        BY DEF ResponsesFit
    <2>1. resp'[r].pc # "done" => resp'[r].status = 0
        BY TickResp DEF ResponsesFit
    <2>2. ASSUME NEW c \in Calls, resp'[r].pc \notin {"idle", "done"}, resp'[r].key = KeyOf[c]
          PROVE  Answered(c, resp[r].age)'
        <3>1. resp'[r].age = Aged(resp[r].age) /\ Answered(c, resp[r].age)
            BY <2>2, TickResp DEF ResponsesFit
        <3>2. Fits(c, resp[r].age)'
            BY <1>4, <1>5, <3>1 DEF Answered, Fits
        <3>3. pc'[c] = "timers" => push'[<<c, 1>>] = "sent" /\ resp'[r].age <= age'[<<c, 1>>]
            BY <1>1, <1>3, <1>4, <3>1 DEF Answered, Stamped
        <3> QED BY <3>2, <3>3 DEF Answered
    <2> QED BY <2>1, <2>2
<1> QED BY <1>6, <1>7, Measured

LEMMA LateIsNext == [LateNext]_lateVars => [Next]_vars
    BY DEF LateNext, lateVars

LEMMA AgesStep ==
    ASSUME OwnKeys, TypeOK, AgesFit, [LateNext]_lateVars
    PROVE  AgesFit'
<1>1. TypeOK'
    BY LateIsNext, TypeStep
<1>2. CASE UNCHANGED lateVars
    BY <1>2 DEF lateVars, vars, callVars, pushVars, AgesFit, LagOK, PushesFit,
                ResponsesFit, Answered, Fits
<1>3. CASE Measure /\ \E u \in Users : Register(u) \/ Unregister(u)
    <2>1. UNCHANGED <<pc, remaining, pushVars, resp>>
        BY <1>3 DEF Register, Unregister, callVars
    <2>2. \A c \in Calls, a \in 0 .. Wait + 1 : Fits(c, a) => Fits(c, a)'
        <3> SUFFICES ASSUME NEW c \in Calls, NEW a \in 0 .. Wait + 1, Fits(c, a)
                     PROVE  Fits(c, a)'
            OBVIOUS
        <3>1. pc[c] \notin {"idle", "notify"}
            BY DEF Fits
        <3> QED BY <1>1, <1>3, <2>1, <3>1, FitsOn
    <2>3. /\ \A p \in Calls \X Attempts : p[1] \in Calls /\ age[p] \in 0 .. Wait + 1
          /\ \A r \in Responses : resp[r].age \in 0 .. Wait + 1
        BY TypeParts DEF PushOK, RespOK, RespRecord
    <2>4. PushesFit'
        BY <2>1, <2>2, <2>3 DEF AgesFit, PushesFit, pushVars, Fits
    <2>5. ResponsesFit'
        BY <2>1, <2>2, <2>3 DEF AgesFit, ResponsesFit, Answered, pushVars, Fits
    <2> QED BY <1>1, <1>3, <2>4, <2>5, Measured DEF AgesFit
<1> QED BY <1>1, <1>2, <1>3, AgesHandler, AgesPush, AgesResp, AgesTick
        DEF LateNext, Next, Untimed

\* A phone that is told that it is too late answers a push older than the wait,
\* or as old.
LEMMA LateStep ==
    ASSUME TypeOK, AgesFit, [LateNext]_lateVars, NEW r \in Responses, NEW c \in Calls,
           resp[r].pc = "finish", resp'[r].status = 404, KeyOf[c] = resp[r].key,
           pc[c] \in InLoop
    PROVE  remaining[c] <= lag[c]
<1>0. [Next]_vars
    BY LateIsNext
<1>1. resp[r].status = 0 /\ resp'[r] # resp[r] /\ resp'[r].status # resp[r].status
    BY DEF AgesFit, ResponsesFit
<1>2. RespFinish(r) \/ RespAbort(r)
    <2>1. CASE \E d \in Calls : HandlerStep(d) \/ Reject(d) \/ Abort(d)
        BY <1>1, <2>1, HandlerFrame
    <2>2. CASE \E p \in Calls \X Attempts : PushStep(p)
        BY <1>1, <2>2, PushFrame
    <2>3. CASE Tick
        BY <1>1, <2>3, TickResp
    <2>4. CASE UNCHANGED vars \/ \E u \in Users : Register(u) \/ Unregister(u)
        BY <1>1, <2>4 DEF vars, Register, Unregister
    <2>5. ASSUME NEW q \in Responses,
                 \/ RespStep(q) \/ RespInvalid(q) \/ RespAbort(q)
                 \/ \E p \in Calls \X Attempts, a \in Answers : Respond(q, p, a)
          PROVE  RespFinish(r) \/ RespAbort(r)
        <3>1. \A x \in Responses \ {q} : resp'[x] = resp[x]
            BY <2>5, RespFrame
        <3>2. q = r
            BY <1>1, <3>1
        <3> QED BY <2>5, <3>2 DEF RespStep, RespFound, RespUnknown, RespGet, RespSet,
                   RespInvalid, Respond
    <2> QED BY <1>0, <2>1, <2>2, <2>3, <2>4, <2>5 DEF Next, Untimed
<1>3. \A code : RespReturn(r, code) => resp'[r].status = code
    BY NoResponseFacts, TypeParts DEF RespReturn, RespTo, RespOK, RespRecord
<1>4. resp[r].age \in 0 .. Wait + 1 /\ remaining[c] \in 0 .. Wait /\ lag[c] \in 0 .. Wait + 1
    BY TypeParts DEF RespOK, RespRecord, CallsOK, AgesFit, LagOK
<1>5. resp[r].age >= Wait
    <2>1. CASE RespAbort(r)
        BY <1>3, <2>1 DEF RespAbort
    <2>2. CASE RespFinish(r)
        <3>1. PICK late \in Exceeds(resp[r].age, Wait) :
                 RespReturn(r, IF late THEN 404 ELSE 202)
            BY <2>2 DEF RespFinish
        <3>2. late
            BY <1>3, <3>1
        <3>3. SUFFICES ASSUME resp[r].age < Wait
                       PROVE  FALSE
            BY <1>4, <3>3, Times
        <3>4. resp[r].age # Wait /\ ~ (resp[r].age > Wait)
            BY <1>4, <3>3, Times
        <3>5. Exceeds(resp[r].age, Wait) = {resp[r].age > Wait}
            BY <3>4 DEF Exceeds
        <3> QED BY <3>1, <3>2, <3>4, <3>5
    <2> QED BY <1>2, <2>1, <2>2
<1>6. Fits(c, resp[r].age)
    BY DEF AgesFit, ResponsesFit, Answered
<1> QED BY <1>4, <1>5, <1>6, Times DEF Fits, Running

\* A phone is turned away only at the end of its call's loop: for any wait, at
\* any speed of the servers, the loop has then no more time left than its first
\* push was old when the deadline was set.
THEOREM TurnedAwayLate == ASSUME OwnKeys PROVE LateSpec => TurnedAwayAtTheEnd
<1>1. TypeOK /\ AgesFit /\ [LateNext]_lateVars => AgesFit' /\ TypeOK'
    BY AgesStep, LateIsNext, TypeStep
<1>2. TypeOK /\ AgesFit /\ [LateNext]_lateVars =>
         [\A r \in Responses : \A c \in Calls :
             (resp[r].pc = "finish" /\ resp'[r].status = 404
                /\ KeyOf[c] = resp[r].key /\ pc[c] \in InLoop)
                   => remaining[c] <= lag[c]]_lateVars
    BY LateStep
<1>3. LateInit => TypeOK
    BY TypeInit DEF LateInit
<1> QED BY <1>1, <1>2, <1>3, AgesInit, PTL DEF LateSpec, TurnedAwayAtTheEnd

LEMMA PromptIsNext == [PromptNext]_vars => [Next]_vars
    BY DEF PromptNext, PromptTick, Next

----------------------------------------------------------------------------
(* Answers.  One that comes in time stays in the cache until the call is   *)
(* over, and the loop looks once more before its time is up.               *)

HeardInTime(c) == \E a \in Answers : <<a, TRUE>> \in heard[c]

Waits(c) ==
    /\ pc[c] = "test" => remaining[c] > 0
    /\ pc[c] = "decide" => available[c] \in Answers \/ remaining[c] > 1
    /\ pc[c] = "sleep" => remaining[c] > 1

Keeps(c) == EntryOf(c).val \in Answers /\ EntryOf(c).ttl > remaining[c]

Uncounted ==
    \A c \in Calls :
        /\ pc[c] # "done" => "no_response" \notin metrics[c]
        /\ pc[c] \in BeforeLoop => heard[c] = {}

AnswersKept ==
    \A c \in Calls : pc[c] \in InLoop /\ HeardInTime(c) => Waits(c) /\ Keeps(c)

HonourInv == TypeOK /\ Uncounted /\ AnswersKept /\ AnswerHonoured

LEMMA HonourInit == Init => HonourInv
<1> SUFFICES ASSUME Init PROVE HonourInv
    OBVIOUS
<1> QED BY TypeInit DEF Init, HonourInv, Uncounted, AnswersKept, AnswerHonoured, InLoop,
              BeforeLoop

\* What matters to one call.
Honours(c) ==
    /\ pc[c] # "done" => "no_response" \notin metrics[c]
    /\ pc[c] \in BeforeLoop => heard[c] = {}
    /\ pc[c] \in InLoop /\ HeardInTime(c) => Waits(c) /\ Keeps(c)
    /\ "no_response" \in metrics[c] => ~ HeardInTime(c)

LEMMA HonourParts ==
    /\ HonourInv <=> TypeOK /\ \A c \in Calls : Honours(c)
    /\ HonourInv' <=> TypeOK' /\ \A c \in Calls : Honours(c)'
    BY DEF HonourInv, Honours, Uncounted, AnswersKept, AnswerHonoured, HeardInTime

LEMMA HonourHandler ==
    ASSUME OwnKeys, HonourInv, NEW c \in Calls, HandlerStep(c) \/ Reject(c) \/ Abort(c)
    PROVE  HonourInv'
<1>1. /\ pc \in [Calls -> PCs] /\ remaining \in [Calls -> 0 .. Wait]
      /\ available \in [Calls -> CacheValues] /\ metrics \in [Calls -> SUBSET Metrics]
      /\ heard' = heard
    BY HandlerFrame DEF HonourInv, TypeOK
<1>2. ASSUME NEW d \in Calls, d # c PROVE Honours(d)'
    <2>1. EntryOf(d)' = EntryOf(d)
        <3>1. CASE SetPlaceholder(c)
            <4>1. /\ KeyOf[c] \in Keys /\ PlatformOf[UserOf[c]] \in CacheValues
                  /\ KeyOf[d] # KeyOf[c]
                BY <1>2, CallConstants, AnswerFacts DEF OwnKeys
            <4> QED BY <3>1, <4>1, EntryFacts DEF SetPlaceholder, HonourInv
        <3>2. CASE UNCHANGED cache
            BY <3>2 DEF EntryOf
        <3> QED BY <3>1, <3>2, HandlerFrame DEF HonourInv
    <2>2. Honours(d)
        BY HonourParts
    <2>3. /\ pc'[d] = pc[d] /\ remaining'[d] = remaining[d]
          /\ available'[d] = available[d] /\ metrics'[d] = metrics[d]
        BY <1>2, HandlerFrame DEF HonourInv
    <2>4. /\ HeardInTime(d)' <=> HeardInTime(d)
          /\ Waits(d)' <=> Waits(d)
          /\ Keeps(d)' <=> Keeps(d)
        BY <1>1, <2>1, <2>3 DEF HeardInTime, Waits, Keeps
    <2> QED BY <1>1, <2>2, <2>3, <2>4 DEF Honours
<1>3. Honours(c) /\ (HeardInTime(c)' <=> HeardInTime(c))
    BY <1>1, HonourParts DEF HeardInTime
\* A step that ends the call, one before the loop, and one of the loop.
<1>4. ASSUME NEW m, pc'[c] = "done", metrics'[c] = metrics[c] \cup m,
             "no_response" \in m => ~ HeardInTime(c), pc[c] # "done"
      PROVE  Honours(c)'
    BY <1>3, <1>4 DEF Honours, InLoop, BeforeLoop
<1>5. ASSUME pc[c] \in BeforeLoop, metrics'[c] \subseteq metrics[c] \cup {"incoming_success"},
             pc'[c] \in BeforeLoop \cup InLoop
      PROVE  Honours(c)'
    <2>1. heard'[c] = {} /\ ~ HeardInTime(c) /\ pc[c] # "done"
        BY <1>1, <1>3, <1>5 DEF Honours, HeardInTime, BeforeLoop
    <2> QED BY <1>3, <1>5, <2>1 DEF Honours
<1>6. ASSUME pc[c] \in InLoop, pc'[c] \in InLoop, metrics'[c] = metrics[c],
             EntryOf(c)' = EntryOf(c), remaining'[c] = remaining[c],
             Waits(c) /\ Keeps(c) => Waits(c)'
      PROVE  Honours(c)'
    <2>1. Keeps(c)' <=> Keeps(c)
        BY <1>6 DEF Keeps
    <2>2. pc[c] # "done" /\ pc'[c] \notin BeforeLoop
        BY <1>6 DEF InLoop, BeforeLoop
    <2> QED BY <1>3, <1>6, <2>1, <2>2 DEF Honours
<1>7. ASSUME TimeOut(c) PROVE Honours(c)'
    <2>1. /\ pc'[c] = "done" /\ pc[c] = "test" /\ remaining[c] = 0
          /\ metrics'[c] = metrics[c] \cup {"no_response"}
        BY <1>1, <1>7 DEF TimeOut, Return
    <2>2. ~ HeardInTime(c)
        BY <1>3, <2>1 DEF Honours, Waits, InLoop
    <2> QED BY <1>4, <2>1, <2>2
<1>12. ASSUME Abort(c) PROVE Honours(c)'
    <2>1. PICK m \in SUBSET PendingLists(c) : Return(c, "500", m)
        BY <1>12 DEF Abort
    <2>2. pc'[c] = "done" /\ metrics'[c] = metrics[c] \cup m /\ pc[c] # "done"
        BY <1>1, <1>12, <2>1 DEF Return, Abort, CallsOut
    <2>3. "no_response" \in m => ~ HeardInTime(c)
        BY <1>3 DEF PendingLists, Honours, Waits, InLoop
    <2> QED BY <1>4, <2>2, <2>3
<1>8. ASSUME LookupMissing(c) \/ LookupError(c) \/ Ack(c) \/ Nak(c) \/ Reject(c)
      PROVE  Honours(c)'
    <2>1. PICK v, m : Return(c, v, m) /\ "no_response" \notin m
        BY <1>8 DEF LookupMissing, LookupError, Ack, Nak, Reject
    <2>2. pc[c] # "done"
        BY <1>8 DEF LookupMissing, LookupError, Ack, Nak, Reject
    <2>3. pc'[c] = "done" /\ metrics'[c] = metrics[c] \cup m
        BY <1>1, <2>1 DEF Return
    <2> QED BY <1>4, <2>1, <2>2, <2>3
<1>9. ASSUME LookupFound(c) \/ Notify(c) \/ StartTimers(c) \/ SetPlaceholder(c)
      PROVE  Honours(c)'
    <2>1. /\ pc[c] \in {"idle", "notify", "timers", "placeholder"}
          /\ pc'[c] \in {"notify", "timers", "placeholder", "test"}
          /\ metrics'[c] \subseteq metrics[c] \cup {"incoming_success"}
        BY <1>1, <1>9 DEF LookupFound, Notify, StartTimers, SetPlaceholder
    <2> QED BY <1>5, <2>1 DEF BeforeLoop, InLoop
<1>10. ASSUME LoopTest(c) \/ Poll(c) \/ ResendPush(c) \/ NoResend(c)
      PROVE  Honours(c)'
    <2>1. /\ pc[c] \in InLoop /\ pc'[c] \in InLoop /\ UNCHANGED <<metrics, remaining, cache>>
          /\ EntryOf(c)' = EntryOf(c)
        BY <1>1, <1>10 DEF LoopTest, Poll, ResendPush, NoResend, Undecided, InLoop, EntryOf
    <2>2. ASSUME Waits(c), Keeps(c) PROVE Waits(c)'
        <3>1. CASE LoopTest(c)
            BY <1>1, <3>1 DEF LoopTest, Waits
        <3>2. CASE Poll(c)
            <4>1. available'[c] = EntryOf(c).val /\ pc'[c] = "decide"
                BY <1>1, <3>2 DEF Poll, get, EntryOf
            <4> QED BY <2>2, <4>1 DEF Waits, Keeps
        <3>3. CASE ResendPush(c) \/ NoResend(c)
            <4>1. available[c] \notin Answers /\ pc[c] = "decide" /\ pc'[c] = "sleep"
                BY <1>1, <3>3, AnswerFacts DEF ResendPush, NoResend, Undecided
            <4> QED BY <2>1, <2>2, <4>1 DEF Waits
        <3> QED BY <1>10, <3>1, <3>2, <3>3
    <2> QED BY <1>6, <2>1, <2>2
<1>11. Honours(c)'
    BY <1>7, <1>8, <1>9, <1>10, <1>12 DEF HandlerStep
<1>13. TypeOK'
    BY HandlerType DEF HonourInv
<1> QED BY <1>2, <1>11, <1>13, HonourParts

\* News of an answer comes with the answer, in time or not.
LEMMA HonourNews ==
    ASSUME HonourInv, NEW k, NEW a \in News, HeardOf(k, a), UNCHANGED callVars,
           \A c \in Calls : EntryOf(c)' = EntryOf(c) \/ Keeps(c)',
           \A c \in Calls : a \in Answers /\ KeyOf[c] = k => Keeps(c)'
    PROVE  \A c \in Calls : Honours(c)'
<1> SUFFICES ASSUME NEW c \in Calls PROVE Honours(c)'
    OBVIOUS
<1>1. /\ Honours(c) /\ remaining[c] \in 0 .. Wait /\ pc[c] \in PCs
      /\ \/ heard'[c] = heard[c]
         \/ /\ pc[c] \in InLoop /\ KeyOf[c] = k
            /\ heard'[c] = heard[c] \cup {<<a, InTime(c)>>}
    BY HonourParts DEF HeardOf, HonourInv, TypeOK
<1>2. HeardInTime(c)' => HeardInTime(c) \/ (a \in Answers /\ remaining[c] > 1 /\ KeyOf[c] = k
                                              /\ pc[c] \in InLoop)
    <2> SUFFICES ASSUME HeardInTime(c)', ~ HeardInTime(c)
                 PROVE  a \in Answers /\ remaining[c] > 1 /\ KeyOf[c] = k /\ pc[c] \in InLoop
        OBVIOUS
    <2>1. PICK b \in Answers : <<b, TRUE>> \in heard'[c]
        BY DEF HeardInTime
    <2>2. <<b, TRUE>> \notin heard[c]
        BY DEF HeardInTime
    <2>3. <<b, TRUE>> = <<a, InTime(c)>> /\ pc[c] \in InLoop /\ KeyOf[c] = k
        BY <1>1, <2>1, <2>2
    <2>4. a = b /\ InTime(c)
        BY <2>3
    <2> QED BY <2>3, <2>4 DEF InTime
<1>3. Waits(c)' <=> Waits(c)
    BY DEF Waits, callVars
<1>4. EntryOf(c)' = EntryOf(c) => (Keeps(c)' <=> Keeps(c))
    BY DEF Keeps, callVars
<1>5. remaining[c] > 1 => Waits(c)
    BY <1>1 DEF Waits
<1>6. UNCHANGED <<pc, metrics>>
    BY DEF callVars
<1>7. pc[c] \in InLoop => pc[c] # "done" /\ pc[c] \notin BeforeLoop
    BY DEF InLoop, BeforeLoop
<1> QED BY <1>1, <1>2, <1>3, <1>4, <1>5, <1>6, <1>7 DEF Honours

LEMMA HonourQuiet ==
    ASSUME HonourInv, UNCHANGED <<callVars, heard>>,
           \A c \in Calls : EntryOf(c)' = EntryOf(c)
    PROVE  \A c \in Calls : Honours(c)'
    BY HonourParts DEF Honours, HeardInTime, Waits, Keeps, callVars

LEMMA HonourPush ==
    ASSUME HonourInv, NEW p \in Calls \X Attempts, PushStep(p)
    PROVE  HonourInv'
<1>1. TypeOK' /\ UNCHANGED callVars /\ \A c \in Calls : EntryOf(c)' = EntryOf(c)
    BY PushType, PushFrame DEF HonourInv
<1>2. CASE UNCHANGED heard
    BY <1>1, <1>2, HonourQuiet, HonourParts
<1>3. ASSUME NEW k \in Keys, HeardOf(k, "Removed") PROVE HonourInv'
    <2>1. "Removed" \in News /\ "Removed" \notin Answers
        BY AnswerFacts DEF News
    <2> QED BY <1>1, <1>3, <2>1, HonourNews, HonourParts
<1> QED BY <1>2, <1>3, PushFrame DEF HonourInv

LEMMA HonourResp ==
    ASSUME HonourInv, NEW r \in Responses,
           \/ RespStep(r) \/ RespInvalid(r) \/ RespAbort(r)
           \/ \E p \in Calls \X Attempts, a \in Answers : Respond(r, p, a)
    PROVE  HonourInv'
<1>1. TypeOK /\ TypeOK' /\ UNCHANGED callVars
    BY RespType, RespFrame DEF HonourInv
<1>2. CASE UNCHANGED <<cache, heard>>
    BY <1>1, <1>2, HonourQuiet, HonourParts DEF EntryOf
<1>3. CASE /\ cache' = stored(CallKey(resp[r].key), resp[r].available)
           /\ HeardOf(resp[r].key, resp[r].available)
    <2>1. PICK k \in Keys, a \in Answers : k = resp[r].key /\ a = resp[r].available
        BY <1>1, TypeParts DEF RespOK, RespRecord
    <2>2. a \in News /\ a \in CacheValues
        BY AnswerFacts DEF News
    <2>3. \A c \in Calls : EntryOf(c)' = IF KeyOf[c] = k THEN [val |-> a, ttl |-> TTL]
                                         ELSE EntryOf(c)
        BY <1>1, <1>3, <2>1, <2>2, EntryFacts
    <2>4. \A c \in Calls : remaining'[c] < TTL
        BY <1>1, TimeAssumption DEF TimeAssumption, TypeOK
    <2>5. \A c \in Calls : KeyOf[c] = k => Keeps(c)'
        BY <2>3, <2>4 DEF Keeps
    <2> QED BY <1>1, <1>3, <2>1, <2>2, <2>3, <2>5, HonourNews, HonourParts
<1> QED BY <1>1, <1>2, <1>3, RespFrame

LEMMA HonourTick == ASSUME HonourInv, PromptTick PROVE HonourInv'
<1>1. Tick /\ TypeOK /\ TypeOK'
    BY TickType DEF PromptTick, HonourInv
<1>2. ASSUME NEW c \in Calls PROVE Honours(c)'
    <2>1. /\ pc[c] \in PCs \ {"timers", "placeholder", "test", "poll", "decide"}
          /\ pc'[c] = IF pc[c] = "sleep" THEN "test" ELSE pc[c]
          /\ remaining[c] \in 0 .. Wait
          /\ remaining'[c] = IF remaining[c] > 0 THEN remaining[c] - 1 ELSE 0
          /\ metrics' = metrics /\ heard' = heard
        BY <1>1 DEF PromptTick, Busy, Tick, Lowered, TypeOK
    <2>2. Honours(c) /\ EntryOf(c) \in [val : CacheValues, ttl : 0 .. TTL]
        BY <1>1, HonourParts, EntryFacts
    <2>3. ASSUME pc[c] = "sleep", HeardInTime(c) PROVE Waits(c)' /\ Keeps(c)'
        <3>1. remaining[c] > 1 /\ EntryOf(c).val \in Answers /\ EntryOf(c).ttl > remaining[c]
            BY <2>2, <2>3 DEF Honours, Waits, Keeps, InLoop
        <3>2. EntryOf(c)' = [EntryOf(c) EXCEPT !.ttl = EntryOf(c).ttl - 1]
            BY <1>1, <2>1, <2>2, <3>1, TickEntry, Times DEF Expired
        <3>3. EntryOf(c)'.val = EntryOf(c).val /\ EntryOf(c)'.ttl = EntryOf(c).ttl - 1
            BY <2>2, <3>2
        <3> QED BY <2>1, <2>2, <2>3, <3>1, <3>3, Times DEF Waits, Keeps
    <2> QED BY <2>1, <2>2, <2>3 DEF Honours, HeardInTime, InLoop, BeforeLoop
<1> QED BY <1>1, <1>2, HonourParts

LEMMA HonourStep ==
    ASSUME OwnKeys, HonourInv, [PromptNext]_vars
    PROVE  HonourInv'
<1>1. CASE UNCHANGED vars \/ \E u \in Users : Register(u) \/ Unregister(u)
    <2>1. UNCHANGED <<cache, callVars, heard>>
        BY <1>1 DEF vars, Register, Unregister
    <2>2. TypeOK'
        BY PromptIsNext, TypeStep DEF HonourInv
    <2> QED BY <2>1, <2>2, HonourQuiet, HonourParts DEF EntryOf
<1> QED BY <1>1, HonourHandler, HonourPush, HonourResp, HonourTick DEF PromptNext, Untimed

\* A timely server honours an answer that comes in time: the call of a phone
\* that has answered is never counted as unanswered.
THEOREM AnswersHonoured == ASSUME OwnKeys PROVE PromptSpec => []AnswerHonoured
<1>1. HonourInv /\ [PromptNext]_vars => HonourInv'
    BY HonourStep
<1>2. HonourInv => AnswerHonoured
    BY DEF HonourInv
<1> QED BY <1>1, <1>2, HonourInit, PTL DEF PromptSpec

----------------------------------------------------------------------------
(* Repeated pushes.  A push is repeated Resend + 1 polls after the one     *)
(* before it, and never later, so the time left is known from the number   *)
(* of attempts; as long as the attempts are few against the polls between  *)
(* two of them, the last one has a resend interval left.                   *)

FewAttempts == Wait \div Resend <= Resend + 2

Spent(n) == n * (Resend + 1)

OnTime(c) ==
    /\ pc[c] = "timers" => attempt[c] = 1
    /\ pc[c] \in InLoop \cup {"placeholder"} =>
          /\ attempt[c] >= 1
          /\ attempt[c] < MaxAttempts =>
                remaining[c] + Spent(attempt[c]) >= Wait + untilResend[c] + 1
    /\ pc[c] = "sleep" /\ attempt[c] < MaxAttempts => untilResend[c] >= 0

AllOnTime == \A c \in Calls : OnTime(c)

LEMMA SpentFacts ==
    /\ \A n \in Nat : Spent(n) \in Nat /\ Spent(n + 1) = Spent(n) + Resend + 1
    /\ Spent(1) = Resend + 1
    BY Times DEF Spent

\* What is left when the last push is due.
LEMMA EnoughLeft ==
    ASSUME FewAttempts, NEW n \in Nat, n < MaxAttempts
    PROVE  Wait - Spent(n) >= Resend
<1> DEFINE D == Wait \div Resend
<1>1. D \in Nat /\ Resend * D <= Wait /\ Resend \in Nat /\ Wait \in Nat
    BY Times
<1>2. n <= D - 2 /\ D <= Resend + 2
    BY <1>1 DEF MaxAttempts, FewAttempts
<1> HIDE DEF D
<1>3. \A a, b, r \in Nat : a <= b => a * r <= b * r
    OBVIOUS
<1>4. n * (Resend + 1) <= (D - 2) * (Resend + 1)
    <2>1. D - 2 \in Nat /\ Resend + 1 \in Nat
        BY <1>1, <1>2
    <2> QED BY <1>2, <1>3, <2>1
<1>5. (D - 2) * (Resend + 1) = Resend * D + D - 2 * Resend - 2
    BY <1>1
<1>6. n * (Resend + 1) \in Nat /\ Resend * D \in Nat
    BY <1>1
<1> QED BY <1>1, <1>2, <1>4, <1>5, <1>6 DEF Spent

LEMMA TimersFacts ==
    ASSUME TypeOK, NEW c \in Calls
    PROVE  /\ pc[c] \in PCs /\ remaining[c] \in 0 .. Wait
           /\ untilResend[c] \in -1 .. Resend /\ attempt[c] \in Attempts \cup {0}
           /\ attempt[c] \in Nat /\ MaxAttempts \in Int
           /\ Spent(attempt[c]) \in Nat
           /\ Wait \in Nat /\ Resend \in Nat
    BY AttemptFacts, Times, SpentFacts DEF TypeOK, Attempts

LEMMA OnTimeHandler ==
    ASSUME TypeOK, AllOnTime, NEW c \in Calls, HandlerStep(c) \/ Reject(c) \/ Abort(c)
    PROVE  AllOnTime'
<1>1. ASSUME NEW d \in Calls, d # c PROVE OnTime(d)'
    <2>1. /\ pc'[d] = pc[d] /\ remaining'[d] = remaining[d]
          /\ untilResend'[d] = untilResend[d] /\ attempt'[d] = attempt[d]
        BY <1>1, HandlerFrame
    <2> QED BY <2>1 DEF AllOnTime, OnTime, Spent
<1>2. /\ pc \in [Calls -> PCs] /\ remaining \in [Calls -> 0 .. Wait]
      /\ untilResend \in [Calls -> -1 .. Resend] /\ attempt \in [Calls -> Attempts \cup {0}]
      /\ OnTime(c)
    BY DEF TypeOK, AllOnTime
<1>3. ASSUME \/ LookupMissing(c) \/ LookupError(c) \/ TimeOut(c) \/ Ack(c) \/ Nak(c)
             \/ Reject(c) \/ Abort(c)
      PROVE  OnTime(c)'
    <2>1. PICK v, m : Return(c, v, m)
        BY <1>3 DEF LookupMissing, LookupError, TimeOut, Ack, Nak, Reject, Abort
    <2> QED BY <1>2, <2>1 DEF Return, OnTime, InLoop
<1>4. ASSUME LookupFound(c) PROVE OnTime(c)'
    BY <1>2, <1>4 DEF LookupFound, OnTime, InLoop
<1>5. ASSUME Notify(c) PROVE OnTime(c)'
    BY <1>2, <1>5 DEF Notify, OnTime, InLoop
<1>6. ASSUME StartTimers(c) PROVE OnTime(c)'
    <2>1. /\ pc'[c] = "placeholder" /\ attempt'[c] = 1
          /\ remaining'[c] = Wait /\ untilResend'[c] = Resend
        BY <1>2, <1>6 DEF StartTimers, OnTime
    <2>2. Spent(attempt[c])' = Resend + 1
        BY <2>1, SpentFacts DEF Spent
    <2> QED BY <2>1, <2>2, Times DEF OnTime
<1>7. ASSUME SetPlaceholder(c) \/ LoopTest(c) \/ Poll(c) PROVE OnTime(c)'
    <2>1. /\ pc[c] \in {"placeholder", "test", "poll"} /\ pc'[c] \in {"test", "poll", "decide"}
          /\ UNCHANGED <<remaining, untilResend, attempt>>
        BY <1>2, <1>7 DEF SetPlaceholder, LoopTest, Poll
    <2> QED BY <1>2, <2>1 DEF OnTime, Spent, InLoop
<1>8. ASSUME NoResend(c) PROVE OnTime(c)'
    <2>1. /\ pc[c] = "decide" /\ pc'[c] = "sleep" /\ ~ ResendDue(c)
          /\ UNCHANGED <<remaining, untilResend, attempt>>
        BY <1>2, <1>8 DEF NoResend, Undecided
    <2>2. attempt[c] < MaxAttempts => untilResend[c] >= 0
        BY <2>1, TimersFacts DEF ResendDue
    <2> QED BY <1>2, <2>1, <2>2 DEF OnTime, Spent, InLoop
<1>9. ASSUME ResendPush(c) PROVE OnTime(c)'
    <2>1. /\ pc[c] = "decide" /\ pc'[c] = "sleep" /\ untilResend[c] < 0
          /\ attempt[c] < MaxAttempts /\ attempt'[c] = attempt[c] + 1
          /\ untilResend'[c] = Resend /\ remaining'[c] = remaining[c]
        BY <1>2, <1>9 DEF ResendPush, Undecided, ResendDue
    <2>2. remaining[c] + Spent(attempt[c]) >= Wait + untilResend[c] + 1 /\ attempt[c] >= 1
        BY <1>2, <2>1 DEF OnTime, InLoop
    <2>3. Spent(attempt[c])' = Spent(attempt[c]) + Resend + 1
        BY <2>1, SpentFacts, TimersFacts DEF Spent
    <2>4. untilResend[c] = -1
        BY <2>1, TimersFacts
    <2> QED BY <2>1, <2>2, <2>3, <2>4, TimersFacts DEF OnTime
<1>10. OnTime(c)'
    BY <1>3, <1>4, <1>5, <1>6, <1>7, <1>8, <1>9 DEF HandlerStep
<1> QED BY <1>1, <1>10 DEF AllOnTime

LEMMA OnTimeTick == ASSUME TypeOK, AllOnTime, PromptTick PROVE AllOnTime'
<1> SUFFICES ASSUME NEW c \in Calls PROVE OnTime(c)'
    BY DEF AllOnTime
<1>1. /\ pc[c] \notin {"timers", "placeholder", "test", "poll", "decide"}
      /\ pc'[c] = IF pc[c] = "sleep" THEN "test" ELSE pc[c]
      /\ attempt'[c] = attempt[c]
      /\ remaining'[c] = IF remaining[c] > 0 THEN remaining[c] - 1 ELSE 0
      /\ pc[c] = "sleep" => untilResend'[c] = IF untilResend[c] > -1 THEN untilResend[c] - 1
                                              ELSE -1
    BY DEF PromptTick, Busy, Tick, Lowered, HasTimers, InLoop
<1>2. OnTime(c) /\ pc[c] \in PCs
    BY TimersFacts DEF AllOnTime
<1>3. Spent(attempt[c])' = Spent(attempt[c])
    BY <1>1 DEF Spent
<1>4. CASE pc[c] = "sleep"
    BY <1>1, <1>2, <1>3, <1>4, TimersFacts DEF OnTime, InLoop
<1>5. CASE pc[c] # "sleep"
    BY <1>1, <1>2, <1>5 DEF OnTime, InLoop, PCs
<1> QED BY <1>4, <1>5

LEMMA OnTimeStep == ASSUME TypeOK, AllOnTime, [PromptNext]_vars PROVE AllOnTime'
<1>1. CASE UNCHANGED callVars
    BY <1>1 DEF callVars, AllOnTime, OnTime, Spent
<1>2. UNCHANGED vars \/ (\E u \in Users : Register(u) \/ Unregister(u)) => UNCHANGED callVars
    BY DEF vars, Register, Unregister
<1> QED BY <1>1, <1>2, OnTimeHandler, OnTimeTick, PushFrame, RespFrame DEF PromptNext, Untimed

\* Only the handler of a call repeats its push.
LEMMA RepeatIsResend ==
    ASSUME TypeOK, [PromptNext]_vars, NEW c \in Calls, pc[c] = "decide",
           attempt'[c] > attempt[c]
    PROVE  ResendPush(c)
<1>0. attempt \in [Calls -> Attempts \cup {0}] /\ attempt[c] \in Nat
    BY TimersFacts DEF TypeOK
<1>1. attempt' # attempt
    BY <1>0
<1>2. ~ UNCHANGED callVars /\ ~ PromptTick
    BY <1>1 DEF callVars, PromptTick, Tick
<1>3. UNCHANGED vars \/ (\E u \in Users : Register(u) \/ Unregister(u)) => UNCHANGED callVars
    BY DEF vars, Register, Unregister
<1>4. PICK d \in Calls : HandlerStep(d) \/ Reject(d) \/ Abort(d)
    BY <1>2, <1>3, PushFrame, RespFrame DEF PromptNext, Untimed
<1>5. d = c
    BY <1>0, <1>4, HandlerFrame
<1>6. ASSUME NEW v, NEW m, Return(c, v, m) PROVE FALSE
    BY <1>0, <1>6 DEF Return
<1>7. CASE \/ LookupMissing(c) \/ LookupError(c) \/ TimeOut(c) \/ Ack(c) \/ Nak(c)
           \/ Reject(c) \/ Abort(c)
    <2>1. PICK v, m : Return(c, v, m)
        BY <1>7 DEF LookupMissing, LookupError, TimeOut, Ack, Nak, Reject, Abort
    <2> QED BY <1>6, <2>1
<1>8. CASE \/ LookupFound(c) \/ Notify(c) \/ StartTimers(c) \/ SetPlaceholder(c)
           \/ LoopTest(c) \/ Poll(c) \/ NoResend(c)
    BY <1>1, <1>8 DEF LookupFound, Notify, StartTimers, SetPlaceholder, LoopTest, Poll,
       NoResend
<1> QED BY <1>4, <1>5, <1>7, <1>8 DEF HandlerStep

\* A repeated push leaves the phone a resend interval to answer, on a timely
\* server that repeats it a few times only: three pushes at most, a hundred
\* polls apart, with the values of the settings.
THEOREM RepeatsAreEarly == ASSUME FewAttempts PROVE PromptSpec => NoLatePush
<1>1. ASSUME TypeOK, AllOnTime, [PromptNext]_vars, NEW c \in Calls,
             pc[c] = "decide", attempt'[c] > attempt[c]
      PROVE  remaining[c] >= Resend
    <2>1. untilResend[c] < 0 /\ attempt[c] < MaxAttempts
        BY <1>1, RepeatIsResend DEF ResendPush, ResendDue
    <2>2. remaining[c] + Spent(attempt[c]) >= Wait + untilResend[c] + 1
        BY <1>1, <2>1 DEF AllOnTime, OnTime, InLoop
    <2>3. untilResend[c] = -1
        BY <1>1, <2>1, TimersFacts
    <2>4. Wait - Spent(attempt[c]) >= Resend
        BY <1>1, <2>1, EnoughLeft, TimersFacts
    <2> QED BY <1>1, <2>2, <2>3, <2>4, TimersFacts
<1>2. TypeOK /\ AllOnTime /\ [PromptNext]_vars => TypeOK' /\ AllOnTime'
    BY OnTimeStep, PromptIsNext, TypeStep
<1>3. Init => AllOnTime
    BY DEF Init, AllOnTime, OnTime, InLoop
<1>4. TypeOK /\ AllOnTime /\ [PromptNext]_vars =>
         [\A c \in Calls : pc[c] = "decide" /\ attempt'[c] > attempt[c]
                              => remaining[c] >= Resend]_vars
    BY <1>1
<1> QED BY <1>2, <1>3, <1>4, TypeInit, PTL DEF PromptSpec, NoLatePush

=============================================================================
