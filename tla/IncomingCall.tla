---------------------------- MODULE IncomingCall ----------------------------
(***************************************************************************)
(* The wake-up of a phone for an incoming call: Asterisk asks whether the  *)
(* call may be put through (IncomingCallView), a push thread wakes the     *)
(* phone (task_incoming_call_notify), the phone answers another web server *)
(* (CallResponseView), and the first handler polls the shared Redis cache  *)
(* until it finds the answer or its time is up.                            *)
(*                                                                         *)
(* Handlers and threads run on several load-balanced servers, so each      *)
(* Redis or database call is a step of its own.  Time is counted in poll   *)
(* intervals (the sleep at the end of the loop): a Tick lowers every timer *)
(* that is running, so no absolute clock is kept.                          *)
(***************************************************************************)
EXTENDS Integers, FiniteSets

CONSTANTS
    Calls,          \* requests of Asterisk, each handled once
    Users,          \* sip_user_ids
    Keys,           \* unique_keys of calls
    Responses,      \* requests of phones, each handled once
    UserOf,         \* the sip_user_id a call is for
    KeyOf,          \* the unique_key of a call (its call_id)
    PlatformOf,     \* platform of the app a user's device is registered for
    Wait,           \* APP_PUSH_ROUNDTRIP_WAIT, in poll intervals
    Resend,         \* APP_PUSH_RESEND_INTERVAL, in poll intervals
    TTL             \* DEFAULT_TIMEOUT of a cache entry, in poll intervals

Platforms == {"apns", "gcm", "android"}
Answers   == {"True", "False"}
News      == Answers \cup {"Removed"}

ASSUME CallAssumption ==
    /\ UserOf \in [Calls -> Users]
    /\ KeyOf \in [Calls -> Keys]
    /\ PlatformOf \in [Users -> Platforms]
    /\ Keys # {}

ASSUME TimeAssumption ==
    /\ Wait \in Nat /\ Resend \in Nat /\ TTL \in Nat
    /\ 0 < Resend /\ Wait < TTL

\* Mutant: the last resend is not left out.
MaxAttemptsUncut == Wait \div Resend

MaxAttempts == (Wait \div Resend) - 1
Attempts    == 1 .. (IF MaxAttempts > 1 THEN MaxAttempts ELSE 1)

VARIABLES
    registered,     \* users that have a row in the Device table
    cache,          \* Redis: the entry of every (prefix, key) pair
    pc,             \* where the handler of a call is
    remaining,      \* its wait_until, counted from now
    untilResend,    \* its next_resend_time, counted from now
    attempt,        \* its attempt
    available,      \* its local variable available
    reply,          \* the answer to Asterisk
    metrics,        \* the Redis lists a call has pushed a value to
    push,           \* state of the push thread of an attempt
    age,            \* now - message_start_time of a push payload
    resp,           \* the handler of a phone's response
    respLog,        \* platforms of the ResponseLog rows
    heard           \* history: news of its phone while a call was polling

callVars == <<pc, remaining, untilResend, attempt, available, reply, metrics>>
pushVars == <<push, age>>
vars     == <<registered, cache, callVars, pushVars, resp, respLog, heard>>

----------------------------------------------------------------------------
(* The Redis cache.  An entry without a value is absent.                   *)

CallKey(k) == <<"call", k>>     \* 'call_{0}'.format(unique_key)
BareKey(k) == <<"bare", k>>     \* unique_key as it stands

CacheKeys   == {"call", "bare"} \X Keys
CacheValues == Platforms \cup Answers \cup {"Removed", "None"}
Absent      == [val |-> "None", ttl |-> 0]

exists(key)     == cache[key].val # "None"
get(key)        == cache[key].val
stored(key, v)  == [cache EXCEPT ![key] = [val |-> v, ttl |-> TTL]]

----------------------------------------------------------------------------
(* The states of the handlers.                                             *)

PCs == {"idle", "notify", "timers", "placeholder", "test", "poll", "decide",
        "sleep", "done"}
InLoop   == {"test", "poll", "decide", "sleep"}
Metrics  == {"incoming_success", "incoming_failed", "push_success",
             "not_available", "no_response"}
PushStates == {"none", "spawned", "stamped", "sent", "failed", "rejected",
               "marked", "removed"}
Stamped    == {"stamped", "sent"}
NoResponse == [pc |-> "idle", key |-> CHOOSE k \in Keys : TRUE, age |-> 0,
               available |-> "True", platform |-> "None", status |-> 0]

Init ==
    /\ registered \in SUBSET Users
    /\ cache = [key \in CacheKeys |-> Absent]
    /\ pc = [c \in Calls |-> "idle"]
    /\ remaining = [c \in Calls |-> 0]
    /\ untilResend = [c \in Calls |-> 0]
    /\ attempt = [c \in Calls |-> 0]
    /\ available = [c \in Calls |-> "None"]
    /\ reply = [c \in Calls |-> "none"]
    /\ metrics = [c \in Calls |-> {}]
    /\ push = [p \in Calls \X Attempts |-> "none"]
    /\ age = [p \in Calls \X Attempts |-> 0]
    /\ resp = [r \in Responses |-> NoResponse]
    /\ respLog = {}
    /\ heard = [c \in Calls |-> {}]

----------------------------------------------------------------------------
(* IncomingCallView.post                                                   *)

\* The handler returns value v to Asterisk, after pushing to the lists in m;
\* its local variables go with it.
Return(c, v, m) ==
    /\ pc' = [pc EXCEPT ![c] = "done"]
    /\ reply' = [reply EXCEPT ![c] = v]
    /\ metrics' = [metrics EXCEPT ![c] = @ \cup m]
    /\ remaining' = [remaining EXCEPT ![c] = 0]
    /\ untilResend' = [untilResend EXCEPT ![c] = 0]
    /\ attempt' = [attempt EXCEPT ![c] = 0]
    /\ available' = [available EXCEPT ![c] = "None"]
    /\ UNCHANGED <<registered, cache, pushVars, resp, respLog, heard>>

\* The posted data is not valid.
Reject(c) == pc[c] = "idle" /\ Return(c, "400", {})

\* No device row: the failure is counted and Asterisk gets a NAK.
LookupMissing(c) ==
    /\ pc[c] = "idle"
    /\ UserOf[c] \notin registered
    /\ Return(c, "NAK", {"incoming_failed"})

\* The lookup raises something else: NAK, and nothing is counted.
LookupError(c) == pc[c] = "idle" /\ Return(c, "NAK", {})

LookupFound(c) ==
    /\ pc[c] = "idle"
    /\ UserOf[c] \in registered
    /\ pc' = [pc EXCEPT ![c] = "notify"]
    /\ metrics' = [metrics EXCEPT ![c] = @ \cup {"incoming_success"}]
    /\ UNCHANGED <<registered, cache, remaining, untilResend, attempt,
                   available, reply, pushVars, resp, respLog, heard>>

\* task_incoming_call_notify: a thread of its own sends the push.
Spawn(c, n) == push' = [push EXCEPT ![<<c, n>>] = "spawned"]

Notify(c) ==
    /\ pc[c] = "notify"
    /\ attempt' = [attempt EXCEPT ![c] = 1]
    /\ Spawn(c, 1)
    /\ pc' = [pc EXCEPT ![c] = "timers"]
    /\ UNCHANGED <<registered, cache, remaining, untilResend, available,
                   reply, metrics, age, resp, respLog, heard>>

StartTimers(c) ==
    /\ pc[c] = "timers"
    /\ remaining' = [remaining EXCEPT ![c] = Wait]
    /\ untilResend' = [untilResend EXCEPT ![c] = Resend]
    /\ pc' = [pc EXCEPT ![c] = "placeholder"]
    /\ UNCHANGED <<registered, cache, attempt, available, reply, metrics,
                   pushVars, resp, respLog, heard>>

\* Mutant: the placeholder is only set when the key is free.
SetPlaceholderIfFree(c) ==
    LET key == CallKey(KeyOf[c])
    IN  /\ pc[c] = "placeholder"
        /\ cache' = IF exists(key) THEN cache
                    ELSE stored(key, PlatformOf[UserOf[c]])
        /\ pc' = [pc EXCEPT ![c] = "test"]
        /\ UNCHANGED <<registered, remaining, untilResend, attempt, available,
                       reply, metrics, pushVars, resp, respLog, heard>>

\* The device platform is the value of the key until the phone answers.
SetPlaceholder(c) ==
    /\ pc[c] = "placeholder"
    /\ cache' = stored(CallKey(KeyOf[c]), PlatformOf[UserOf[c]])
    /\ pc' = [pc EXCEPT ![c] = "test"]
    /\ UNCHANGED <<registered, remaining, untilResend, attempt, available,
                   reply, metrics, pushVars, resp, respLog, heard>>

\* while time.time() < wait_until
LoopTest(c) ==
    /\ pc[c] = "test"
    /\ remaining[c] > 0
    /\ pc' = [pc EXCEPT ![c] = "poll"]
    /\ UNCHANGED <<registered, cache, remaining, untilResend, attempt,
                   available, reply, metrics, pushVars, resp, respLog, heard>>

\* Mutant: a call that runs out of time is not counted.
TimeOutUncounted(c) == pc[c] = "test" /\ remaining[c] = 0 /\ Return(c, "NAK", {})

TimeOut(c) ==
    /\ pc[c] = "test"
    /\ remaining[c] = 0
    /\ Return(c, "NAK", {"no_response"})

\* Mutant: the poll reads the key without its prefix.
PollBareKey(c) ==
    /\ pc[c] = "poll"
    /\ available' = [available EXCEPT ![c] = get(BareKey(KeyOf[c]))]
    /\ pc' = [pc EXCEPT ![c] = "decide"]
    /\ UNCHANGED <<registered, cache, remaining, untilResend, attempt, reply,
                   metrics, pushVars, resp, respLog, heard>>

Poll(c) ==
    /\ pc[c] = "poll"
    /\ available' = [available EXCEPT ![c] = get(CallKey(KeyOf[c]))]
    /\ pc' = [pc EXCEPT ![c] = "decide"]
    /\ UNCHANGED <<registered, cache, remaining, untilResend, attempt, reply,
                   metrics, pushVars, resp, respLog, heard>>

Ack(c) ==
    /\ pc[c] = "decide"
    /\ available[c] = "True"
    /\ Return(c, "ACK", {"push_success"})

\* Mutant: any value but a yes is taken for a refusal.
NakUnlessAccepted(c) ==
    /\ pc[c] = "decide"
    /\ available[c] # "True"
    /\ Return(c, "NAK", {"not_available"})

\* Only a phone that refused is counted, not one whose token was removed.
Nak(c) ==
    /\ pc[c] = "decide"
    /\ available[c] \in {"False", "Removed"}
    /\ Return(c, "NAK", IF available[c] = "False" THEN {"not_available"} ELSE {})

Undecided(c) == pc[c] = "decide" /\ available[c] \in Platforms \cup {"None"}

\* Mutant: the number of attempts is not limited.
ResendDueUnlimited(c) == untilResend[c] < 0

ResendDue(c) == untilResend[c] < 0 /\ attempt[c] < MaxAttempts

ResendPush(c) ==
    /\ Undecided(c)
    /\ ResendDue(c)
    /\ attempt' = [attempt EXCEPT ![c] = @ + 1]
    /\ untilResend' = [untilResend EXCEPT ![c] = Resend]
    /\ Spawn(c, attempt[c] + 1)
    /\ pc' = [pc EXCEPT ![c] = "sleep"]
    /\ UNCHANGED <<registered, cache, remaining, available, reply, metrics,
                   age, resp, respLog, heard>>

\* Mutant: every turn of the loop starts the wait anew.
NoResendRestartsWait(c) ==
    /\ Undecided(c)
    /\ ~ ResendDue(c)
    /\ remaining' = [remaining EXCEPT ![c] = Wait]
    /\ pc' = [pc EXCEPT ![c] = "sleep"]
    /\ UNCHANGED <<registered, cache, untilResend, attempt, available, reply,
                   metrics, pushVars, resp, respLog, heard>>

NoResend(c) ==
    /\ Undecided(c)
    /\ ~ ResendDue(c)
    /\ pc' = [pc EXCEPT ![c] = "sleep"]
    /\ UNCHANGED <<registered, cache, remaining, untilResend, attempt,
                   available, reply, metrics, pushVars, resp, respLog, heard>>

\* The lists that the step at hand counts the call in.
PendingLists(c) ==
    {m \in Metrics :
        \/ pc[c] = "idle" /\ m = IF UserOf[c] \in registered
                                 THEN "incoming_success" ELSE "incoming_failed"
        \/ pc[c] = "decide" /\ available[c] = "True" /\ m = "push_success"
        \/ pc[c] = "decide" /\ available[c] = "False" /\ m = "not_available"
        \/ pc[c] = "test" /\ remaining[c] = 0 /\ m = "no_response"}

\* A lookup, a Redis command or a log call of the handler raises, and the
\* request ends with a server error: what the step counts may be counted or not.
CallsOut(c) ==
    \/ pc[c] \in {"idle", "placeholder", "poll"}
    \/ pc[c] = "decide" /\ available[c] \in News
    \/ pc[c] = "test" /\ remaining[c] = 0

Abort(c) ==
    /\ CallsOut(c)
    /\ \E m \in SUBSET PendingLists(c) : Return(c, "500", m)

----------------------------------------------------------------------------
(* History: the calls that poll key k have heard news a of their phone, in *)
(* time when another look at the cache is still certain to follow.         *)

InTime(c) == remaining[c] > 1

HeardOf(k, a) ==
    heard' = [c \in Calls |-> IF KeyOf[c] = k /\ pc[c] \in InLoop
                              THEN heard[c] \cup {<<a, InTime(c)>>}
                              ELSE heard[c]]

----------------------------------------------------------------------------
(* The push thread of attempt n of call c.                                 *)

PushTo(p, s) ==
    /\ push' = [push EXCEPT ![p] = s]
    /\ UNCHANGED <<callVars, resp, respLog>>

\* The payload is made, with its message_start_time.
PushStamp(p) ==
    /\ push[p] = "spawned"
    /\ age' = [age EXCEPT ![p] = 0]
    /\ PushTo(p, "stamped")
    /\ UNCHANGED <<registered, cache, heard>>

\* The service takes it, perhaps only after a connection was opened.
PushSend(p) ==
    /\ push[p] = "stamped"
    /\ PushTo(p, "sent")
    /\ UNCHANGED <<registered, cache, age, heard>>

\* The service refuses, or an exception ends the thread, at any of its calls;
\* no phone gets its payload any more.
PushFailed(p) ==
    /\ push[p] \in {"stamped", "rejected", "marked"}
    /\ PushTo(p, "failed")
    /\ age' = [age EXCEPT ![p] = 0]
    /\ UNCHANGED <<registered, cache, heard>>

\* Firebase answers NotRegistered.
PushRejected(p) ==
    /\ push[p] = "stamped"
    /\ PlatformOf[UserOf[p[1]]] = "android"
    /\ PushTo(p, "rejected")
    /\ age' = [age EXCEPT ![p] = 0]
    /\ UNCHANGED <<registered, cache, heard>>

\* if redis_cache.exists(unique_key): redis_cache.set(unique_key, "Removed")
MarkRemoved(p) ==
    LET key == BareKey(KeyOf[p[1]])
    IN  /\ push[p] = "rejected"
        /\ cache' = IF exists(key) THEN stored(key, "Removed") ELSE cache
        /\ HeardOf(KeyOf[p[1]], "Removed")
        /\ PushTo(p, "marked")
        /\ UNCHANGED <<registered, age>>

\* Mutant: the device is removed before the cache is marked.
RemoveDeviceFirst(p) ==
    /\ push[p] = "rejected"
    /\ registered' = registered \ {UserOf[p[1]]}
    /\ PushTo(p, "removed")
    /\ UNCHANGED <<cache, age, heard>>

\* device.delete()
RemoveDevice(p) ==
    /\ push[p] = "marked"
    /\ registered' = registered \ {UserOf[p[1]]}
    /\ PushTo(p, "removed")
    /\ UNCHANGED <<cache, age, heard>>

\* DeviceView creates and deletes rows at any time.
Register(u) ==
    /\ registered' = registered \cup {u}
    /\ UNCHANGED <<cache, callVars, pushVars, resp, respLog, heard>>

Unregister(u) ==
    /\ registered' = registered \ {u}
    /\ UNCHANGED <<cache, callVars, pushVars, resp, respLog, heard>>

----------------------------------------------------------------------------
(* CallResponseView.post                                                   *)

RespTo(r, fields) ==
    /\ resp' = [resp EXCEPT ![r] = fields]
    /\ UNCHANGED <<registered, callVars, pushVars>>

\* Only the status is left of a handler that has returned.
RespReturn(r, code) ==
    RespTo(r, [NoResponse EXCEPT !.pc = "done", !.status = code])

\* A phone that got push p posts its answer, with the payload's start time.
Respond(r, p, a) ==
    /\ resp[r].pc = "idle"
    /\ push[p] = "sent"
    /\ RespTo(r, [resp[r] EXCEPT !.pc = "exists", !.key = KeyOf[p[1]],
                                 !.age = age[p], !.available = a])
    /\ UNCHANGED <<cache, respLog, heard>>

RespInvalid(r) ==
    /\ resp[r].pc = "idle"
    /\ RespReturn(r, 400)
    /\ UNCHANGED <<cache, respLog, heard>>

\* Mutant: the response goes on without looking for the key.
RespFoundUnchecked(r) ==
    /\ resp[r].pc = "exists"
    /\ RespTo(r, [resp[r] EXCEPT !.pc = "get"])
    /\ UNCHANGED <<cache, respLog, heard>>

RespFound(r) ==
    /\ resp[r].pc = "exists"
    /\ exists(CallKey(resp[r].key))
    /\ RespTo(r, [resp[r] EXCEPT !.pc = "get"])
    /\ UNCHANGED <<cache, respLog, heard>>

RespUnknown(r) ==
    /\ resp[r].pc = "exists"
    /\ ~ exists(CallKey(resp[r].key))
    /\ RespReturn(r, 404)
    /\ UNCHANGED <<cache, respLog, heard>>

RespGet(r) ==
    /\ resp[r].pc = "get"
    /\ RespTo(r, [resp[r] EXCEPT !.pc = "set",
                                 !.platform = get(CallKey(resp[r].key))])
    /\ UNCHANGED <<cache, respLog, heard>>

\* The answer replaces the placeholder.
RespSet(r) ==
    LET key == resp[r].key
    IN  /\ resp[r].pc = "set"
        /\ cache' = stored(CallKey(key), resp[r].available)
        /\ HeardOf(key, resp[r].available)
        /\ RespTo(r, [resp[r] EXCEPT !.pc = "finish"])
        /\ UNCHANGED respLog

\* The log thread may fail; a row without a platform always does.
LogToDb(platform) ==
    \/ respLog' = respLog
    \/ platform # "None" /\ respLog' = respLog \cup {platform}

\* What comparing an age with a limit may say: one of n intervals may be a part
\* of an interval more than that, or less.
Exceeds(a, limit) == IF a = limit THEN BOOLEAN ELSE {a > limit}

\* Mutant: lateness is measured against the resend interval.
RespFinishResend(r) ==
    /\ resp[r].pc = "finish"
    /\ LogToDb(resp[r].platform)
    /\ \E late \in Exceeds(resp[r].age, Resend) :
          RespReturn(r, IF late THEN 404 ELSE 202)
    /\ UNCHANGED <<cache, heard>>

\* roundtrip > APP_PUSH_ROUNDTRIP_WAIT: the phone responded too late.
RespFinish(r) ==
    /\ resp[r].pc = "finish"
    /\ LogToDb(resp[r].platform)
    /\ \E late \in Exceeds(resp[r].age, Wait) :
          RespReturn(r, IF late THEN 404 ELSE 202)
    /\ UNCHANGED <<cache, heard>>

\* A Redis command raises, or the log call after the answer was stored.
RespAbort(r) ==
    /\ resp[r].pc \in {"exists", "get", "set", "finish"}
    /\ RespReturn(r, 500)
    /\ UNCHANGED <<cache, respLog, heard>>

----------------------------------------------------------------------------
(* One poll interval passes.  Timers stop where nothing compares them any  *)
(* further: a deadline at 0, next_resend_time one past, an age past Wait.  *)

Lowered(t, floor) == IF t > floor THEN t - 1 ELSE floor
Aged(a) == IF a > Wait THEN a ELSE a + 1

HasTimers(c) == pc[c] \in InLoop \cup {"placeholder"}

Expired(e) == IF e.ttl > 1 THEN [e EXCEPT !.ttl = @ - 1] ELSE Absent

Tick ==
    /\ remaining' = [c \in Calls |-> Lowered(remaining[c], 0)]
    /\ untilResend' = [c \in Calls |->
                         IF HasTimers(c) THEN Lowered(untilResend[c], -1)
                         ELSE untilResend[c]]
    /\ pc' = [c \in Calls |-> IF pc[c] = "sleep" THEN "test" ELSE pc[c]]
    /\ age' = [p \in Calls \X Attempts |->
                  IF push[p] \in Stamped THEN Aged(age[p]) ELSE age[p]]
    /\ resp' = [r \in Responses |->
                  IF resp[r].pc \in {"idle", "done"} THEN resp[r]
                  ELSE [resp[r] EXCEPT !.age = Aged(@)]]
    /\ cache' = [key \in CacheKeys |-> Expired(cache[key])]
    /\ UNCHANGED <<registered, attempt, available, reply, metrics, push,
                   respLog, heard>>

----------------------------------------------------------------------------
HandlerStep(c) ==
    \/ LookupMissing(c) \/ LookupError(c) \/ LookupFound(c)
    \/ Notify(c) \/ StartTimers(c) \/ SetPlaceholder(c)
    \/ LoopTest(c) \/ TimeOut(c) \/ Poll(c)
    \/ Ack(c) \/ Nak(c) \/ ResendPush(c) \/ NoResend(c)

PushStep(p) ==
    \/ PushStamp(p) \/ PushSend(p) \/ PushFailed(p) \/ PushRejected(p)
    \/ MarkRemoved(p) \/ RemoveDevice(p)

RespStep(r) ==
    \/ RespFound(r) \/ RespUnknown(r) \/ RespGet(r) \/ RespSet(r)
    \/ RespFinish(r)

Untimed ==
    \/ \E c \in Calls : HandlerStep(c) \/ Reject(c) \/ Abort(c)
    \/ \E p \in Calls \X Attempts :
          \/ PushStep(p)
          \/ \E r \in Responses, a \in Answers : Respond(r, p, a)
    \/ \E r \in Responses : RespStep(r) \/ RespInvalid(r) \/ RespAbort(r)
    \/ \E u \in Users : Register(u) \/ Unregister(u)

Next == Untimed \/ Tick

\* A handler that was entered keeps running and the clock keeps going.
Started(c)  == pc[c] # "idle"
Fairness ==
    /\ \A c \in Calls : WF_vars(Started(c) /\ HandlerStep(c))
    /\ WF_vars(Tick)

Spec     == Init /\ [][Next]_vars
FairSpec == Spec /\ Fairness

----------------------------------------------------------------------------
(* A timely server: no poll interval passes while a handler of a call is   *)
(* between two sleeps, so the loop really polls once per interval.         *)

Busy(c) == pc[c] \in {"timers", "placeholder", "test", "poll", "decide"}

PromptTick == (\A c \in Calls : ~ Busy(c)) /\ Tick
PromptNext == Untimed \/ PromptTick
PromptSpec == Init /\ [][PromptNext]_vars

=============================================================================
