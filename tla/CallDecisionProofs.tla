------------------------- MODULE CallDecisionProofs -------------------------
(***************************************************************************)
(* The wake-up of a phone implements CallDecision: each call gets one      *)
(* decision, made on what its phone said and accounted for under its name. *)
(* Proved for any calls, users, keys and responses, and any sharing of     *)
(* them.                                                                   *)
(***************************************************************************)
EXTENDS IncomingCallProofs

----------------------------------------------------------------------------
(* The account of a call at each point.  A handler that has returned has   *)
(* one of the accounts that stand for a decision, or ended with a server   *)
(* error and has counted what such an account counts.                      *)

Accounts == {Account[o] : o \in DOMAIN Account}

AccountInv ==
    \A c \in Calls :
        /\ pc[c] # "done" => reply[c] = "none"
        /\ pc[c] = "idle" => metrics[c] = {}
        /\ pc[c] \notin {"idle", "done"} => metrics[c] = {"incoming_success"}
        /\ pc[c] = "done" => \/ reply[c] = "500" /\ metrics[c] \in Counts
                             \/ <<reply[c], metrics[c]>> \in Accounts

\* The token's removal is stored under another key than the one that is polled.
NeverMarked ==
    /\ \A k \in Keys : get(CallKey(k)) # "Removed"
    /\ \A c \in Calls : available[c] # "Removed"

RefinementInv == DecisionInv /\ AccountInv /\ NeverMarked

LEMMA RefinementInit == Init => RefinementInv
<1> SUFFICES ASSUME Init PROVE RefinementInv
    OBVIOUS
<1>1. AccountInv
    BY DEF Init, AccountInv
<1>2. NeverMarked
    BY DEF Init, NeverMarked, get, CallKey, CacheKeys, Absent
<1> QED BY <1>1, <1>2, DecisionInit DEF RefinementInv

\* The accounts, and that no two decisions share one.
Decided == {"accepted", "refused", "timeout", "removed", "missing",
            "uncounted", "invalid"}

LEMMA AccountValues ==
    /\ DOMAIN Account = Decided
    /\ Account["accepted"] = <<"ACK", {"incoming_success", "push_success"}>>
    /\ Account["refused"] = <<"NAK", {"incoming_success", "not_available"}>>
    /\ Account["timeout"] = <<"NAK", {"incoming_success", "no_response"}>>
    /\ Account["removed"] = <<"NAK", {"incoming_success"}>>
    /\ Account["missing"] = <<"NAK", {"incoming_failed"}>>
    /\ Account["uncounted"] = <<"NAK", {}>>
    /\ Account["invalid"] = <<"400", {}>>
    BY DEF Account, Decided

LEMMA AccountsDiffer ==
    \A o, p \in Decided : Account[o] = Account[p] => o = p
<1>1. /\ {"incoming_success", "not_available"} # {"incoming_success", "no_response"}
      /\ {"incoming_success", "not_available"} # {"incoming_success"}
      /\ {"incoming_success", "not_available"} # {"incoming_failed"}
      /\ {"incoming_success", "not_available"} # {}
    <2>1. "not_available" \in {"incoming_success", "not_available"}
        OBVIOUS
    <2> QED BY <2>1
<1>2. /\ {"incoming_success", "no_response"} # {"incoming_success"}
      /\ {"incoming_success", "no_response"} # {"incoming_failed"}
      /\ {"incoming_success", "no_response"} # {}
    <2>1. "no_response" \in {"incoming_success", "no_response"}
        OBVIOUS
    <2> QED BY <2>1
<1>3. /\ {"incoming_success"} # {"incoming_failed"}
      /\ {"incoming_success"} # {} /\ {"incoming_failed"} # {}
    OBVIOUS
<1> QED BY <1>1, <1>2, <1>3, AccountValues DEF Decided

\* What is read off a call: it was not taken up, waits, failed, or was decided.
LEMMA OutcomeFacts ==
    ASSUME AccountInv, NEW c \in Calls
    PROVE  /\ pc[c] = "idle" => OutcomeOf(c) = "none"
           /\ pc[c] \notin {"idle", "done"} => OutcomeOf(c) = "waiting"
<1>1. pc[c] # "done" => reply[c] = "none"
    BY DEF AccountInv
<1> QED BY <1>1 DEF OutcomeOf

\* One step of one call, as CallDecision sees it.
Outcomes == [c \in Calls |-> OutcomeOf(c)]
Heards   == [c \in Calls |-> {h[1] : h \in heard[c]}]

LEMMA DecidesIf ==
    ASSUME NEW c \in Calls, NEW o, OutcomeOf(c)' = o, UNCHANGED heard,
           \A d \in Calls \ {c} : UNCHANGED <<pc[d], reply[d], metrics[d]>>
    PROVE  Decision!Decided(c, o)
<1>1. Heards' = Heards
    BY DEF Heards
<1>2. \A d \in Calls \ {c} : OutcomeOf(d)' = OutcomeOf(d)
    BY DEF OutcomeOf
<1>3. Outcomes' = [Outcomes EXCEPT ![c] = o]
    BY <1>2 DEF Outcomes
<1> QED BY <1>1, <1>3 DEF Decision!Decided, Outcomes, Heards

\* A step that neither takes a call up nor ends it, and brings no news.
LEMMA Stutters ==
    ASSUME UNCHANGED <<reply, metrics, heard>>,
           \A c \in Calls : pc[c] = "idle" <=> pc'[c] = "idle"
    PROVE  UNCHANGED Decision!vars
<1>1. \A c \in Calls : OutcomeOf(c)' = OutcomeOf(c)
    BY DEF OutcomeOf
<1>2. Heards' = Heards
    BY DEF Heards
<1> QED BY <1>1, <1>2 DEF Decision!vars, Heards

\* A handler that returns v, having pushed to the lists of m.
LEMMA ReturnFacts ==
    ASSUME DecisionInv, NEW c \in Calls, NEW v, NEW m, Return(c, v, m)
    PROVE  /\ pc'[c] = "done" /\ reply'[c] = v /\ metrics'[c] = metrics[c] \cup m
           /\ available'[c] = "None"
           /\ \A d \in Calls \ {c} :
                 UNCHANGED <<pc[d], reply[d], metrics[d], available[d]>>
           /\ UNCHANGED <<cache, heard>>
    BY DEF Return, DecisionInv, TypeOK

LEMMA ReturnAccount ==
    ASSUME RefinementInv, NEW c \in Calls, NEW v \in {"ACK", "NAK", "400"},
           NEW m, Return(c, v, m), NEW o \in Decided,
           Account[o] = <<v, metrics[c] \cup m>>
    PROVE  AccountInv' /\ NeverMarked' /\ Decision!Decided(c, o)
<1>1. /\ pc'[c] = "done" /\ reply'[c] = v /\ metrics'[c] = metrics[c] \cup m
      /\ available'[c] = "None"
      /\ \A d \in Calls \ {c} :
            UNCHANGED <<pc[d], reply[d], metrics[d], available[d]>>
      /\ UNCHANGED <<cache, heard>>
    BY ReturnFacts DEF RefinementInv
<1>2. OutcomeOf(c)' = CHOOSE p \in DOMAIN Account : Account[p] = Account[o]
    BY <1>1 DEF OutcomeOf
<1>3. OutcomeOf(c)' = o
    BY <1>2, AccountsDiffer, AccountValues
<1>4. <<reply'[c], metrics'[c]>> \in Accounts
    BY <1>1, AccountValues DEF Accounts
<1>5. AccountInv'
    BY <1>1, <1>4 DEF RefinementInv, AccountInv
<1>6. NeverMarked'
    BY <1>1 DEF RefinementInv, NeverMarked, get
<1> QED BY <1>1, <1>3, <1>5, <1>6, DecidesIf

LEMMA ReturnFailure ==
    ASSUME RefinementInv, NEW c \in Calls, NEW m, Return(c, "500", m),
           metrics[c] \cup m \in Counts
    PROVE  AccountInv' /\ NeverMarked' /\ Decision!Decided(c, "error")
<1>1. /\ pc'[c] = "done" /\ reply'[c] = "500" /\ metrics'[c] \in Counts
      /\ available'[c] = "None"
      /\ \A d \in Calls \ {c} :
            UNCHANGED <<pc[d], reply[d], metrics[d], available[d]>>
      /\ UNCHANGED <<cache, heard>>
    BY ReturnFacts DEF RefinementInv
<1>2. OutcomeOf(c)' = "error"
    BY <1>1 DEF OutcomeOf, Counts, Account
<1>3. AccountInv'
    BY <1>1 DEF RefinementInv, AccountInv, Counts, Account
<1>4. NeverMarked'
    BY <1>1 DEF RefinementInv, NeverMarked, get
<1> QED BY <1>1, <1>2, <1>3, <1>4, DecidesIf

\* What a step that fails may have counted by then.
LEMMA FailureCounts ==
    ASSUME RefinementInv, NEW c \in Calls, NEW m \in SUBSET PendingLists(c),
           pc[c] # "done"
    PROVE  metrics[c] \cup m \in Counts
<1>1. /\ pc[c] = "idle" => metrics[c] = {}
      /\ pc[c] # "idle" => metrics[c] = {"incoming_success"}
    BY DEF RefinementInv, AccountInv
<1>2. /\ {} \in Counts /\ {"incoming_failed"} \in Counts
      /\ {"incoming_success"} \in Counts
      /\ \A l \in {"push_success", "not_available", "no_response"} :
            {"incoming_success", l} \in Counts
    BY AccountValues DEF Counts, Decided
<1>3. CASE m = {}
    BY <1>1, <1>2, <1>3
<1>4. CASE m # {}
    <2>1. PICK l : m = {l} /\ l \in PendingLists(c)
        BY <1>4 DEF PendingLists
    <2>2. CASE pc[c] = "idle"
        <3>1. l \in {"incoming_success", "incoming_failed"}
            BY <2>1, <2>2 DEF PendingLists
        <3> QED BY <1>1, <1>2, <2>1, <2>2, <3>1
    <2>3. CASE pc[c] # "idle"
        <3>1. l \in {"push_success", "not_available", "no_response"}
            BY <2>1, <2>3 DEF PendingLists
        <3>2. metrics[c] \cup m = {"incoming_success", l}
            BY <1>1, <2>1, <2>3
        <3> QED BY <1>2, <3>1, <3>2
    <2> QED BY <2>2, <2>3
<1> QED BY <1>3, <1>4

----------------------------------------------------------------------------
(* The steps of CallDecision.                                              *)

Refines == AccountInv' /\ NeverMarked' /\ [Decision!Next]_Decision!vars

\* A call that is not taken up.
LEMMA TurnedDown ==
    ASSUME RefinementInv, NEW c \in Calls, pc[c] = "idle",
           NEW o \in {"missing", "uncounted", "invalid", "error"},
           AccountInv', NeverMarked', Decision!Decided(c, o)
    PROVE  Refines
<1>1. Outcomes[c] = "none"
    BY OutcomeFacts DEF RefinementInv, Outcomes
<1> QED BY <1>1 DEF Refines, Decision!Next, Decision!TurnDown, Outcomes

\* A call that is decided, on news that it has heard.
LEMMA DecidedOnNews ==
    ASSUME RefinementInv, NEW c \in Calls, pc[c] \notin {"idle", "done"}, NEW o,
           \/ o = "accepted" /\ Heard(c, "True")
           \/ o = "refused" /\ Heard(c, "False")
           \/ o \in {"timeout", "error"},
           AccountInv', NeverMarked', Decision!Decided(c, o)
    PROVE  Refines
<1>1. Outcomes[c] = "waiting"
    BY OutcomeFacts DEF RefinementInv, Outcomes
<1>2. \A a : Heard(c, a) => a \in Heards[c]
    BY DEF Heard, Heards
<1>3. Decision!Accept(c) \/ Decision!Refuse(c) \/ Decision!GiveUp(c)
    BY <1>2 DEF Decision!Accept, Decision!Refuse, Decision!GiveUp, Heards
<1>4. Decision!Decide(c)
    BY <1>1, <1>3 DEF Decision!Decide, Outcomes
<1> QED BY <1>4 DEF Refines, Decision!Next

\* A handler that goes on: its account stays what it is.
LEMMA GoesOn ==
    ASSUME RefinementInv, NEW c \in Calls,
           pc[c] \notin {"idle", "done"}, pc'[c] \notin {"idle", "done"},
           UNCHANGED <<reply, metrics, heard>>,
           \A d \in Calls \ {c} : pc'[d] = pc[d],
           NeverMarked'
    PROVE  Refines
<1>1. UNCHANGED Decision!vars
    BY Stutters
<1>2. AccountInv'
    BY DEF RefinementInv, AccountInv
<1> QED BY <1>1, <1>2 DEF Refines

LEMMA HandlerRefines ==
    ASSUME RefinementInv, NEW c \in Calls, HandlerStep(c) \/ Reject(c) \/ Abort(c)
    PROVE  Refines
<1>1. /\ TypeOK /\ CacheOK
      /\ pc[c] = "idle" => metrics[c] = {}
      /\ pc[c] \notin {"idle", "done"} => metrics[c] = {"incoming_success"}
    BY TypeParts DEF RefinementInv, DecisionInv, AccountInv
<1>2. CASE Reject(c)
    <2>1. Account["invalid"] = <<"400", metrics[c] \cup {}>> /\ "invalid" \in Decided
        BY <1>1, <1>2, AccountValues DEF Reject, Decided
    <2> QED BY <1>2, <2>1, ReturnAccount, TurnedDown DEF Reject
<1>3. CASE LookupMissing(c)
    <2>1. /\ Account["missing"] = <<"NAK", metrics[c] \cup {"incoming_failed"}>>
          /\ "missing" \in Decided
        BY <1>1, <1>3, AccountValues DEF LookupMissing, Decided
    <2> QED BY <1>3, <2>1, ReturnAccount, TurnedDown DEF LookupMissing
<1>4. CASE LookupError(c)
    <2>1. Account["uncounted"] = <<"NAK", metrics[c] \cup {}>> /\ "uncounted" \in Decided
        BY <1>1, <1>4, AccountValues DEF LookupError, Decided
    <2> QED BY <1>4, <2>1, ReturnAccount, TurnedDown DEF LookupError
<1>5. CASE LookupFound(c)
    <2>1. /\ pc[c] = "idle" /\ pc'[c] = "notify"
          /\ metrics'[c] = {"incoming_success"}
          /\ \A d \in Calls \ {c} : UNCHANGED <<pc[d], metrics[d]>>
          /\ UNCHANGED <<cache, available, reply, heard>>
        BY <1>1, <1>5 DEF LookupFound, TypeOK
    <2>2. AccountInv' /\ NeverMarked'
        BY <2>1 DEF RefinementInv, AccountInv, NeverMarked, get
    <2>3. OutcomeOf(c)' = "waiting"
        BY <2>1 DEF OutcomeOf, RefinementInv, AccountInv
    <2>4. Decision!Decided(c, "waiting")
        BY <2>1, <2>3, DecidesIf
    <2>5. Outcomes[c] = "none"
        BY <2>1, OutcomeFacts DEF RefinementInv, Outcomes
    <2>6. Decision!TakeUp(c)
        BY <2>4, <2>5 DEF Decision!TakeUp, Outcomes
    <2> QED BY <2>2, <2>6 DEF Refines, Decision!Next
<1>6. CASE Notify(c) \/ StartTimers(c) \/ LoopTest(c) \/ ResendPush(c) \/ NoResend(c)
    <2>1. /\ pc[c] \notin {"idle", "done"} /\ pc'[c] \notin {"idle", "done"}
          /\ \A d \in Calls \ {c} : pc'[d] = pc[d]
          /\ UNCHANGED <<cache, available, reply, metrics, heard>>
        BY <1>1, <1>6 DEF Notify, StartTimers, LoopTest, ResendPush, NoResend,
                          Undecided, TypeOK
    <2>2. NeverMarked'
        BY <2>1 DEF RefinementInv, NeverMarked, get
    <2> QED BY <2>1, <2>2, GoesOn
<1>7. CASE SetPlaceholder(c)
    <2> DEFINE key == CallKey(KeyOf[c])
               v == PlatformOf[UserOf[c]]
    <2>1. /\ pc[c] = "placeholder" /\ pc'[c] = "test"
          /\ \A d \in Calls \ {c} : pc'[d] = pc[d]
          /\ UNCHANGED <<available, reply, metrics, heard>>
          /\ cache' = stored(key, v)
        BY <1>1, <1>7 DEF SetPlaceholder, TypeOK
    <2>2. key \in CacheKeys /\ v \in CacheValues /\ v # "Removed"
        BY <1>1, CallConstants, CacheFacts, AnswerFacts DEF Platforms
    <2>3. \A k \in Keys : CallKey(k) \in CacheKeys
        BY <1>1, CacheFacts
    <2> HIDE DEF key, v
    <2>4. \A other \in CacheKeys :
            stored(key, v)[other].val =
               IF other = key THEN v ELSE cache[other].val
        BY <1>1, <2>2, CacheFacts
    <2>5. NeverMarked'
        BY <2>1, <2>2, <2>3, <2>4 DEF RefinementInv, NeverMarked, get
    <2> QED BY <2>1, <2>5, GoesOn
<1>8. CASE Poll(c)
    <2>1. /\ pc[c] = "poll" /\ pc'[c] = "decide"
          /\ \A d \in Calls \ {c} : pc'[d] = pc[d]
          /\ UNCHANGED <<cache, reply, metrics, heard>>
          /\ available' = [available EXCEPT ![c] = get(CallKey(KeyOf[c]))]
        BY <1>1, <1>8 DEF Poll, TypeOK
    <2>2. NeverMarked'
        BY <1>1, <2>1, CallConstants DEF RefinementInv, NeverMarked, get, TypeOK
    <2> QED BY <2>1, <2>2, GoesOn
<1>9. CASE TimeOut(c)
    <2>1. /\ Account["timeout"] = <<"NAK", metrics[c] \cup {"no_response"}>>
          /\ "timeout" \in Decided
        BY <1>1, <1>9, AccountValues DEF TimeOut, Decided
    <2> QED BY <1>9, <2>1, ReturnAccount, DecidedOnNews DEF TimeOut
<1>10. CASE Ack(c)
    <2>1. /\ Account["accepted"] = <<"ACK", metrics[c] \cup {"push_success"}>>
          /\ "accepted" \in Decided
        BY <1>1, <1>10, AccountValues DEF Ack, Decided
    <2>2. Heard(c, "True")
        BY <1>10 DEF Ack, RefinementInv, DecisionInv, ReadHeard, Answers
    <2> QED BY <1>10, <2>1, <2>2, ReturnAccount, DecidedOnNews DEF Ack
<1>11. CASE Nak(c)
    <2>1. available[c] = "False"
        BY <1>11 DEF Nak, RefinementInv, NeverMarked
    <2>2. /\ Account["refused"] = <<"NAK", metrics[c] \cup {"not_available"}>>
          /\ "refused" \in Decided
        BY <1>1, <1>11, AccountValues DEF Nak, Decided
    <2>3. Heard(c, "False")
        BY <1>11, <2>1 DEF Nak, RefinementInv, DecisionInv, ReadHeard, Answers
    <2> QED BY <1>11, <2>1, <2>2, <2>3, ReturnAccount, DecidedOnNews DEF Nak
<1>12. CASE Abort(c)
    <2>1. pc[c] # "done"
        BY <1>12 DEF Abort, CallsOut
    <2>2. PICK m \in SUBSET PendingLists(c) : Return(c, "500", m)
        BY <1>12 DEF Abort
    <2>3. AccountInv' /\ NeverMarked' /\ Decision!Decided(c, "error")
        BY <2>1, <2>2, FailureCounts, ReturnFailure
    <2> QED BY <2>1, <2>3, TurnedDown, DecidedOnNews
<1> QED
    BY <1>2, <1>3, <1>4, <1>5, <1>6, <1>7, <1>8, <1>9, <1>10, <1>11, <1>12
    DEF HandlerStep

\* News is an answer to all the calls that poll its key.
LEMMA NewsAnswers ==
    ASSUME RefinementInv, NEW k, NEW a \in News, HeardOf(k, a),
           UNCHANGED <<pc, reply, metrics>>
    PROVE  AccountInv' /\ Decision!Next
<1> DEFINE group == {c \in Calls : KeyOf[c] = k /\ pc[c] \in InLoop}
<1>1. \A c \in group : Outcomes[c] = "waiting"
    BY OutcomeFacts DEF RefinementInv, Outcomes, InLoop
<1>2. \A c \in Calls : Heards'[c] = IF c \in group THEN Heards[c] \cup {a}
                                    ELSE Heards[c]
    <2>1. \A c \in Calls : heard'[c] = IF c \in group
                                       THEN heard[c] \cup {<<a, InTime(c)>>}
                                       ELSE heard[c]
        BY DEF HeardOf
    <2>2. ASSUME NEW S, NEW b
          PROVE {h[1] : h \in S \cup {<<a, b>>}} = {h[1] : h \in S} \cup {a}
        <3>1. {h[1] : h \in S \cup {<<a, b>>}} = {h[1] : h \in S} \cup {h[1] : h \in {<<a, b>>}}
            OBVIOUS
        <3> QED BY <3>1
    <2> HIDE DEF group
    <2> QED BY <2>1, <2>2 DEF Heards
<1>3. Heards' = [c \in Calls |-> IF c \in group THEN Heards[c] \cup {a}
                                 ELSE Heards[c]]
    BY <1>2 DEF Heards
<1>4. Outcomes' = Outcomes
    BY DEF Outcomes, OutcomeOf
<1>5. a \in Decision!Answers /\ group \in SUBSET Calls
    BY DEF News, Answers, Decision!Answers
<1> HIDE DEF group
<1>6. Decision!Answer(group, a)
    BY <1>1, <1>3, <1>4, <1>5 DEF Decision!Answer, Outcomes, Heards
<1>7. AccountInv'
    BY DEF RefinementInv, AccountInv
<1> QED BY <1>5, <1>6, <1>7 DEF Decision!Next

\* A step of another process that brings no news.
LEMMA Unnoticed ==
    ASSUME RefinementInv, UNCHANGED <<reply, metrics, heard, available>>,
           \A c \in Calls : pc'[c] = pc[c] \/ (pc[c] = "sleep" /\ pc'[c] = "test"),
           \A k \in Keys : get(CallKey(k))' = "Removed" => get(CallKey(k)) = "Removed"
    PROVE  Refines
<1>1. UNCHANGED Decision!vars
    BY Stutters
<1>2. AccountInv'
    BY DEF RefinementInv, AccountInv
<1>3. NeverMarked'
    BY DEF RefinementInv, NeverMarked
<1> QED BY <1>1, <1>2, <1>3 DEF Refines

LEMMA PushRefines ==
    ASSUME RefinementInv, NEW p \in Calls \X Attempts, PushStep(p)
    PROVE  Refines
<1>1. UNCHANGED callVars
    BY DEF PushStep, PushStamp, PushSend, PushFailed, PushRejected, MarkRemoved,
           RemoveDevice, PushTo
<1>2. CASE MarkRemoved(p)
    <2> DEFINE key == BareKey(KeyOf[p[1]])
    <2>1. CacheOK /\ key \in CacheKeys
        BY CallConstants, CacheFacts, TypeParts DEF RefinementInv, DecisionInv
    <2>2. cache' \in {cache, stored(key, "Removed")}
        BY <1>2 DEF MarkRemoved
    <2>3. \A k \in Keys : CallKey(k) \in CacheKeys /\ CallKey(k) # key
        BY <2>1, CacheFacts DEF CallKey, BareKey
    <2>4. \A other \in CacheKeys :
            other # key => stored(key, "Removed")[other].val = cache[other].val
        BY <2>1, CacheFacts, AnswerFacts
    <2> HIDE DEF key
    <2>5. NeverMarked'
        BY <1>1, <2>2, <2>3, <2>4 DEF RefinementInv, NeverMarked, get, callVars
    <2>6. AccountInv' /\ Decision!Next
        BY <1>1, <1>2, NewsAnswers DEF MarkRemoved, News, callVars
    <2> QED BY <2>5, <2>6 DEF Refines
<1>3. CASE ~ MarkRemoved(p)
    <2>1. UNCHANGED <<cache, heard>>
        BY <1>3 DEF PushStep, PushStamp, PushSend, PushFailed, PushRejected,
                    RemoveDevice
    <2> QED BY <1>1, <2>1, Unnoticed DEF callVars, get
<1> QED BY <1>2, <1>3

LEMMA RespRefines ==
    ASSUME RefinementInv, NEW r \in Responses,
           \/ RespStep(r) \/ RespInvalid(r) \/ RespAbort(r)
           \/ \E p \in Calls \X Attempts, a \in Answers : Respond(r, p, a)
    PROVE  Refines
<1>1. UNCHANGED callVars
    BY DEF RespStep, RespFound, RespUnknown, RespGet, RespSet, RespFinish,
           RespInvalid, RespAbort, Respond, RespReturn, RespTo
<1>2. CASE RespSet(r)
    <2>0. PICK k \in Keys, v \in Answers :
            k = resp[r].key /\ v = resp[r].available
        BY TypeParts DEF RefinementInv, DecisionInv, RespOK, RespRecord
    <2> DEFINE key == CallKey(k)
    <2>1. CacheOK /\ key \in CacheKeys /\ v \in CacheValues /\ v # "Removed"
        BY CacheFacts, TypeParts, AnswerFacts
        DEF RefinementInv, DecisionInv, Answers
    <2>2. cache' = stored(key, v) /\ HeardOf(k, v)
        BY <1>2, <2>0 DEF RespSet
    <2>3. \A other \in CacheKeys :
            stored(key, v)[other].val = IF other = key THEN v ELSE cache[other].val
        BY <2>1, CacheFacts
    <2>4. \A l \in Keys : CallKey(l) \in CacheKeys
        BY <2>1, CacheFacts
    <2> HIDE DEF key
    <2>5. NeverMarked'
        BY <1>1, <2>1, <2>2, <2>3, <2>4 DEF RefinementInv, NeverMarked, get, callVars
    <2>6. AccountInv' /\ Decision!Next
        BY <1>1, <2>2, NewsAnswers DEF News, callVars
    <2> QED BY <2>5, <2>6 DEF Refines
<1>3. CASE ~ RespSet(r)
    <2>1. UNCHANGED <<cache, heard>>
        BY <1>3 DEF RespStep, RespFound, RespUnknown, RespGet, RespFinish,
                    RespInvalid, RespAbort, Respond
    <2> QED BY <1>1, <2>1, Unnoticed DEF callVars, get
<1> QED BY <1>2, <1>3

LEMMA TickRefines == ASSUME RefinementInv, Tick PROVE Refines
<1>1. CacheOK
    BY TypeParts DEF RefinementInv, DecisionInv
<1>2. \A key \in CacheKeys : cache'[key].val \in {cache[key].val, "None"}
    BY <1>1, CacheFacts DEF Tick
<1>3. \A k \in Keys : get(CallKey(k))' = "Removed" => get(CallKey(k)) = "Removed"
    BY <1>1, <1>2, CacheFacts DEF get
<1>4. \A c \in Calls : pc'[c] = pc[c] \/ (pc[c] = "sleep" /\ pc'[c] = "test")
    BY DEF Tick
<1> QED BY <1>3, <1>4, Unnoticed DEF Tick

LEMMA RefinementStep ==
    RefinementInv /\ [Next]_vars
        => RefinementInv' /\ [Decision!Next]_Decision!vars
<1> SUFFICES ASSUME RefinementInv, [Next]_vars
             PROVE  RefinementInv' /\ [Decision!Next]_Decision!vars
    OBVIOUS
<1>1. DecisionInv'
    BY DecisionStep DEF RefinementInv
<1>2. ASSUME \/ UNCHANGED vars
             \/ \E u \in Users : Register(u) \/ Unregister(u)
      PROVE  Refines
    <2>1. UNCHANGED <<cache, callVars, heard>>
        BY <1>2 DEF Register, Unregister, vars
    <2> QED BY <2>1, Unnoticed DEF callVars, get
<1>3. Refines
    BY <1>2, HandlerRefines, PushRefines, RespRefines, TickRefines
    DEF Next, Untimed
<1> QED BY <1>1, <1>3 DEF Refines, RefinementInv

LEMMA DecisionInits == Init => Decision!Init
<1> SUFFICES ASSUME Init PROVE Decision!Init
    OBVIOUS
<1>1. Outcomes = [c \in Calls |-> "none"]
    BY DEF Init, Outcomes, OutcomeOf
<1>2. Heards = [c \in Calls |-> {}]
    BY DEF Init, Heards
<1> QED BY <1>1, <1>2 DEF Decision!Init, Outcomes, Heards

\* IncomingCallView, its push threads and CallResponseView implement
\* CallDecision: whatever calls share, however slow the servers are and whatever
\* fails, a call is decided once, on news that came while it was waiting, and
\* the lists it pushed to say what was decided.
THEOREM ImplementsDecision == Spec => DecidesCalls
<1>1. RefinementInv /\ [Next]_vars => RefinementInv' /\ [Decision!Next]_Decision!vars
    BY RefinementStep
<1>2. Init => RefinementInv /\ Decision!Init
    BY RefinementInit, DecisionInits
<1> QED BY <1>1, <1>2, PTL DEF Spec, DecidesCalls, Decision!Spec

=============================================================================
