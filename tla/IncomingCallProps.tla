------------------------- MODULE IncomingCallProps --------------------------
(***************************************************************************)
(* What must be true of the wake-up of a phone (module IncomingCall).      *)
(***************************************************************************)
EXTENDS IncomingCall

\* Every variable has its type: in particular the cache holds only values the
\* handlers write, and timers stay within the interval they count down.
TypeOK ==
    /\ registered \subseteq Users
    /\ cache \in [CacheKeys -> [val : CacheValues, ttl : 0 .. TTL]]
    /\ pc \in [Calls -> PCs]
    /\ remaining \in [Calls -> 0 .. Wait]
    /\ untilResend \in [Calls -> -1 .. Resend]
    /\ attempt \in [Calls -> Attempts \cup {0}]
    /\ available \in [Calls -> CacheValues]
    /\ reply \in [Calls -> {"none", "ACK", "NAK", "400", "500"}]
    /\ metrics \in [Calls -> SUBSET Metrics]
    /\ push \in [Calls \X Attempts -> PushStates]
    /\ age \in [Calls \X Attempts -> 0 .. Wait + 1]
    /\ resp \in [Responses ->
                   [pc : {"idle", "exists", "get", "set", "finish", "done"},
                    key : Keys, age : 0 .. Wait + 1, available : Answers,
                    platform : CacheValues,
                    status : {0, 202, 400, 404, 500}]]
    /\ respLog \subseteq CacheValues
    /\ heard \in [Calls -> SUBSET (News \X BOOLEAN)]

----------------------------------------------------------------------------
(* Safety, at any speed of the servers and with any sharing of keys.       *)

Heard(c, a) == \E early \in BOOLEAN : <<a, early>> \in heard[c]

\* Asterisk is told to put a call through only if the phone said it is
\* available after this call's own placeholder was set: neither the
\* placeholder, nor an answer left in the cache by an earlier call with the
\* same unique_key, nor a removed token makes the poll loop return ACK.
AckOnlyWhenAnswered ==
    \A c \in Calls : reply[c] = "ACK" => Heard(c, "True")

\* A call is counted as refused by its phone only if the phone refused it.
UnavailableOnlyWhenRefused ==
    \A c \in Calls : "not_available" \in metrics[c] => Heard(c, "False")

\* An answer that is in the cache is never replaced by a placeholder; it
\* goes only by a later answer or by expiry.  This needs the exists check of
\* CallResponseView and keys that no two calls share.
PlaceholderNeverErasesAnswer ==
    [][\A k \in Keys : get(CallKey(k)) \in Answers
                          => get(CallKey(k))' \notin Platforms]_vars

----------------------------------------------------------------------------
(* Safety of a timely server (PromptSpec).                                 *)

\* An answer that is stored while the poll loop is certain to look at the
\* cache once more is honoured: the call does not end as unanswered.
AnswerHonoured ==
    \A c \in Calls : "no_response" \in metrics[c]
                        => \A a \in Answers : <<a, TRUE>> \notin heard[c]

\* A repeated push leaves the phone at least a resend interval to answer
\* before the loop ends: "Avoid sending a push close to the end of the loop".
NoLatePush ==
    [][\A c \in Calls : pc[c] = "decide" /\ attempt'[c] > attempt[c]
                           => remaining[c] >= Resend]_vars

----------------------------------------------------------------------------
(* Liveness.                                                               *)

\* Asterisk is never left without an answer: every call that was taken up is
\* replied to, whatever the phone and the push service do, as long as each
\* command of Redis that the handler waits for returns or raises.
EveryCallIsAnswered == \A c \in Calls : Started(c) ~> reply[c] # "none"

\* How many steps a handler has left at most at each label, a sleep being one of
\* them.  A turn of the loop is a test, a poll, a decision and a sleep.
StepsAt(time) == [
    idle        |-> 4 * Wait + 9,
    notify      |-> 4 * Wait + 8,
    timers      |-> 4 * Wait + 7,
    placeholder |-> 4 * time + 6,
    test        |-> IF time = 0 THEN 1 ELSE 4 * time + 5,
    poll        |-> 4 * time + 4,
    decide      |-> 4 * time + 3,
    sleep       |-> 4 * time + 2,
    done        |-> 0]

StepsLeft(c) == StepsAt(remaining[c])[pc[c]]

\* The safety part of this: whatever happens, each step that a handler takes
\* brings it nearer to its answer, and no step of another process takes it
\* further away.  No resend, news or clock tick starts the wait anew, so a call
\* is answered after 4 * Wait + 9 steps of its handler at most.
EachStepIsNearer ==
    [][\A c \in Calls :
          /\ StepsLeft(c)' \in 0 .. StepsLeft(c)
          /\ pc'[c] # pc[c] => StepsLeft(c)' < StepsLeft(c)]_vars

----------------------------------------------------------------------------
(* What the comments and the documentation say.                            *)

\* push.py 379: "Remove the unique key from the cache so we can sent NAK to
\* asterisk": a call that polls on after its token was found to be gone is
\* refused and does not run into its deadline.
RemovedTokenIsRefused ==
    \A c \in Calls : "no_response" \in metrics[c]
                        => <<"Removed", TRUE>> \notin heard[c]

----------------------------------------------------------------------------
(* Refinement of CallDecision.  The decision is read off the reply and the *)
(* lists the call pushed to, so that a wrong list is a wrong decision; an  *)
(* error may have been counted as the decision that it kept from Asterisk. *)

Account == [
    accepted  |-> <<"ACK", {"incoming_success", "push_success"}>>,
    refused   |-> <<"NAK", {"incoming_success", "not_available"}>>,
    timeout   |-> <<"NAK", {"incoming_success", "no_response"}>>,
    removed   |-> <<"NAK", {"incoming_success"}>>,
    missing   |-> <<"NAK", {"incoming_failed"}>>,
    uncounted |-> <<"NAK", {}>>,
    invalid   |-> <<"400", {}>>]

Counts == {Account[o][2] : o \in DOMAIN Account}

OutcomeOf(c) ==
    CASE reply[c] = "none" -> IF pc[c] = "idle" THEN "none" ELSE "waiting"
      [] reply[c] = "500" /\ metrics[c] \in Counts -> "error"
      [] OTHER             -> CHOOSE o \in DOMAIN Account :
                                 Account[o] = <<reply[c], metrics[c]>>

Decision == INSTANCE CallDecision WITH
    outcome <- [c \in Calls |-> OutcomeOf(c)],
    answers <- [c \in Calls |-> {h[1] : h \in heard[c]}]

DecidesCalls == Decision!Spec

----------------------------------------------------------------------------
(* Refinement of PushOutcome, as module PushDispatch implements it.        *)

PushThreads == INSTANCE PushOutcome WITH
    Threads  <- Calls \X Attempts,
    outcome  <- [p \in Calls \X Attempts |->
                    IF push[p] \in {"none", "stamped"} THEN "spawned"
                    ELSE push[p]],
    platform <- [p \in Calls \X Attempts |-> PlatformOf[UserOf[p[1]]]]

\* The push threads of a call take no steps but those that PushDispatch leaves
\* them: a device is removed after the cache was marked, and only when Firebase
\* has refused its token; no thread is started while it is at work, or again.
PushesAsAssumed == PushThreads!Spec

=============================================================================
