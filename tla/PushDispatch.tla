---------------------------- MODULE PushDispatch ----------------------------
(***************************************************************************)
(* The threads that send pushes (app/push.py), one per push: by Apple's    *)
(* service over a pool of connections that all threads share, by Firebase  *)
(* or by Google Cloud Messaging.  Each log line is a call of Logentries,   *)
(* which may raise; lines that follow one another are one call.            *)
(***************************************************************************)
EXTENDS Logentries

CONSTANT
    Devices         \* [platform, app, sandbox, logsets] of a device

Platforms == {"apns", "gcm", "android"}

ASSUME DeviceAssumption ==
    \A d \in Devices : /\ d.platform \in Platforms
                       /\ d.sandbox \in BOOLEAN
                       /\ d.logsets \in Seq(Logsets)

ASSUME ThreadAssumption == "none" \notin Threads

VARIABLES
    dev,            \* the device a thread was started with
    pc,             \* where the thread is
    pool,           \* apns2_connection_pool: the thread that opened a connection
    conn,           \* the connection a thread has
    result          \* what the push service has answered to a thread

threadVars == <<dev, pc, pool, conn, result>>
vars == <<logVars, threadVars>>

KeyOf(d)  == <<d.app, d.sandbox>>
PoolKeys  == {KeyOf(d) : d \in Devices}
Key(t)    == KeyOf(dev[t])

Ended == {"done", "died"}
PCs   == {"check", "open", "update", "connect", "send", "finally", "gcm",
          "logged", "fcm", "mark", "delete"} \cup Ended

\* send_call_message and send_text_message choose the service.
Gateway == [apns |-> "check", gcm |-> "gcm", android |-> "fcm"]

Init ==
    /\ LogInit
    /\ dev \in [Threads -> Devices]
    /\ pc = [t \in Threads |-> Gateway[dev[t].platform]]
    /\ pool = [k \in PoolKeys |-> "none"]
    /\ conn = [t \in Threads |-> "none"]
    /\ result = [t \in Threads |-> "none"]

----------------------------------------------------------------------------
(* A thread goes on when the log call it made has returned.                *)

Ready(t, label) == pc[t] = label /\ At(t, "idle")

Goto(t, label) ==
    /\ pc' = [pc EXCEPT ![t] = label]
    /\ UNCHANGED <<logVars, dev>>

LogThen(t, label) ==
    /\ pc' = [pc EXCEPT ![t] = label]
    /\ Call(t, dev[t].logsets)
    /\ UNCHANGED <<handlers, attached, records, dev>>

Answered(t, r) == result' = [result EXCEPT ![t] = r] /\ UNCHANGED <<pool, conn>>
Unanswered     == UNCHANGED <<pool, conn, result>>

\* An exception that nothing catches.
Dies(t) == Goto(t, "died") /\ Unanswered

----------------------------------------------------------------------------
(* send_apns_message with get_apns2_connection.                            *)

Missing(t) ==
    /\ Ready(t, "check")
    /\ pool[Key(t)] = "none"
    /\ Goto(t, "open")
    /\ Unanswered

\* Mutant: any connection of the app will do.
InPoolAnySandbox(t) ==
    /\ Ready(t, "check")
    /\ \E k \in PoolKeys : /\ k[1] = dev[t].app
                           /\ pool[k] # "none"
                           /\ conn' = [conn EXCEPT ![t] = pool[k]]
    /\ Goto(t, "connect")
    /\ UNCHANGED <<pool, result>>

InPool(t) ==
    /\ Ready(t, "check")
    /\ pool[Key(t)] # "none"
    /\ conn' = [conn EXCEPT ![t] = pool[Key(t)]]
    /\ Goto(t, "connect")
    /\ UNCHANGED <<pool, result>>

\* Mutant: the new connection goes to the pool only.
OpenUnheld(t) ==
    /\ Ready(t, "open")
    /\ pool' = [pool EXCEPT ![Key(t)] = t]
    /\ LogThen(t, "update")
    /\ UNCHANGED <<conn, result>>

\* APNsClient(full_cert_path, use_sandbox)
Open(t) ==
    /\ Ready(t, "open")
    /\ conn' = [conn EXCEPT ![t] = t]
    /\ LogThen(t, "update")
    /\ UNCHANGED <<pool, result>>

Update(t) ==
    /\ Ready(t, "update")
    /\ pool' = [pool EXCEPT ![Key(t)] = conn[t]]
    /\ LogThen(t, "send")
    /\ UNCHANGED <<conn, result>>

\* "Test the existing connection, will throw an exception if this fails."
Connect(t) == Ready(t, "connect") /\ LogThen(t, "send") /\ Unanswered

NoConnection(t) == (Ready(t, "open") \/ Ready(t, "connect")) /\ Dies(t)

\* send_notification, and the line that is logged finally
ApnsAnswer(t) ==
    /\ Ready(t, "send")
    /\ LogThen(t, "finally")
    /\ \E r \in {"sent", "failed"} : Answered(t, r)

\* Each exception of the service is logged, and so the thread ends.
Finally(t) ==
    /\ Ready(t, "finally")
    /\ IF result[t] = "sent" THEN Goto(t, "done") ELSE LogThen(t, "done")
    /\ Unanswered

----------------------------------------------------------------------------
(* send_fcm_message                                                        *)

FcmAnswer(t) ==
    /\ Ready(t, "fcm")
    /\ LogThen(t, "done")
    /\ \E r \in {"sent", "failed"} : Answered(t, r)

\* NotRegistered
FcmRejected(t) ==
    /\ Ready(t, "fcm")
    /\ LogThen(t, "mark")
    /\ Answered(t, "rejected")

\* Mutant: the device goes first.
MarkLast(t) == Ready(t, "mark") /\ Goto(t, "done") /\ Unanswered

\* if redis_cache.exists(unique_key): redis_cache.set(unique_key, "Removed")
Mark(t) == Ready(t, "mark") /\ Goto(t, "delete") /\ Unanswered

\* device.delete()
Delete(t) == Ready(t, "delete") /\ Goto(t, "done") /\ Unanswered

\* An exception of the service that is not named, of Redis or the database.
FcmDies(t) == (\E label \in {"fcm", "mark", "delete"} : Ready(t, label)) /\ Dies(t)

----------------------------------------------------------------------------
(* send_gcm_message: an answer is logged in the try block, an exception    *)
(* outside of it.                                                          *)

GcmAnswer(t) ==
    /\ Ready(t, "gcm")
    /\ LogThen(t, "logged")
    /\ \E r \in {"sent", "failed"} : Answered(t, r)

GcmRaises(t) ==
    /\ Ready(t, "gcm")
    /\ LogThen(t, "done")
    /\ Answered(t, "failed")

Logged(t) == Ready(t, "logged") /\ Goto(t, "done") /\ Unanswered

----------------------------------------------------------------------------
\* A log call has raised: "except Exception" logs once more and the thread
\* ends, but outside of a try block it dies.
InTry == {"send", "finally", "logged"}

Caught(t) ==
    /\ At(t, "raised")
    /\ IF pc[t] \in InTry
       THEN LogThen(t, "done")
       ELSE /\ pc' = [pc EXCEPT ![t] = "died"]
            /\ Call(t, <<>>)
            /\ UNCHANGED <<handlers, attached, records, dev>>
    /\ Unanswered

----------------------------------------------------------------------------
Apns(t) == Missing(t) \/ InPool(t) \/ Open(t) \/ Update(t) \/ Connect(t)
              \/ NoConnection(t) \/ ApnsAnswer(t) \/ Finally(t)
Fcm(t)  == FcmAnswer(t) \/ FcmRejected(t) \/ Mark(t) \/ Delete(t) \/ FcmDies(t)
Gcm(t)  == GcmAnswer(t) \/ GcmRaises(t) \/ Logged(t)

Next == \E t \in Threads :
    \/ LogStep(t) /\ UNCHANGED threadVars
    \/ Apns(t) \/ Fcm(t) \/ Gcm(t) \/ Caught(t)

Spec == Init /\ [][Next]_vars

=============================================================================
