------------------------- MODULE PushDispatchProps --------------------------
(***************************************************************************)
(* What must be true of push threads (module PushDispatch) and of their    *)
(* logging (module Logentries).                                            *)
(***************************************************************************)
EXTENDS PushDispatch

\* Every variable has its type, and a thread has a connection when it is about
\* to put it into the pool or to send.
TypeOK ==
    /\ handlers \subseteq Logsets
    /\ attached \in Logsets \cup {"none"}
    /\ log \in [Threads -> [pc : {"idle", "lookup", "insert", "good", "attach",
                                  "emit", "pop", "raised"},
                            todo : Seq(Logsets)]]
    /\ records \subseteq Logsets \X (Logsets \cup {"none"})
    /\ dev \in [Threads -> Devices]
    /\ pc \in [Threads -> PCs]
    /\ pool \in [PoolKeys -> Threads \cup {"none"}]
    /\ conn \in [Threads -> Threads \cup {"none"}]
    /\ \A t \in Threads : pc[t] \in {"update", "send"} => conn[t] # "none"
    /\ result \in [Threads -> {"none", "sent", "failed", "rejected"}]

\* The pool hands a connection only to devices of its app and environment,
\* however many threads find it empty and open connections at a time: no push
\* to an app under test goes out over a connection to production.
OwnConnection ==
    \A t \in Threads : conn[t] # "none" => Key(conn[t]) = Key(t)

\* LOGENTRIES_HANDLERS is read three times in a call, unlocked.  A call for a
\* valid logset never raises, whatever threads with invalid ones do.  (A call
\* for an invalid one may, and ends the thread that it is made by, even before
\* the push is sent when it is made outside of the try block.)
OnlyBadLogsetsRaise ==
    \A t \in Threads : At(t, "raised") => Logset(t) \notin ValidLogsets

\* A handler that is no good is in the dictionary only while a thread is on
\* its way to drop it: a token that is corrected later gets a new handler.
BadHandlerIsDropped ==
    \A s \in handlers \ ValidLogsets :
        \E t \in Threads : /\ log[t].pc \in {"good", "pop"}
                           /\ Logset(t) = s

----------------------------------------------------------------------------
(* Refinement of PushOutcome, what IncomingCall assumes of push threads.   *)

OutcomeOf(t) ==
    CASE result[t] = "rejected" ->
            [mark |-> "rejected", delete |-> "marked", done |-> "removed",
             died |-> "failed"][pc[t]]
      [] result[t] = "none" -> IF pc[t] \in Ended THEN "failed" ELSE "spawned"
      [] OTHER -> result[t]

Outcome == INSTANCE PushOutcome WITH
    outcome  <- [t \in Threads |-> OutcomeOf(t)],
    platform <- [t \in Threads |-> dev[t].platform]

EndsAsAssumed == Outcome!Spec

----------------------------------------------------------------------------
(* What the comments say.                                                  *)

\* utils.py 129: "logentries_token (str): The token of the logset in
\* Logentries": a record gets to the logset that it was logged with.
RecordReachesItsLogset == \A r \in records : r[1] = r[2]

=============================================================================
