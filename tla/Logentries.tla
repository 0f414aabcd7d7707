----------------------------- MODULE Logentries -----------------------------
(***************************************************************************)
(* Logging to Logentries (app/utils.py).  All threads of a server share    *)
(* the dictionary LOGENTRIES_HANDLERS and the one logger 'logentries',     *)
(* whose handlers are replaced before each record.  Nothing is locked, so  *)
(* each access to either is a step.  A call of log_middleware_information  *)
(* goes through the logsets of its device: that of the app, and that of    *)
(* the partner if there is one.                                            *)
(***************************************************************************)
EXTENDS Sequences

CONSTANTS
    Threads,        \* threads of one server
    Logsets,        \* Logentries tokens
    ValidLogsets    \* those that make a handler with good_config

ASSUME LogsetAssumption ==
    /\ ValidLogsets \subseteq Logsets
    /\ "none" \notin Logsets

VARIABLES
    handlers,       \* keys of LOGENTRIES_HANDLERS
    attached,       \* the logset of the logger's handlers
    log,            \* the call a thread is in, with the logsets to go
    records         \* history: <<logset meant, logset reached>> of records

logVars == <<handlers, attached, log, records>>

Silent == [pc |-> "idle", todo |-> <<>>]

LogInit ==
    /\ handlers = {}
    /\ attached = "none"
    /\ log = [t \in Threads |-> Silent]
    /\ records = {}

\* Thread t logs for a device with these logsets (none without a logging id).
Call(t, logsets) ==
    log' = [log EXCEPT ![t] = IF logsets = <<>> THEN Silent
                              ELSE [pc |-> "lookup", todo |-> logsets]]

Logset(t) == Head(log[t].todo)

At(t, label) == log[t].pc = label
GoOn(t, label) ==
    log' = [log EXCEPT ![t] = [pc |-> label, todo |-> log[t].todo]]

\* On with the partner's logset, or back to the caller.
NextLogset(t) == Call(t, Tail(log[t].todo))

\* if logentries_token not in LOGENTRIES_HANDLERS
LookUp(t) ==
    /\ At(t, "lookup")
    /\ GoOn(t, IF Logset(t) \in handlers THEN "good" ELSE "insert")
    /\ UNCHANGED <<handlers, attached, records>>

Insert(t) ==
    /\ At(t, "insert")
    /\ handlers' = handlers \cup {Logset(t)}
    /\ GoOn(t, "good")
    /\ UNCHANGED <<attached, records>>

\* if LOGENTRIES_HANDLERS[logentries_token].good_config
GoodConfig(t) ==
    /\ At(t, "good")
    /\ Logset(t) \in handlers
    /\ GoOn(t, IF Logset(t) \in ValidLogsets THEN "attach" ELSE "pop")
    /\ UNCHANGED <<handlers, attached, records>>

\* logentries_logger.handlers = [LOGENTRIES_HANDLERS[logentries_token]]
Attach(t) ==
    /\ At(t, "attach")
    /\ Logset(t) \in handlers
    /\ attached' = Logset(t)
    /\ GoOn(t, "emit")
    /\ UNCHANGED <<handlers, records>>

\* Mutant: the handler is dropped after each record.
EmitAndPop(t) ==
    /\ At(t, "emit")
    /\ records' = records \cup {<<Logset(t), attached>>}
    /\ handlers' = handlers \ {Logset(t)}
    /\ NextLogset(t)
    /\ UNCHANGED attached

\* The record goes to the handlers that the logger has by now.
Emit(t) ==
    /\ At(t, "emit")
    /\ records' = records \cup {<<Logset(t), attached>>}
    /\ NextLogset(t)
    /\ UNCHANGED <<handlers, attached>>

\* Mutant: a handler that is no good is kept.
KeepBad(t) ==
    /\ At(t, "pop")
    /\ Logset(t) \in handlers
    /\ NextLogset(t)
    /\ UNCHANGED <<handlers, attached, records>>

\* LOGENTRIES_HANDLERS.pop(logentries_token)
Pop(t) ==
    /\ At(t, "pop")
    /\ Logset(t) \in handlers
    /\ handlers' = handlers \ {Logset(t)}
    /\ NextLogset(t)
    /\ UNCHANGED <<attached, records>>

\* The handler is gone by now: KeyError, out of log_middleware_information.
KeyError(t) ==
    /\ log[t].pc \in {"good", "attach", "pop"}
    /\ Logset(t) \notin handlers
    /\ GoOn(t, "raised")
    /\ UNCHANGED <<handlers, attached, records>>

LogStep(t) ==
    \/ LookUp(t) \/ Insert(t) \/ GoodConfig(t) \/ Attach(t) \/ Emit(t)
    \/ Pop(t) \/ KeyError(t)

=============================================================================
