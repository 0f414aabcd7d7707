------------------------- MODULE PushDispatchProofs -------------------------
(***************************************************************************)
(* Proofs about push threads and their logging, for any number of threads, *)
(* devices and logsets.                                                    *)
(***************************************************************************)
EXTENDS PushDispatchProps, SequenceTheorems, TLAPS

----------------------------------------------------------------------------
(* Logging.  A call has a logset until it returns; a valid logset that was *)
(* looked up has a handler, since only invalid ones are dropped.           *)

LogStates == [pc : {"idle", "lookup", "insert", "good", "attach", "emit", "pop",
                    "raised"},
              todo : Seq(Logsets)]

LogType ==
    /\ handlers \subseteq Logsets
    /\ attached \in Logsets \cup {"none"}
    /\ log \in [Threads -> LogStates]
    /\ records \subseteq Logsets \X (Logsets \cup {"none"})

HasLogset == \A t \in Threads : ~ At(t, "idle") => log[t].todo # <<>>

ValidHasHandler ==
    \A t \in Threads :
        /\ At(t, "good") /\ Logset(t) \in ValidLogsets => Logset(t) \in handlers
        /\ At(t, "attach") => Logset(t) \in ValidLogsets \cap handlers
        /\ At(t, "pop") \/ At(t, "raised") => Logset(t) \notin ValidLogsets

LogInv == LogType /\ HasLogset /\ ValidHasHandler /\ BadHandlerIsDropped

LEMMA LogsetFacts ==
    ASSUME LogType, HasLogset, NEW t \in Threads, ~ At(t, "idle")
    PROVE  /\ Logset(t) \in Logsets
           /\ Tail(log[t].todo) \in Seq(Logsets)
<1>1. log[t].todo \in Seq(Logsets) /\ log[t].todo # <<>>
    BY DEF LogType, LogStates, HasLogset
<1> QED BY <1>1, HeadTailProperties DEF Logset

\* Thread t goes on to a call with these logsets, or returns.
LEMMA CallInv ==
    ASSUME LogInv, NEW t \in Threads, NEW s \in Seq(Logsets), Call(t, s),
           handlers' \subseteq handlers,
           \A x \in handlers \ handlers' : x \notin ValidLogsets,
           \A x \in handlers' \ ValidLogsets :
               At(t, "good") \/ At(t, "pop") => Logset(t) # x,
           attached' = attached,
           records' \subseteq Logsets \X (Logsets \cup {"none"})
    PROVE  LogInv'
<1> DEFINE e == IF s = <<>> THEN Silent ELSE [pc |-> "lookup", todo |-> s]
<1>0. <<>> \in Seq(Logsets)
    OBVIOUS
<1>1. e \in LogStates /\ e.pc \in {"idle", "lookup"}
      /\ (e.pc # "idle" => e.todo # <<>>)
    BY <1>0 DEF LogStates, Silent
<1>2. log' = [log EXCEPT ![t] = e]
    BY DEF Call
<1> HIDE DEF e
<1>3. log' \in [Threads -> LogStates] /\ log'[t] = e
      /\ \A u \in Threads : u # t => log'[u] = log[u]
    BY <1>1, <1>2 DEF LogInv, LogType
<1>4. LogType' /\ HasLogset'
    BY <1>1, <1>3 DEF LogInv, LogType, HasLogset, At
<1>5. ValidHasHandler'
    BY <1>1, <1>3 DEF LogInv, ValidHasHandler, At, Logset
<1>6. ASSUME NEW x \in handlers' \ ValidLogsets
      PROVE  \E u \in Threads : (log[u].pc \in {"good", "pop"} /\ Logset(u) = x)'
    <2>1. PICK u \in Threads : log[u].pc \in {"good", "pop"} /\ Logset(u) = x
        BY <1>6 DEF LogInv, BadHandlerIsDropped
    <2>2. u # t
        BY <1>6, <2>1 DEF At
    <2> QED BY <1>3, <2>1, <2>2 DEF Logset
<1> QED BY <1>4, <1>5, <1>6 DEF LogInv, BadHandlerIsDropped

\* Thread t goes on in its call.
LEMMA GoOnInv ==
    ASSUME LogInv, NEW t \in Threads, ~ At(t, "idle"),
           NEW label \in {"insert", "good", "attach", "emit", "pop", "raised"},
           GoOn(t, label),
           handlers' \in {handlers, handlers \cup {Logset(t)}},
           attached' \in Logsets \cup {"none"}, records' = records,
           label = "good" => Logset(t) \in handlers',
           label = "attach" => Logset(t) \in ValidLogsets \cap handlers,
           label \in {"pop", "raised"} => Logset(t) \notin ValidLogsets,
           Logset(t) \in handlers' \ ValidLogsets => label \in {"good", "pop"}
    PROVE  LogInv'
<1> DEFINE e == [pc |-> label, todo |-> log[t].todo]
<1>1. e \in LogStates /\ e.pc = label /\ e.todo = log[t].todo
      /\ log[t].todo # <<>>
    BY DEF LogInv, LogType, LogStates, HasLogset
<1>2. log' = [log EXCEPT ![t] = e]
    BY DEF GoOn
<1> HIDE DEF e
<1>3. log' \in [Threads -> LogStates] /\ log'[t] = e
      /\ \A u \in Threads : u # t => log'[u] = log[u]
    BY <1>1, <1>2 DEF LogInv, LogType
<1>4. \A u \in Threads : Logset(u)' = Logset(u)
    BY <1>1, <1>3 DEF Logset
<1>5. Logset(t) \in Logsets
    BY LogsetFacts DEF LogInv
<1>6. LogType' /\ HasLogset'
    BY <1>1, <1>3, <1>5 DEF LogInv, LogType, HasLogset, At
<1>7. ValidHasHandler'
    BY <1>1, <1>3, <1>4 DEF LogInv, ValidHasHandler, At
<1>8. ASSUME NEW x \in handlers' \ ValidLogsets
      PROVE  \E u \in Threads : (log[u].pc \in {"good", "pop"} /\ Logset(u) = x)'
    <2>1. CASE x = Logset(t)
        BY <1>1, <1>3, <1>4, <1>8, <2>1
    <2>2. CASE x # Logset(t)
        <3>1. PICK u \in Threads : log[u].pc \in {"good", "pop"} /\ Logset(u) = x
            BY <1>8, <2>2 DEF LogInv, BadHandlerIsDropped
        <3> QED BY <1>3, <1>4, <2>2, <3>1
    <2> QED BY <2>1, <2>2
<1> QED BY <1>6, <1>7, <1>8 DEF LogInv, BadHandlerIsDropped

LEMMA LogStepInv ==
    ASSUME LogInv, NEW t \in Threads, LogStep(t)
    PROVE  LogInv'
<1> USE DEF At
<1>1. ~ At(t, "idle")
    BY DEF LogStep, LookUp, Insert, GoodConfig, Attach, Emit, Pop, KeyError
<1>2. Logset(t) \in Logsets /\ Tail(log[t].todo) \in Seq(Logsets)
    BY <1>1, LogsetFacts DEF LogInv
<1>3. CASE LookUp(t)
    BY <1>1, <1>3, GoOnInv DEF LookUp, LogInv, LogType
<1>4. CASE Insert(t)
    BY <1>1, <1>4, GoOnInv DEF Insert, LogInv, LogType
<1>5. CASE GoodConfig(t)
    BY <1>1, <1>5, GoOnInv DEF GoodConfig, LogInv, LogType
<1>6. CASE Attach(t)
    BY <1>1, <1>2, <1>6, GoOnInv DEF Attach, LogInv, ValidHasHandler
<1>7. CASE Emit(t)
    <2>1. records' \subseteq Logsets \X (Logsets \cup {"none"})
        BY <1>2, <1>7 DEF Emit, LogInv, LogType
    <2> QED BY <1>2, <1>7, <2>1, CallInv DEF Emit, NextLogset
<1>8. CASE Pop(t)
    BY <1>2, <1>8, CallInv DEF Pop, NextLogset, LogInv, LogType, ValidHasHandler
<1>9. CASE KeyError(t)
    BY <1>1, <1>9, GoOnInv DEF KeyError, LogInv, LogType, ValidHasHandler
<1> QED BY <1>3, <1>4, <1>5, <1>6, <1>7, <1>8, <1>9 DEF LogStep

----------------------------------------------------------------------------
(* Push threads.  A connection belongs to the app and the environment of   *)
(* the device it was opened for, in the pool too.                          *)

ThreadType ==
    /\ dev \in [Threads -> Devices]
    /\ pc \in [Threads -> PCs]
    /\ pool \in [PoolKeys -> Threads \cup {"none"}]
    /\ conn \in [Threads -> Threads \cup {"none"}]
    /\ result \in [Threads -> {"none", "sent", "failed", "rejected"}]

HasConnection ==
    \A t \in Threads : pc[t] \in {"update", "connect", "send"} => conn[t] # "none"

PoolIsOwn == \A k \in PoolKeys : pool[k] # "none" => Key(pool[k]) = k

Inv == LogInv /\ ThreadType /\ HasConnection /\ OwnConnection /\ PoolIsOwn

LEMMA KeyFacts ==
    ASSUME ThreadType, NEW t \in Threads
    PROVE  Key(t) \in PoolKeys /\ dev[t].logsets \in Seq(Logsets)
    BY DeviceAssumption DEF ThreadType, Key, PoolKeys, DeviceAssumption

LEMMA InitInv == Init => Inv
<1> SUFFICES ASSUME Init PROVE Inv
    OBVIOUS
<1>1. <<>> \in Seq(Logsets)
    OBVIOUS
<1>2. LogInv
    BY <1>1 DEF Init, LogInit, Silent, LogInv, LogType, LogStates, HasLogset,
                ValidHasHandler, BadHandlerIsDropped, At
<1>3. \A t \in Threads : Gateway[dev[t].platform] \in {"check", "gcm", "fcm"}
    <2>1. \A p \in Platforms : Gateway[p] \in {"check", "gcm", "fcm"}
        BY DEF Gateway, Platforms
    <2>2. \A t \in Threads : dev[t].platform \in Platforms
        BY DeviceAssumption DEF Init, DeviceAssumption
    <2> QED BY <2>1, <2>2
<1>4. ThreadType
    BY <1>3 DEF Init, ThreadType, PCs
<1>5. HasConnection /\ OwnConnection /\ PoolIsOwn
    BY <1>3 DEF Init, HasConnection, OwnConnection, PoolIsOwn
<1> QED BY <1>2, <1>4, <1>5 DEF Inv

\* A thread that is not in a log call goes on without logging, ...
LEMMA GotoInv ==
    ASSUME LogInv, ThreadType, NEW t \in Threads, NEW label \in PCs, Goto(t, label)
    PROVE  LogInv' /\ dev' = dev /\ pc' = [pc EXCEPT ![t] = label]
<1>1. UNCHANGED <<handlers, attached, log, records, dev>>
    BY DEF Goto, logVars
<1> QED BY <1>1 DEF Goto, LogInv, LogType, HasLogset, ValidHasHandler,
                    BadHandlerIsDropped, At, Logset

\* ... or makes a log call.
LEMMA LogThenInv ==
    ASSUME LogInv, ThreadType, NEW t \in Threads, NEW label \in PCs,
           At(t, "idle") \/ At(t, "raised"), LogThen(t, label)
    PROVE  LogInv' /\ dev' = dev /\ pc' = [pc EXCEPT ![t] = label]
<1>1. dev[t].logsets \in Seq(Logsets)
    BY KeyFacts
<1>2. LogInv'
    BY <1>1, CallInv DEF LogThen, LogInv, LogType, At
<1> QED BY <1>2 DEF LogThen

\* What a thread does to its own connection, its result and the pool.
LEMMA ThreadInv ==
    ASSUME Inv, LogInv', dev' = dev, NEW t \in Threads, NEW label \in PCs,
           pc' = [pc EXCEPT ![t] = label],
           label \in {"update", "connect", "send"} => conn'[t] # "none",
           \/ UNCHANGED <<pool, conn>>
           \/ /\ UNCHANGED pool
              /\ conn' = [conn EXCEPT ![t] = t]
           \/ /\ UNCHANGED pool
              /\ conn' = [conn EXCEPT ![t] = pool[Key(t)]]
           \/ /\ UNCHANGED conn
              /\ pool' = [pool EXCEPT ![Key(t)] = conn[t]],
           result' \in [Threads -> {"none", "sent", "failed", "rejected"}]
    PROVE  Inv'
<1> USE DEF Inv
<1>1. \A u \in Threads : Key(u)' = Key(u) /\ Key(u) \in PoolKeys
    BY KeyFacts DEF Key
<1>2. Key("none")' = Key("none")
    BY DEF Key
<1>3. PoolKeys' = PoolKeys
    BY DEF PoolKeys
<1>4. CASE UNCHANGED <<pool, conn>>
    <2>1. ThreadType'
        BY <1>3, <1>4 DEF ThreadType
    <2>2. HasConnection'
        BY <1>4 DEF ThreadType, HasConnection
    <2>3. OwnConnection'
        BY <1>4 DEF OwnConnection, Key
    <2>4. PoolIsOwn'
        BY <1>3, <1>4 DEF PoolIsOwn, Key
    <2> QED BY <2>1, <2>2, <2>3, <2>4
<1>5. CASE UNCHANGED pool /\ conn' = [conn EXCEPT ![t] = t]
    BY <1>1, <1>3, <1>5 DEF ThreadType, HasConnection, OwnConnection, PoolIsOwn
<1>6. CASE UNCHANGED pool /\ conn' = [conn EXCEPT ![t] = pool[Key(t)]]
    BY <1>1, <1>3, <1>6 DEF ThreadType, HasConnection, OwnConnection, PoolIsOwn
<1>7. CASE UNCHANGED conn /\ pool' = [pool EXCEPT ![Key(t)] = conn[t]]
    <2>1. ThreadType'
        BY <1>1, <1>3, <1>7 DEF ThreadType
    <2>2. HasConnection'
        BY <1>7 DEF ThreadType, HasConnection
    <2>3. OwnConnection'
        BY <1>7 DEF OwnConnection, Key
    <2>4. PoolIsOwn'
        <3>1. Key(conn[t])' = Key(conn[t])
            BY <1>7 DEF Key
        <3> QED
            BY <1>1, <1>3, <1>7, <3>1
            DEF ThreadType, OwnConnection, PoolIsOwn, Key
    <2> QED BY <2>1, <2>2, <2>3, <2>4
<1> QED BY <1>4, <1>5, <1>6, <1>7

LEMMA ApnsInv ==
    ASSUME Inv, NEW t \in Threads, Apns(t)
    PROVE  Inv'
<1> USE DEF Inv, PCs, Ended, Ready, Unanswered, Answered, Dies
<1>0. result \in [Threads -> {"none", "sent", "failed", "rejected"}]
    BY DEF ThreadType
<1>t. t # "none"
    BY ThreadAssumption DEF ThreadAssumption
<1>1. CASE Missing(t)
    BY <1>0, <1>1, GotoInv, ThreadInv DEF Missing
<1>2. CASE InPool(t)
    <2>1. LogInv' /\ dev' = dev /\ pc' = [pc EXCEPT ![t] = "connect"]
        BY <1>2, GotoInv DEF InPool
    <2>2. conn'[t] # "none"
        BY <1>2 DEF InPool, ThreadType
    <2> QED BY <1>0, <1>2, <2>1, <2>2, ThreadInv DEF InPool
<1>3. CASE Open(t)
    <2>1. LogInv' /\ dev' = dev /\ pc' = [pc EXCEPT ![t] = "update"]
        BY <1>3, LogThenInv DEF Open
    <2>2. conn'[t] # "none"
        BY <1>3, <1>t DEF Open, ThreadType
    <2> QED BY <1>0, <1>3, <2>1, <2>2, ThreadInv DEF Open
<1>4. CASE Update(t)
    <2>1. LogInv' /\ dev' = dev /\ pc' = [pc EXCEPT ![t] = "send"]
        BY <1>4, LogThenInv DEF Update
    <2>2. conn'[t] # "none"
        BY <1>4 DEF Update, HasConnection
    <2> QED BY <1>0, <1>4, <2>1, <2>2, ThreadInv DEF Update
<1>5. CASE Connect(t)
    <2>1. LogInv' /\ dev' = dev /\ pc' = [pc EXCEPT ![t] = "send"]
        BY <1>5, LogThenInv DEF Connect
    <2>2. conn'[t] # "none"
        BY <1>5 DEF Connect, HasConnection
    <2> QED BY <1>0, <1>5, <2>1, <2>2, ThreadInv DEF Connect
<1>6. CASE NoConnection(t)
    BY <1>0, <1>6, GotoInv, ThreadInv DEF NoConnection
<1>7. CASE ApnsAnswer(t)
    <2>1. LogInv' /\ dev' = dev /\ pc' = [pc EXCEPT ![t] = "finally"]
        BY <1>7, LogThenInv DEF ApnsAnswer
    <2> QED BY <1>0, <1>7, <2>1, ThreadInv DEF ApnsAnswer
<1>8. CASE Finally(t)
    <2>1. LogInv' /\ dev' = dev /\ pc' = [pc EXCEPT ![t] = "done"]
        BY <1>8, GotoInv, LogThenInv DEF Finally
    <2> QED BY <1>0, <1>8, <2>1, ThreadInv DEF Finally
<1> QED BY <1>1, <1>2, <1>3, <1>4, <1>5, <1>6, <1>7, <1>8 DEF Apns

LEMMA FcmInv ==
    ASSUME Inv, NEW t \in Threads, Fcm(t)
    PROVE  Inv'
<1> USE DEF Inv, PCs, Ended, Ready, Unanswered, Answered, Dies
<1>0. result \in [Threads -> {"none", "sent", "failed", "rejected"}]
    BY DEF ThreadType
<1>1. CASE FcmAnswer(t)
    <2>1. LogInv' /\ dev' = dev /\ pc' = [pc EXCEPT ![t] = "done"]
        BY <1>1, LogThenInv DEF FcmAnswer
    <2> QED BY <1>0, <1>1, <2>1, ThreadInv DEF FcmAnswer
<1>2. CASE FcmRejected(t)
    <2>1. LogInv' /\ dev' = dev /\ pc' = [pc EXCEPT ![t] = "mark"]
        BY <1>2, LogThenInv DEF FcmRejected
    <2> QED BY <1>0, <1>2, <2>1, ThreadInv DEF FcmRejected
<1>3. CASE Mark(t)
    BY <1>0, <1>3, GotoInv, ThreadInv DEF Mark
<1>4. CASE Delete(t)
    BY <1>0, <1>4, GotoInv, ThreadInv DEF Delete
<1>5. CASE FcmDies(t)
    BY <1>0, <1>5, GotoInv, ThreadInv DEF FcmDies
<1> QED BY <1>1, <1>2, <1>3, <1>4, <1>5 DEF Fcm

LEMMA GcmInv ==
    ASSUME Inv, NEW t \in Threads, Gcm(t)
    PROVE  Inv'
<1> USE DEF Inv, PCs, Ended, Ready, Unanswered, Answered
<1>0. result \in [Threads -> {"none", "sent", "failed", "rejected"}]
    BY DEF ThreadType
<1>1. CASE GcmAnswer(t)
    <2>1. LogInv' /\ dev' = dev /\ pc' = [pc EXCEPT ![t] = "logged"]
        BY <1>1, LogThenInv DEF GcmAnswer
    <2> QED BY <1>0, <1>1, <2>1, ThreadInv DEF GcmAnswer
<1>2. CASE GcmRaises(t)
    <2>1. LogInv' /\ dev' = dev /\ pc' = [pc EXCEPT ![t] = "done"]
        BY <1>2, LogThenInv DEF GcmRaises
    <2> QED BY <1>0, <1>2, <2>1, ThreadInv DEF GcmRaises
<1>3. CASE Logged(t)
    BY <1>0, <1>3, GotoInv, ThreadInv DEF Logged
<1> QED BY <1>1, <1>2, <1>3 DEF Gcm

LEMMA CaughtInv ==
    ASSUME Inv, NEW t \in Threads, Caught(t)
    PROVE  Inv'
<1> USE DEF Inv, PCs, Ended, Unanswered
<1>0. result \in [Threads -> {"none", "sent", "failed", "rejected"}]
    BY DEF ThreadType
<1>1. CASE pc[t] \in InTry
    <2>1. LogInv' /\ dev' = dev /\ pc' = [pc EXCEPT ![t] = "done"]
        BY <1>1, LogThenInv DEF Caught
    <2> QED BY <1>0, <2>1, ThreadInv DEF Caught
<1>2. CASE pc[t] \notin InTry
    <2>1. <<>> \in Seq(Logsets)
        OBVIOUS
    <2>2. LogInv'
        BY <1>2, <2>1, CallInv DEF Caught, LogInv, LogType, At
    <2> QED BY <1>0, <1>2, <2>2, ThreadInv DEF Caught
<1> QED BY <1>1, <1>2

LEMMA StepInv == Inv /\ [Next]_vars => Inv'
<1> SUFFICES ASSUME Inv, [Next]_vars PROVE Inv'
    OBVIOUS
<1>1. ASSUME NEW t \in Threads, LogStep(t), UNCHANGED threadVars PROVE Inv'
    <2>1. LogInv'
        BY <1>1, LogStepInv DEF Inv
    <2> QED BY <1>1, <2>1 DEF Inv, threadVars, ThreadType, HasConnection,
                              OwnConnection, PoolIsOwn, Key, PoolKeys
<1>2. CASE UNCHANGED vars
    BY <1>2 DEF vars, logVars, threadVars, Inv, LogInv, LogType, HasLogset,
                ValidHasHandler, BadHandlerIsDropped, ThreadType, HasConnection,
                OwnConnection, PoolIsOwn, Key, PoolKeys, At, Logset
<1> QED BY <1>1, <1>2, ApnsInv, FcmInv, GcmInv, CaughtInv DEF Next

LEMMA Invariance == Spec => []Inv
    BY InitInv, StepInv, PTL DEF Spec

----------------------------------------------------------------------------
\* Every variable of the push threads and of their logging keeps its type, and
\* a thread has a connection when it stores or uses one.
THEOREM TypeCorrect == Spec => []TypeOK
<1>1. Inv => TypeOK
    BY DEF Inv, LogInv, LogType, LogStates, ThreadType, HasConnection, TypeOK
<1> QED BY <1>1, Invariance, PTL

\* However many threads share the pool of connections, each sends over one that
\* was opened for the app and the environment of its device.
THEOREM PoolKeepsApart == Spec => []OwnConnection
<1>1. Inv => OwnConnection
    BY DEF Inv
<1> QED BY <1>1, Invariance, PTL

\* No call for a valid logset raises, whatever the other threads log and drop.
THEOREM ValidLogsetsNeverRaise == Spec => []OnlyBadLogsetsRaise
<1>1. Inv => OnlyBadLogsetsRaise
    BY DEF Inv, LogInv, ValidHasHandler, OnlyBadLogsetsRaise
<1> QED BY <1>1, Invariance, PTL

\* A handler that is no good stays only as long as a thread is about to drop it.
THEOREM BadHandlersGo == Spec => []BadHandlerIsDropped
<1>1. Inv => BadHandlerIsDropped
    BY DEF Inv, LogInv
<1> QED BY <1>1, Invariance, PTL

----------------------------------------------------------------------------
(* Refinement: the result of a push and where its thread is go together,   *)
(* and so each step is one of PushOutcome or a stutter.                    *)

Fits(t, label, r) ==
    /\ label \in {"check", "open", "update", "connect", "send", "gcm", "fcm"}
          => r = "none"
    /\ label \in {"fcm", "mark", "delete"} => dev[t].platform = "android"
    /\ label \in {"finally", "logged"} => r \in {"sent", "failed"}
    /\ label \in {"mark", "delete"} => r = "rejected"
    /\ r = "rejected" => label \in {"mark", "delete", "done", "died"}

\* Nothing is logged any more once the entry of the call is marked.
ResultFits ==
    \A t \in Threads :
        /\ Fits(t, pc[t], result[t])
        /\ result[t] = "rejected" /\ pc[t] # "mark" => At(t, "idle")

\* At rest, a thread that has found its token gone is done with it.
LEMMA OutcomeFacts ==
    ASSUME NEW t \in Threads
    PROVE  /\ result[t] = "rejected" =>
                 /\ pc[t] = "mark" => OutcomeOf(t) = "rejected"
                 /\ pc[t] = "delete" => OutcomeOf(t) = "marked"
                 /\ pc[t] = "done" => OutcomeOf(t) = "removed"
                 /\ pc[t] = "died" => OutcomeOf(t) = "failed"
           /\ result[t] = "none" =>
                 OutcomeOf(t) = IF pc[t] \in Ended THEN "failed" ELSE "spawned"
           /\ result[t] \in {"sent", "failed"} => OutcomeOf(t) = result[t]
    BY DEF OutcomeOf

\* What may become of the push of thread t in a step.
May(t, from, to) ==
    \/ from = to
    \/ from = "spawned" /\ to = "sent"
    \/ from \in {"spawned", "rejected", "marked"} /\ to = "failed"
    \/ from = "spawned" /\ to = "rejected" /\ dev[t].platform = "android"
    \/ from = "rejected" /\ to = "marked"
    \/ from = "marked" /\ to = "removed"

LEMMA Simulates ==
    ASSUME NEW t \in Threads, May(t, OutcomeOf(t), OutcomeOf(t)'), dev' = dev,
           \A u \in Threads \ {t} : OutcomeOf(u)' = OutcomeOf(u)
    PROVE  [Outcome!Next]_(Outcome!vars)
<1> DEFINE f == [u \in Threads |-> OutcomeOf(u)]
           g == [u \in Threads |-> OutcomeOf(u)']
           p == [u \in Threads |-> dev[u].platform]
<1>1. g = [f EXCEPT ![t] = OutcomeOf(t)'] /\ f[t] = OutcomeOf(t)
    OBVIOUS
<1>2. p' = p /\ p[t] = dev[t].platform
    OBVIOUS
<1>3. CASE OutcomeOf(t) = OutcomeOf(t)'
    BY <1>1, <1>2, <1>3 DEF Outcome!vars
<1>4. CASE OutcomeOf(t) # OutcomeOf(t)'
    <2>1. \/ Outcome!Send(t) \/ Outcome!Fail(t) \/ Outcome!Reject(t)
          \/ Outcome!Mark(t) \/ Outcome!Remove(t)
        BY <1>1, <1>2, <1>4 DEF May, Outcome!Send, Outcome!Fail, Outcome!Reject,
              Outcome!Mark, Outcome!Remove, Outcome!Become
    <2> QED BY <2>1 DEF Outcome!Next
<1> QED BY <1>3, <1>4

LEMMA OutcomeInit == Init => ResultFits /\ Outcome!Init
<1> SUFFICES ASSUME Init PROVE ResultFits /\ Outcome!Init
    OBVIOUS
<1>1. \A p \in Platforms : /\ Gateway[p] \in {"check", "gcm", "fcm"}
                           /\ Gateway[p] = "fcm" => p = "android"
    BY DEF Gateway, Platforms
<1>2. \A t \in Threads : dev[t].platform \in Platforms
    BY DeviceAssumption DEF Init, DeviceAssumption
<1>3. ASSUME NEW t \in Threads
      PROVE  /\ pc[t] \in {"check", "gcm", "fcm"}
             /\ pc[t] = "fcm" => dev[t].platform = "android"
             /\ result[t] = "none"
    <2>1. pc[t] = Gateway[dev[t].platform] /\ result[t] = "none"
        BY DEF Init
    <2> QED BY <1>1, <1>2, <2>1
<1>4. ResultFits
    BY <1>3 DEF ResultFits, Fits
<1>5. \A t \in Threads : OutcomeOf(t) = "spawned"
    BY <1>3, OutcomeFacts DEF Ended
<1>6. [t \in Threads |-> dev[t].platform] \in [Threads -> {"apns", "gcm", "android"}]
    BY <1>2 DEF Platforms
<1> QED BY <1>4, <1>5, <1>6 DEF Outcome!Init

\* A step that ends at a label with a result that go together.
LEMMA ThreadOutcome ==
    ASSUME ThreadType, ResultFits, NEW t \in Threads, NEW label \in PCs,
           NEW r \in {"none", "sent", "failed", "rejected"},
           dev' = dev, pc' = [pc EXCEPT ![t] = label],
           result' = [result EXCEPT ![t] = r],
           \A u \in Threads \ {t} : log'[u] = log[u],
           Fits(t, label, r),
           r = "rejected" /\ label # "mark" => log'[t].pc = "idle",
           May(t, OutcomeOf(t), OutcomeOf(t)')
    PROVE  ResultFits' /\ [Outcome!Next]_(Outcome!vars)
<1>1. pc'[t] = label /\ result'[t] = r
    BY DEF ThreadType
<1>2. \A u \in Threads \ {t} : pc'[u] = pc[u] /\ result'[u] = result[u]
    BY DEF ThreadType
<1>3. ResultFits'
    BY <1>1, <1>2 DEF ResultFits, Fits, At
<1>4. \A u \in Threads \ {t} : OutcomeOf(u)' = OutcomeOf(u)
    BY <1>2 DEF OutcomeOf
<1> QED BY <1>3, <1>4, Simulates

\* The outcome after a step, by where the thread is and its result.
LEMMA OutcomeAfter ==
    ASSUME ThreadType, NEW t \in Threads, NEW label \in PCs,
           NEW r \in {"none", "sent", "failed", "rejected"},
           pc' = [pc EXCEPT ![t] = label], result' = [result EXCEPT ![t] = r]
    PROVE  /\ r = "rejected" =>
                 /\ label = "mark" => OutcomeOf(t)' = "rejected"
                 /\ label = "delete" => OutcomeOf(t)' = "marked"
                 /\ label = "done" => OutcomeOf(t)' = "removed"
                 /\ label = "died" => OutcomeOf(t)' = "failed"
           /\ r = "none" =>
                 OutcomeOf(t)' = IF label \in Ended THEN "failed" ELSE "spawned"
           /\ r \in {"sent", "failed"} => OutcomeOf(t)' = r
<1>1. pc'[t] = label /\ result'[t] = r
    BY DEF ThreadType
<1> QED BY <1>1 DEF OutcomeOf

\* Going on, with or without a log call, touches no other thread's call.
LEMMA OthersLog ==
    ASSUME LogType, NEW t \in Threads, NEW label \in PCs,
           Goto(t, label) \/ LogThen(t, label)
    PROVE  /\ dev' = dev /\ pc' = [pc EXCEPT ![t] = label]
           /\ \A u \in Threads \ {t} : log'[u] = log[u]
    BY DEF Goto, LogThen, Call, LogType, logVars

\* Steps without an answer of the push service, and ...
LEMMA UnansweredOutcome ==
    ASSUME Inv, ResultFits, NEW t \in Threads, NEW label \in PCs,
           Goto(t, label) \/ LogThen(t, label), UNCHANGED result,
           Fits(t, label, result[t]),
           result[t] = "rejected" /\ label # "mark" => Goto(t, label) /\ At(t, "idle"),
           \/ result[t] = "none" /\ pc[t] \notin Ended
           \/ result[t] \in {"sent", "failed"}
           \/ result[t] = "rejected" /\ <<pc[t], label>> \in
                 {<<"mark", "delete">>, <<"delete", "done">>,
                  <<"mark", "died">>, <<"delete", "died">>}
    PROVE  ResultFits' /\ [Outcome!Next]_(Outcome!vars)
<1> USE DEF Inv
<1>1. /\ dev' = dev /\ pc' = [pc EXCEPT ![t] = label]
      /\ \A u \in Threads \ {t} : log'[u] = log[u]
    BY OthersLog DEF LogInv
<1>2. /\ result' = [result EXCEPT ![t] = result[t]]
      /\ result[t] \in {"none", "sent", "failed", "rejected"}
    BY DEF ThreadType
<1>3. result[t] = "rejected" /\ label # "mark" => log'[t].pc = "idle"
    BY DEF Goto, logVars, At
<1>4. May(t, OutcomeOf(t), OutcomeOf(t)')
    BY <1>1, <1>2, OutcomeFacts, OutcomeAfter DEF May, Ended
<1> QED BY <1>1, <1>2, <1>3, <1>4, ThreadOutcome

\* ... with one.
LEMMA AnsweredOutcome ==
    ASSUME Inv, ResultFits, NEW t \in Threads, NEW label \in PCs,
           NEW r \in {"sent", "failed", "rejected"},
           LogThen(t, label), Answered(t, r),
           result[t] = "none", pc[t] \notin Ended, Fits(t, label, r),
           r = "rejected" => label = "mark" /\ dev[t].platform = "android"
    PROVE  ResultFits' /\ [Outcome!Next]_(Outcome!vars)
<1> USE DEF Inv
<1>1. /\ dev' = dev /\ pc' = [pc EXCEPT ![t] = label]
      /\ \A u \in Threads \ {t} : log'[u] = log[u]
    BY OthersLog DEF LogInv
<1>2. result' = [result EXCEPT ![t] = r]
    BY DEF Answered
<1>3. May(t, OutcomeOf(t), OutcomeOf(t)')
    BY <1>1, <1>2, OutcomeFacts, OutcomeAfter DEF May
<1> QED BY <1>1, <1>2, <1>3, ThreadOutcome

LEMMA ApnsOutcome ==
    ASSUME Inv, ResultFits, NEW t \in Threads, Apns(t)
    PROVE  ResultFits' /\ [Outcome!Next]_(Outcome!vars)
<1> USE DEF PCs, Ended, Ready, Unanswered, Dies, Fits, ResultFits
<1>1. CASE Missing(t)
    BY <1>1, UnansweredOutcome DEF Missing
<1>2. CASE InPool(t)
    BY <1>2, UnansweredOutcome DEF InPool
<1>3. CASE Open(t)
    BY <1>3, UnansweredOutcome DEF Open
<1>4. CASE Update(t)
    BY <1>4, UnansweredOutcome DEF Update
<1>5. CASE Connect(t)
    BY <1>5, UnansweredOutcome DEF Connect
<1>6. CASE NoConnection(t)
    BY <1>6, UnansweredOutcome DEF NoConnection
<1>7. CASE ApnsAnswer(t)
    BY <1>7, AnsweredOutcome DEF ApnsAnswer
<1>8. CASE Finally(t)
    BY <1>8, UnansweredOutcome DEF Finally
<1> QED BY <1>1, <1>2, <1>3, <1>4, <1>5, <1>6, <1>7, <1>8 DEF Apns

LEMMA FcmOutcome ==
    ASSUME Inv, ResultFits, NEW t \in Threads, Fcm(t)
    PROVE  ResultFits' /\ [Outcome!Next]_(Outcome!vars)
<1> USE DEF PCs, Ended, Ready, Unanswered, Dies, Fits, ResultFits
<1>1. CASE FcmAnswer(t)
    BY <1>1, AnsweredOutcome DEF FcmAnswer
<1>2. CASE FcmRejected(t)
    BY <1>2, AnsweredOutcome DEF FcmRejected
<1>3. CASE Mark(t)
    BY <1>3, UnansweredOutcome DEF Mark
<1>4. CASE Delete(t)
    BY <1>4, UnansweredOutcome DEF Delete
<1>5. CASE FcmDies(t)
    BY <1>5, UnansweredOutcome DEF FcmDies
<1> QED BY <1>1, <1>2, <1>3, <1>4, <1>5 DEF Fcm

LEMMA GcmOutcome ==
    ASSUME Inv, ResultFits, NEW t \in Threads, Gcm(t)
    PROVE  ResultFits' /\ [Outcome!Next]_(Outcome!vars)
<1> USE DEF PCs, Ended, Ready, Unanswered, Fits, ResultFits
<1>1. CASE GcmAnswer(t)
    BY <1>1, AnsweredOutcome DEF GcmAnswer
<1>2. CASE GcmRaises(t)
    BY <1>2, AnsweredOutcome DEF GcmRaises
<1>3. CASE Logged(t)
    BY <1>3, UnansweredOutcome DEF Logged
<1> QED BY <1>1, <1>2, <1>3 DEF Gcm

\* A log call that raises ends a push that was answered before, or fails one:
\* never one whose entry is marked already.
LEMMA CaughtOutcome ==
    ASSUME Inv, ResultFits, NEW t \in Threads, Caught(t)
    PROVE  ResultFits' /\ [Outcome!Next]_(Outcome!vars)
<1> DEFINE label == IF pc[t] \in InTry THEN "done" ELSE "died"
<1> USE DEF Inv
<1>1. /\ dev' = dev /\ pc' = [pc EXCEPT ![t] = label]
      /\ \A u \in Threads \ {t} : log'[u] = log[u]
    BY DEF Caught, LogThen, Call, LogInv, LogType
<1>2. /\ result' = [result EXCEPT ![t] = result[t]]
      /\ result[t] \in {"none", "sent", "failed", "rejected"}
    BY DEF Caught, Unanswered, ThreadType
<1>3. label \in PCs /\ label \in Ended /\ label # "mark"
    BY DEF PCs, Ended
<1>4. result[t] = "rejected" => pc[t] = "mark" /\ label = "died"
    BY DEF Caught, ResultFits, At, InTry
<1>5. result[t] = "rejected" => log'[t].pc = "idle"
    BY <1>4 DEF Caught, InTry, Call, Silent, LogInv, LogType
<1>6. Fits(t, label, result[t])
    BY <1>2, <1>3 DEF Fits, Ended
<1>7. May(t, OutcomeOf(t), OutcomeOf(t)')
    <2> HIDE DEF label
    <2>1. CASE result[t] = "rejected"
        <3>1. OutcomeOf(t) = "rejected"
            BY <1>4, <2>1, OutcomeFacts
        <3>2. OutcomeOf(t)' = "failed"
            BY <1>1, <1>2, <1>3, <1>4, <2>1, OutcomeAfter
        <3> QED BY <3>1, <3>2 DEF May
    <2>2. CASE result[t] = "none"
        <3>1. OutcomeOf(t) \in {"spawned", "failed"}
            BY <2>2, OutcomeFacts
        <3>2. OutcomeOf(t)' = "failed"
            BY <1>1, <1>2, <1>3, <2>2, OutcomeAfter
        <3> QED BY <3>1, <3>2 DEF May
    <2>3. CASE result[t] \in {"sent", "failed"}
        BY <1>1, <1>2, <1>3, <2>3, OutcomeFacts, OutcomeAfter DEF May
    <2> QED BY <1>2, <2>1, <2>2, <2>3
<1> QED BY <1>1, <1>2, <1>3, <1>5, <1>6, <1>7, ThreadOutcome

LEMMA StepOutcome ==
    Inv /\ ResultFits /\ [Next]_vars => ResultFits' /\ [Outcome!Next]_(Outcome!vars)
<1> SUFFICES ASSUME Inv, ResultFits, [Next]_vars
             PROVE  ResultFits' /\ [Outcome!Next]_(Outcome!vars)
    OBVIOUS
<1>1. ASSUME NEW t \in Threads, LogStep(t), UNCHANGED threadVars
      PROVE  ResultFits' /\ [Outcome!Next]_(Outcome!vars)
    <2>1. \A u \in Threads : At(u, "idle") => At(u, "idle")'
        BY <1>1 DEF Inv, LogInv, LogType, LogStep, LookUp, Insert, GoodConfig, Attach,
              Emit, Pop, KeyError, GoOn, NextLogset, Call, Silent, At
    <2> QED BY <1>1, <2>1 DEF threadVars, ResultFits, Fits, OutcomeOf, Outcome!vars
<1>2. CASE UNCHANGED vars
    BY <1>2 DEF vars, logVars, threadVars, ResultFits, Fits, At, OutcomeOf, Outcome!vars
<1> QED BY <1>1, <1>2, ApnsOutcome, FcmOutcome, GcmOutcome, CaughtOutcome DEF Next

\* A push thread does to the call it was started for only what the wake-up of
\* the phone assumes of it, whatever its log calls raise.
THEOREM ImplementsOutcome == Spec => EndsAsAssumed
    BY OutcomeInit, StepOutcome, Invariance, PTL
    DEF Spec, EndsAsAssumed, Outcome!Spec

=============================================================================
