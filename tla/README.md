# Vialer middleware: TLA+ models and proofs

The middleware stands between a PBX (Asterisk), the push services of Apple and
Google, and the Vialer phone apps. When a call comes in for an app account,
Asterisk asks the middleware, which wakes the phone by a push message, waits for
the phone to answer, and tells Asterisk whether to put the call through. Web
servers are stateless and load-balanced; they share MySQL (devices, response
log) and a Redis cluster (answers of phones, lists of metrics). An exporter
process in every web container moves the metrics from Redis to Prometheus.

This directory holds models of that code, the instances TLC checks, and proofs.

## Inventory

| Component | State | Operations | Talks to | What is hard | Correct when |
|---|---|---|---|---|---|
| Incoming call (`IncomingCallView`) | local deadline, resend time, attempt; cache entry `call_<key>`; metric lists | lookup, push, placeholder, poll loop, decision | Device table, push threads, Redis | the phone answers another server while this one polls; keys are reused; deadline and answer race | ACK only after the phone's yes; each call gets one decision and is counted as what it was |
| Call response (`CallResponseView`) | cache entry | exists, get, set, log | Redis, log thread | three Redis calls that are not atomic; answers that are repeated or late | an answer reaches the call that waits for it; a phone is turned away only when its call is ending |
| Push dispatch (`app/push.py`, `app/tasks.py`) | thread per push, APNs connection pool | connect, send, mark removed, delete device | Apple, Google, Redis, Device table, Logentries | pool and loggers are shared without locks; any log call may raise; stale device objects | a push goes out over its own environment; a thread ends in the ways the call expects |
| Logging (`app/utils.py`) | handlers by token, one logger | look up, create, attach, emit, drop | Logentries | all threads use one dictionary and one logger | a valid logset never makes a log call raise; records reach their logset |
| Device registry (`DeviceView`, `CheckInView`, `app/models.py`) | Device table | register, delete, check in | push threads, calls | whole rows are read, kept and written back | the phone that registered last is the one that is called; a removed device stays removed |
| Authentication (`api/authentication.py`) | none | two requests to the VoIPGRID API | VoIPGRID, Device table | accounts change hands between the requests; a log line that raises | only the owner of an account changes its device |
| Metrics reporting (`LogMetricsView`) | Redis lists | RPUSH | exporter | the exporter takes keys from the entry without looking, and reads it back with `literal_eval` | every entry has the keys the exporter takes |
| Metrics exporter (`main/prometheus`) | Redis lists, counters in memory, health gauges | probe, LLEN, LRANGE, LTRIM per list | Redis, MySQL, Prometheus | values arrive between the commands; stops; several exporters | nothing lost, little counted twice, keeps running |
| Response statistics (`app/utils.py`, `app/admin.py`) | none | nine queries per platform, month range | ResponseLog | percentile and month boundaries; rows come and go between the queries | figures are those of the month, and fit each other |
| Hangup reason (`HangupReasonView`) | none | device lookup, log line | Device table | | |
| Serializers, settings, URLs, migrations | | | | | not modelled, see below |

## Modules

Abstract specifications and components:

- **IncomingCall** is the core: `IncomingCallView.post`, the push threads it
  starts and `CallResponseView.post`, composed over one Redis cache. Each
  action is the code between two steps that other processes can see (a Redis
  call, a database call, the start of a thread). `pc` names the line a handler
  is at: `notify` (229), `timers` (238), `placeholder` (250), `test` (265),
  `poll` (266), `decide` (269-349) and `sleep` (360) of `api/views.py`.
  `remaining` and `untilResend` are the two deadlines, counted from now;
  `cache` maps a prefix and a key to a value with its remaining lifetime;
  `push` and `age` are the threads and the ages of the payloads they stamped
  (before they connect to the service, which may take its time);
  `resp` holds the handlers of responses with their local variables.
  A call's two identities (`sip_user_id`, `unique_key`) are constants, so that
  calls may share either. `heard` is a history variable: the news of its phone
  that arrived while a call was in its loop, and whether it was in time.
- **CallDecision** is what Asterisk is promised: one decision per call, made on
  what the phone said, accounted for under its name. `IncomingCallProps`
  refines it: `DecidesCalls` reads the decision off the reply *and* the Redis
  lists (`Account`), so a wrong list is a wrong decision. CallDecision says what
  may be decided; that something is decided at all is `EveryCallIsAnswered`.
  `metrics` holds the lists of a call as a set, so a value pushed twice to one list
  would not be seen, and a server error may have been counted as any decision:
  `Abort` is an error after some of the pushes, such as a log call that raises
  or a reply of Redis that is lost.
- **IncomingCallLate** adds a history variable to IncomingCall: `lag`, the age of
  a call's first push when the deadline of its loop was set. It relates the two
  clocks of a call, that of the loop and that of the payload.
- **PushDispatch** models the threads themselves: the three services, the
  connection pool (`pool` maps an app and an environment to the thread that
  opened the connection), the cache mark and the deletion after Firebase's
  `NotRegistered`, and where an exception of a log call is caught and where not.
  It extends **Logentries**, the log call: one step per access to
  `LOGENTRIES_HANDLERS` (`handlers`) and to the logger's handlers (`attached`).
- **PushOutcome** is how a push thread may end: the mark in the cache before the
  removal of the device, and both for Android only. PushDispatch implements it
  with all that its threads do (`EndsAsAssumed`), and so do the coarse threads
  that IncomingCall runs in their place (`PushesAsAssumed`); this is how the two
  modules fit together.
- **DeviceRegistry** models the handlers that write the Device table, each with
  the object it read (`dev`) and the row as it is (`row`). `intent` and
  `overlapped` are history variables: the registration or deletion that last
  settled an account, and the requests that ran beside another of their user,
  after which nothing is certain. So is `bereft`: the requests in whose course
  the row of their account was really removed from the table, by whoever.
- **AppApi** composes DeviceRegistry with authentication: a request becomes a
  step of DeviceRegistry only when it is `"granted"`. `app_account` is
  VoIPGRID's own state and changes at any time. It also holds the two views
  without effect on the table: HangupReasonView, and LogMetricsView, whose
  entries are sets of keys, without the values, to be compared with those the
  exporter takes (`Labels`); a report that is answered with a server error may
  have left its entry. `owned` is a history variable.
- **MetricsExporter** models the process of `main/prometheus/prometheus.py`.
  The v-th value ever pushed to a list is the number v, so a list is the
  interval `trimmed + 1 .. pushed` and the three Redis commands are arithmetic
  on it. The seven `increment_*` functions have one shape and are the rounds
  over `Lists`. The local variables of a function go when its round or its
  process ends. `leftover` keeps the probe rows that no delete reached. `cut` is
  a history variable: how many rounds ended between LRANGE and LTRIM of a list,
  since only their values are counted once more.
- **MetricsQueue** is its promise: a recorded value stays queued until counted.
- **ResponseStatistics** models `get_metrics` as nine steps and the admin page
  that calls it for three platforms, beside those who write `ResponseLog`: the
  threads of `log_to_db` and the probes of the exporters. The table is a set of
  rows with primary keys, dated by days, and a calendar is the sequence of the
  first days of some successive months.

For each component X, *XProps* holds the properties, *MCX* the definitions that
give TLC its instances, and *XProofs* the theorems (those of IncomingCall that
need a `unique_key` per call, or timely servers, are in *IncomingCallKeyProofs*,
the refinement of CallDecision is in *CallDecisionProofs*).
Operators under a comment "Mutant" are wrong variants of the definition that
follows them; no specification uses them, they show that the properties notice
the difference.

## Runs

`tlc -config R.cfg M` checks run R; `PROJECT.json` lists the module of each.

Runs that pass:

| Run | Shows | Bounds and why they are enough |
|---|---|---|
| Call_SharedKey | no call takes over the answer to another call with the same `call_id`: neither an ACK nor a counted refusal | two calls, one key, one response: the earlier call's entry outlives it and meets the later one in every order; Wait 1, so that a loop looks before and at its deadline (longer waits are in the other runs); the calls are symmetric |
| Call_Decides | an answer is not overwritten by a placeholder; a phone is told that it is late only at the end of its call's loop; the refinement of CallDecision, and of PushOutcome by the push threads; each step of the handler brings its call nearer to an answer, and every call is answered | one call to an Android phone, two responses that may repeat or contradict each other, Wait 2: the loop turns, and an entry can expire between any two Redis calls of a response. The wait is over before a push is repeated; repetitions are in Call_Prompt |
| Call_Prompt | types; answers in time are honoured; no push close to the deadline | Wait 12, Resend 4 so that the quotient 3 differs from the attempts 2 and an attempt too many, or one sent at the wrong time, would show |
| Push_Threads | types; the pool keeps environments apart; log calls for valid logsets never raise and bad handlers are dropped; refinement of PushOutcome | two threads over four devices: same app in both environments, a good and a bad logset, one of each service; with three threads the run passes too, but takes long |
| Device_Register | rows are not mixed for good; a removed device comes back only by a registration that creates it, or by a request that ran beside its removal; requests that do not overlap leave what the last one asked for | two phones, a deletion, a check-in and a call whose push is refused: every handler that creates, replaces or removes a row |
| Api_Access | types; only the owner of an account, or a dead token, changes its row; every report leaves an entry with all keys that the exporter takes, or none | two accounts and one system user who may have either or none; a registration, a deletion, a call, a hangup and a report with all data the view tells apart |
| Metrics_Single | types; no value lost; refinement of MetricsQueue; a value is counted twice at most and once more per round that was cut short; every value is counted in the end, with every failure | two lists, so that a round that never gets past the first shows; two values in one: one before and one between the commands of a round; one cut round is told from none, and three counts from two |
| Stats_Page | types; the figures are those of the answers that phones gave in the month, counted row by row, when there are none of its last day and no rows of probes; totals, parts, least times and averages fit each other even when rows arrive between the queries | three rows, of two platforms, of phones and of several probes, over the last two days of a month and the first of the next, for three calendars with months of 28 to 31 days and a leap year; with three rows a percentile cuts one part, both, or nothing |

Runs that end in a violation show where the code does something else than its
comments or documentation say; they are recorded under "findings":

- Call_TokenRemoved: the token's removal is stored under a key nobody reads
  (`app/push.py:382`), so the call waits for its full time.
- Push_OtherLogset: a record is sent to the logset that another thread has just
  attached (`app/utils.py:138`).
- Device_CheckIn: a check-in restores an old row (`api/views.py:674`).
- Metrics_TwoExporters: values are lost between two containers
  (`main/prometheus/prometheus.py:204`).

Disagreements without a run of their own; the models show them too, but for the
number in a report:

- A second response finds the first answer where it expects the placeholder, and
  logs it as the platform (`api/views.py:426`; no statistics show such rows).
- A value that is pushed between LLEN and LRANGE is counted in this round and
  the next, as LRANGE includes its stop index (`main/prometheus/prometheus.py:184`).
  `Recounts` says that this is as bad as it gets while no round is cut short.
- The old token is compared after it has been overwritten, so the phone that
  loses an account is never told (`api/views.py:484`, `app/tasks.py:19`).
- Apple's verdict that a token is garbage leads to a log line only, although the
  comment says to "stop using and remove it" (`app/push.py:202`).
- A response that comes after its call has ended may be told 202, when it
  answers a push that was repeated (`api/views.py:446`); a phone that answers
  before the placeholder is set is told 404 (`api/views.py:421`).
- A system user without app account gets a server error and not 403 when the
  account it asks for has no device (`api/authentication.py:99`).
- The answers of the last day of a month are in no month's figures, since the end
  date of the range is taken as its midnight (`app/utils.py:46`). `QuietFigures`
  speaks of months without such answers (`LastDayIsBlank`).
- Rows of probes count as answers of phones while they are there, and for good when
  their delete did not run (`main/prometheus/prometheus.py:159`, `171`): the figures
  of the platform `gcm` include them. `QuietFigures` excepts them (`NoProbeRows`).
- A phone may be told 404, too late, although its call is put through: its answer is
  stored (`api/views.py:428`) before it is timed (`430`), and by the payload's clock,
  which starts with the thread (`229`), before the loop's deadline is set (`239`).
  The comment on the 404 says otherwise. `TurnedAwayAtTheEnd` bounds this: only
  while the loop has no more time left than the push was old when the deadline was set.
- A number in a report that is too great for a float (JSON `1e999`) is stored as
  `inf`, which `literal_eval` does not read back: its ValueError
  (`main/prometheus/prometheus.py:188`) is not among those caught at 415, and ends
  the exporter before the entry is trimmed. AppApi has no values, so
  `EveryEntryIsCountable` is about missing keys only.
- A report whose `call_setup_successful` is a JSON `true` is dropped without an
  error (`api/views.py:635`).

Deadlock is checked for the calls, the exporter and the statistics. The device,
API and push runs serve a finite set of requests and stop when all are served,
so they do not check it.

### Other bounds

The exporter's model pushes at most `MaxPushed[l]` values to list l (`MaxValues`
to any), counts a value at most `MaxCount` times and cut rounds up to `MaxCuts`
(both saturating). Timers stop where nothing compares
them any further: the deadline at 0, the resend time one below 0, an age one
above `Wait`. The TTL of a cache entry is 300 s in the code and one or two
intervals longer than the wait in the instances; the models only need it to be longer.
The statistics hold a row per member of `Ids` at a time over `Days` days, with
times up to `Slowest`.

### Time and speed

A Tick is a poll interval. Under `Spec` any number of ticks may pass between two
steps of a handler: servers may be arbitrarily slow, and the properties of
`Spec` hold nevertheless. `PromptSpec` lets no tick pass while a handler is
between two sleeps; only `Call_Prompt` and `Call_TokenRemoved` assume it, since
whether an answer is honoured in time depends on how often the loop looks.
Push threads and responses stay arbitrarily slow in both.

Ticks are whole and time is not: an age of `Wait` ticks may be a little more than
the wait, or not. Where the code compares a roundtrip with the wait, `Exceeds`
allows both at equality; with `lag`, which counts the ticks between the payload and
the deadline, an age may exceed the wait while the call is still in its loop.
`TimeAssumption` asks of the two settings only that the resend interval, by which
the code divides (`api/views.py:245`), is not zero: an interval longer than the
wait is allowed, and repeats no push.

### Fairness

- `IncomingCall!FairSpec`: weak fairness of each started handler (the web server
  keeps running a request; an exception is one way to end it) and of the clock.
  Neither phones nor push services are assumed to be fair. Fairness of the handler
  does assume that each Redis command and query ends, with a reply or an exception;
  the client is made without a socket timeout (`app/cache.py:27`), so a Redis node
  that holds a connection and stays silent could keep a call for ever.
- `MetricsExporter!FairSpec`: weak fairness of the probe and the sleep (the loop
  of a process that was not stopped), strong fairness of each Redis command on
  each list: Redis may fail a command again and again, but a command that is
  tried in round after round is not refused for ever. A stopped or crashed exporter
  is not assumed to come back; `EveryValueCounted` allows for it.

### What a failed command did

In the exporter's model a Redis command takes effect once, or not at all when it
raises. `NoLoss`, `Recounts` and `KeepsUntilCounted` rest on it: a client that
repeats an LTRIM whose reply was lost would trim values that nobody has read, and
one that repeats an RPUSH would add one. The handlers of calls and reports are
modelled without that assumption: their push may be in its list and raise.

## Proofs

`tlapm` checks every step. All theorems hold for every value of the constants
that the named assumptions allow (`CallAssumption`, `TimeAssumption`,
`ExporterAssumption`, `RequestAssumption`, `ApiAssumption`, `LogsetAssumption`,
`DeviceAssumption`, `ThreadAssumption`, `CalendarsAssumption`,
`AnswersAssumption`, `BoundsAssumption`).

**IncomingCallProofs**
- `TypeCorrect`: `Spec => []TypeOK`, with `TypeOK` inductive as it stands. It
  rests on lemmas about the operators: what `stored` and `Expired` make of the
  cache (`CacheFacts`), that a due resend is within `Attempts`
  (`AttemptFacts`), that a returned response is a record (`ReturnedRecord`).
- `AckIsAnswered` and `RefusalIsAnswered`: `Spec => []AckOnlyWhenAnswered` and
  `Spec => []UnavailableOnlyWhenRefused`. Neither is inductive. `DecisionInv`
  adds that an answer found in the cache by a call in its loop was heard by
  that call (`CacheHeard`: entering the loop means that the placeholder has
  just replaced whatever a former call left), and that the answer a handler has
  read was (`ReadHeard`). `Quiet` gathers the steps that change nothing of
  this; the placeholder, the poll and a response are treated one by one.
- `AnswerIsNearer`: `Spec => EachStepIsNearer`, the safety half of
  `EveryCallIsAnswered`. `StepsLeft` bounds how often a handler still has to move,
  from `4 * Wait + 9` at the start: four moves per interval of the wait and the few
  before the loop. Every move lowers it, and neither the clock, a resend, phones
  nor push threads raise it. What remains for TLC is that a handler which can move
  does (fairness).
- `PushesImplementOutcome`: `Spec => PushesAsAssumed`. All that is needed besides
  types is that an attempt which the call has not made has no thread
  (`NotStarted`), so that each push is a thread of its own. Together with
  `PushDispatchProofs!ImplementsOutcome` it ties the two modules to one promise.

**CallDecisionProofs**: `ImplementsDecision`, `Spec => DecidesCalls`, for any calls,
keys shared or not, and any speed of the servers. It uses `DecisionInv` for what
the phone said and adds two invariants. `AccountInv`: a call in its loop is in the
lists of those that were taken up and in no other, and a handler that has returned
has one of the accounts or a server error; since no two decisions have an account
in common (`AccountsDiffer`), the account tells the decision. `NeverMarked`: no poll
ever finds a removed token, as the mark is stored under the bare key
(`app/push.py:382`), which is the finding of Call_TokenRemoved; the branch of the
code that refuses such a call cannot be reached. Polls and timers stutter, as do
push threads; an answer that arrives is heard by the whole group of calls that
share its key, which is one step of CallDecision.

**IncomingCallKeyProofs** rests on frame lemmas: what a step of one handler,
push thread or response leaves alone. The first three theorems assume
`OwnKeys`, that no two calls share a `unique_key`; two calls that share one
refute each (the second call's placeholder erases the first call's answer, and
its deadline is a later one). The last two are about timely servers (`PromptSpec`).
- `AnswerIsKept`: the invariant `NotFoundYet` says that before the placeholder of
  a call there is nothing under its key and no response has found it there, so
  a response that writes does so after the placeholder.
- `TurnedAwayLate`: `LateSpec => TurnedAwayAtTheEnd`, at any speed of the servers.
  In its loop a call's time left and the age of any of its pushes add up to at most
  the wait and `lag` (`PushesFit`): both clocks move with the same ticks, and a
  push that is repeated is younger. The same holds of a response's age, which was
  its push's (`ResponsesFit`); with `LagOK`, the type of `lag`, these are the
  invariant `AgesFit`. An age of the wait or more leaves at most `lag`.
- `AnswersHonoured`: an answer heard in time stays in the cache for longer than
  the call has left (`Keeps`), and the handler is at a point from which it will
  look again before its time is up (`Waits`).
- `RepeatsAreEarly` needs no `OwnKeys`. Each repetition comes exactly `Resend + 1`
  polls after the push before it, so the time left is known from the number of
  attempts (`OnTime`); arithmetic does the rest under `FewAttempts`:
  `Wait \div Resend <= Resend + 2`. The settings (400 and 100 polls of 10 ms)
  satisfy it easily. Without it the polls that each repetition comes late add up.

**MetricsExporterProofs**
- `TypeCorrect`: needs `TrimBelowPush`, or LLEN could be negative.
- `NothingLost`: `OneExporter => (Spec => []NoLoss)`. The invariant `LossInv` says
  that what LLEN saw is still in the list (`LengthFits`) and, before LTRIM, has
  been counted (`ReadCounted`). The assumption is necessary: the run
  Metrics_TwoExporters refutes it for two.
- `RecountsAreFew`: `Spec => []Recounts` (the property itself speaks of one
  exporter). The invariant `RecountInv` bounds how often each value can have been
  counted by where it is, cut rounds apart (`Due`): twice when it has been trimmed,
  once when it is the head of its list, never behind it; between LRANGE and LTRIM
  the bound is that of the list as LTRIM will leave it (`DueRead`). `NotPushed` says
  that a value to come has not been counted.
- `ImplementsQueue`: `OneExporter => (Spec => KeepsUntilCounted)`, each Push,
  Lrange and Ltrim being a step of MetricsQueue and all others stuttering.

**DeviceRegistryProofs**: one inductive invariant gives all four safety theorems.
`RowsMixBriefly` needs that a check-in holds a row that was in the table
(`CheckInsAreFresh`); `RemovedForGood` that a request which is about to save a row
still has one in the table, or is in `bereft` (`HeldOrBereft`); `LastRequestWins` that
requests in flight beside each other know of it (`Meetings`) and that a request
that met nobody finds the table as it left it (`Settled`).

**AppApiProofs**: `DeviceRequestsKept` says that authentication takes nothing
away from the registry's own theorems (`ApiSpec => Spec`). `OwnersWrite` needs
that the account a request compares was that of its credentials, and that a
request which is granted is in `owned`; `ReportsAreCountable` looks at the keys
of each entry, however the report was answered; `ApiTypeCorrect` is inductive with `at` and `account` together.

**PushDispatchProofs**
- `TypeCorrect`, `PoolKeepsApart`, `ValidLogsetsNeverRaise` and `BadHandlersGo`,
  for any number of threads, devices and logsets. `PoolKeepsApart` needs that
  the pool itself holds only connections of its keys; `ValidLogsetsNeverRaise`
  that a valid logset which a thread has found is in `handlers` for good.
- `ImplementsOutcome`: `Spec => EndsAsAssumed`. Log steps, the pool and the
  answers of a service that changes nothing stutter; the mark comes before the
  removal, and only a thread with an Android device gets there.

**ResponseStatisticsProofs**: sums and averages over a table are within reach since
`Sum` is a cardinality: the number of units of time in the rows (`Units`). Lemmas
say what it does for a union, and for rows of equal or greater times.
- `TypeCorrect` needs `ViewInv`: the page's range is that of its month, and there
  are no figures without a page.
- `QueriesAreAnswered`: of every table that can be, each query has a reply, so the
  choice in `Query` is never empty and the invariants are not true for lack of
  behaviours. It uses the library's facts on finite sets.
- `TotalsFit`: what the total has counted is, by `CountInv`, in the part counted
  since or in the one that is still to be counted, whose rows are still there: the
  total is asked for first, and nobody deletes a phone's rows. `LeastFits` is the
  mirror image: the least time is asked for after the average, whose rows stay
  (`AverageInv`). Neither holds of the platform whose rows the probes delete.
- `FiguresAreRight`: `Spec => []QuietFigures`, under the two conditions of the property,
  `LastDayIsBlank` and `NoProbeRows`; then what the code counts is what should be shown.
  While nothing is written, every figure is what its query would answer now (`QuietInv`), `last_day_of_month` is the last day of every month of 28
  to 31 days (`LastDayOfMonth`), and any window of fastest rows has the sum, the
  least and the greatest time of any other (`SumOfWindow`, `GreatestOfWindow`), so
  equal times do not matter.

Only model-checked: liveness (`EveryCallIsAnswered` and `EveryValueCounted`), which
is out of the prover's reach, and the four runs that end in a violation. Every
other property of every run is stated by a theorem.

## What the models leave out

- Wording and anonymising of log lines, and the log files.
- The data of calls, devices and metrics beyond what the handlers compare; the
  cluster behind Redis (one store here).
- The scrape of the counters by Prometheus, which loses what a stopped exporter
  had counted since the last scrape.
- The values in the entries of the metric lists, with what `str` and `literal_eval`
  make of them: web servers write what the apps post, and a value that cannot be
  read back ends the exporter (see the disagreements above).
- Changes made in the admin: rows of `ResponseLog` that are edited or deleted there,
  which `TotalAtMostParts` and `MinAtMostAverage` do not survive, and devices, which
  `OnlyOwnersWrite` does not count.
- How a web server runs its requests: they are threads that may switch at every
  access to something shared. The one gevent worker of `deploy/run.sh:39` switches
  at I/O only, so what Push_OtherLogset shows takes a server with real threads.
- Text messages: `task_notify_old_token` is their only use and is never called.
  Platforms and message types that no code passes, which would only be logged.
- Serializers and validators, whose refusal is an outcome of each handler
  (`Reject`, `RespInvalid`, `Invalid`); settings, URLs, migrations, templates.

## Plan

Done, in this order: IncomingCall with CallDecision, MetricsExporter with
MetricsQueue, DeviceRegistry, PushDispatch with Logentries and PushOutcome,
AppApi, ResponseStatistics, and the proofs above. What would come next:

1. Proofs: the safety part of `EveryValueCounted`, as `EachStepIsNearer` is that of
   `EveryCallIsAnswered` (a round never passes over a list, and a completed round
   leaves no value that was there at its start uncounted).
2. A property that ties the row a push thread removes to the token that was
   refused, once it is decided whose row may go.
3. The values in the entries of the metric lists.
