# Notification service: TLA+ models and proofs

The repository is a Go server that accepts notifications over HTTP, stores them in
PostgreSQL, routes each to the vendors configured for its event, and calls the vendors'
HTTP APIs from a pool of workers with retries through RabbitMQ. This directory holds TLA+
models of its core, the TLC configurations that check them, and TLAPS proofs of the main
safety properties. `PROJECT.json` maps every definition to the lines it models.

## 1. Inventory

| Component (source) | State | Operations | Interacts with | Must hold |
|---|---|---|---|---|
| Ingestion (`api/handler/ingestion.go`, `ingestion/service.go`) | none of its own | `Ingest`/`Submit`: validate, upsert, publish a trigger if new, read back | database, trigger queue | an accepted notification is dispatched once |
| Dispatcher (`routing/dispatcher.go`, loop in `main.go`) | locals of `Dispatch` | load, insert tasks, store DELIVERING, publish | trigger queue, database, delivery queue | one task and one message per routed vendor; never overwrites a worker's verdict |
| Worker pool (`delivery/worker.go`) | locals of `ProcessMessage` | fetch, call vendor, success / retry / dead letter, roll up, ack / nack | delivery queue, retry queue, database, vendors | bounded attempts; no message lost; verdict agrees with the tasks |
| PostgreSQL client (`db/postgres/db.go`, `migrations/`) | `notifications`, `delivery_tasks` | one autocommit statement per method | everyone | uniqueness per key and per (notification, vendor) |
| RabbitMQ client (`mq/rabbitmq/mq.go`) | three queues, one connection, one channel | declare, publish x 3, consume | everyone | at-least-once delivery |
| Server process (`cmd/notification-server/main.go`) | the goroutines | start, shutdown | all | a crash or a shutdown anywhere loses nothing that was published; a shutdown ends and cuts off no delivery before its timeout |
| Status query, listing (`handler/ingestion.go`, `db.go`) | none | two reads each | database | answers are consistent and complete |
| Backoff (`delivery/backoff.go`) | none | `calculateBackoff` | workers, retry queue | a delay the broker accepts; no retry early, none late without bound |
| Config loader (`config/loader.go`) | four maps, immutable after `Load` | load, cross-validate, look up | dispatcher, workers, ingestion | a broken file disables exactly what it describes |
| Mapping engine (`mapping/engine.go`) | none | build the vendor request | workers | no accepted payload breaks a contract that fits its schema |
| Schema validator (`ingestion/validator.go`) | parse cache | validate a payload | ingestion | accepts exactly the valid payloads |
| Ports, models, logger | none | none | - | - |

What is hard to test here: no two statements share a transaction; the queue and the
database are updated one after the other; several workers roll up one notification at the
same time from counts read earlier; messages are redelivered after crashes; errors are
partly swallowed and partly turned into rejections; the broker connection is never
re-established. The list with its lines is `hazards` in `PROJECT.json`.

## 2. Modules

```
NotificationStore        tables and SQL statements (db.go, migrations)
  Broker                 queues, publishing, dead-lettering, expiry (mq.go)
    Ingestion            request goroutines (Submit)
    Dispatcher           trigger consumer (Dispatch)
    WorkerPool           delivery workers (ProcessMessage)
      NotificationService    composition, crashes, lost connections, fairness
        ServiceProperties    what holds, and what the documents claim
          ServiceInvariant   the inductive invariants
            ServiceProofs        safety, with or without redelivery
              OnceProofs         single delivery; a bound on redelivered messages
            ServiceRefinement    the service implements NotificationLifecycle
              MCService          instances for TLC
          StatusQuery        GET /notifications/{id} on top of the service
            MCStatusQuery
            ClientViewProofs     refinement and status query (extends
                                 ServiceRefinement, StatusQuery, OnceProofs)
          Shutdown           signal, WorkerPool.Stop, timeout, exit
            ShutdownProofs       (also extends OnceProofs)
            MCShutdown
NotificationLifecycle    abstract: the life of a notification as a client sees it
RetryTiming              backoff arithmetic, next_retry_at, the retry queue in time
  TimingProofs
  MCRetryTiming
Listing                  GET /notifications, paging
  ListingProofs
  MCListing
JsonValue                values, strings as tokens, object keys
  ConfigLoader           Load, cross check, lookups
    LoaderProofs
  SchemaValidator        validateNode
  MappingEngine          BuildRequest
    ConfiguredDelivery       loader + validator with its cache + mapping engine
      DeliveryProofs         (also extends LoaderProofs)
      MCConfiguredDelivery
```

**NotificationStore.** A notification id stands for its (caller, idempotent key) pair, a
task is a pair (notification, vendor); "NONE" means there is no row. Each method of the
client is an action fragment with a parameter `r`, the answer: "ok", "fail" (error, not
applied) or "unsure" (error, applied). `sameTick` models the way `UpsertNotification`
computes `is_new`: `created_at = updated_at` is also true for a conflicting upsert within
the same microsecond. Columns no decision depends on (payload, errors, times) are left out.

**Broker.** The trigger and delivery queues are bags, the retry queue is a sequence because
RabbitMQ expires messages at the head of a queue only. A rejected message goes through
`notification.dlx` to the tail of the retry queue without an expiration. When a connection
ends, unacknowledged messages are queued again; trigger messages, published without a
delivery mode, are lost if the broker itself restarts. There are no publisher confirms, so
a publish on a lost connection fails or vanishes. External assumption: a persistent message
that the broker has queued survives the broker's restart.

**Ingestion, Dispatcher, WorkerPool.** One program counter per goroutine; each database
statement, publication and vendor call is one step, so everything interleaves between
them. Two simplifications: `Fetch` joins `GetDeliveryTask` and `GetNotificationPayload` (the
payload never changes, and both errors have the same effect), and the first SELECT of
`CreateDeliveryTasks` is joined with the first INSERT. Requests answered with 400 or 422
touch no state and are stuttering. Configuration is the constants `Routes`, `Deliverable`
and `MaxAttempts`; an event whose rules fail to load is one without rules, as in the code.
A vendor call ends in "success" (2xx), "retryable" (request cannot be built, transport
error, timeout, 429, 5xx) or "permanent". `accepted`, `published`, `attempts` and
`confirmed` are history variables: no action's guard reads them.

**NotificationService.** One server process. `Restart` kills every goroutine between any two
steps and starts again; `ConnectionLost` leaves the process running without a broker, as
the client never reconnects.

**NotificationLifecycle, ServiceRefinement.** The abstract specification knows only what a
client and the vendors can see: the status, the vendors a notification is meant for, those
that have confirmed it and those the service is done with. The refinement mapping takes
`targets` from the routing rules of the stored event, `confirmed` from the 2xx answers and
`finished` from the terminal rows of `delivery_tasks`. It is not the state machine that the
detailed design draws (2.1.1), where every verdict is final: `Revise` replaces a verdict by
another once a process or a connection has ended (`Disturb`), because that is what a redelivered
message does. Until then it allows nothing that the design does not.

**Shutdown** puts `main` after the signal and `WorkerPool.Stop` on top of the service. The
`select` of an idle worker may still take a message after `closeCh` is closed; when the 10 s
are over, the workers' context is cancelled and their statements fail (answers "fail" or
"unsure"); `Stop` waits for all loops, then `httpSrv.Shutdown` waits for requests until the
same deadline; the dispatcher is not waited for. `Crash` remains possible throughout. Workers'
statements fail here for no other reason than the cancelled context.

**RetryTiming** is independent of the service. `calculateBackoff` is computed in machine
integers of `Width` bits with a millisecond of `NsPerMs`, multipliers in halves and jitter in
tenths; a float out of range converts to the least integer, as Go does on amd64. Around it stand
the workers, the two queues and the stored `next_retry_at`: an attempt that ends in a retry
stores the time (`AttemptFails`, whose update may fail with or without effect), publishes the
message with the same delay later (`PublishDelayed`, which may fail or vanish) and settles the
original (`Settle`: a rejection puts it, without an expiration, into the same retry queue). A
lost connection or a restart gives back at once what the workers hold, and `ProcessMessage`
does not look at `next_retry_at`. The broker closes the channel on a negative expiration
(external).

**JsonValue, SchemaValidator, MappingEngine.** A number is counted in halves (what the code
tells apart is whether it is whole), a string is a sequence of tokens, a key a name with its
number of leading dollars; numbers outside int64 are left out. `ValidateNode` returns the
paths of the errors. `ResolveNode` follows `resolveNode` with its directives; whatever fails
is `Err`. `Acceptable` stands for `http.NewRequest`, which refuses a path with a bad escape:
values are put into the path as they are.

A function that calls itself in the code calls a parameter in the model (`ValidateChild`,
`GetNestedRest`, `ResolveChild`, `StringsChild`, and for the reference definitions
`ConformsChild`, `AssuredRest`, `WellTypedChild`), and the configuration binds the parameter
to the function itself (by way of `TheValidateNode` and so on in `MCConfiguredDelivery`). The assumptions `ValidateRecursion`, `MappingRecursion`,
`ConformsRecursion`, `AssuredRecursion` and `WellTypedRecursion` say just that, over the sets of
values, schema nodes, templates and paths that occur; TLC evaluates them on every one of the
`contracts` run. `Depth` is any measure that decreases from a schema or a template to its parts.

**ConfigLoader.** A directory is a set of files, read one action at a time in the order of
the four walks and of `os.ReadDir`; the files below a directory that `os.ReadDir` cannot list
(`unlisted`) are passed over, as in the code. The keys under which values and errors are kept are those
of the code, whose difference matters: a value goes under the `event_type` in the file, an
error under the name of the file. What `extractPayloadRefs` finds in a template is a
parameter, `ExtractPayloadRefs`: the theorems hold whatever it finds. **ConfiguredDelivery**
supplies it (`PayloadRefs`, from the strings of the template) and runs handlers on the loaded maps. The
lookup in the cache, the parse, and the store are separate steps. From acceptance on, the
configuration no longer changes and deliveries share nothing, so `Deliver` (the part of
`ProcessMessage` before the vendor is called) is evaluated for all routed vendors at once.

**StatusQuery** adds `GetStatus`, whose two reads interleave with all of the above. A failed
or cut-short second read gives an answer with some of the rows (`rows.Err()` is not
checked). **Listing** is independent of the service: a table that only grows, read page by
page by a client that stops at the first page shorter than the `page_size` of the answer. A
statement may fail (500, and the client asks again), or the cursor may break off in the middle of
a page, which `ListNotifications` does not notice: the answer is a 200 with fewer rows (`cut`). A
row may appear behind newer ones, because `created_at` is the start of its transaction. It
assumes that no two rows share a `created_at`.

Definitions whose comment begins with "Faulty variant" are not part of any specification:
each is a plausible mistake in the definition it names, used to see that the property that
should notice it does.

## 3. Runs that pass

| Run | Instance | Shows |
|---|---|---|
| `faults` | 1 notification, 2 vendors (2 and 0 `max_attempts`), 2 workers, 1 failing statement, 1 restart, 1 lost connection | `TypeOK`, `NoFalseSuccess`, `NoPrematureTerminal`, `NoSilentLoss`, `CopiesBounded`, `StatusNeverBack` |
| `once` | 2 concurrent submissions with events routed to two vendors, to none, and twice to the same one; 1 failing statement | `OneMessagePerTask`, `RollUpAgrees`, `AttemptsBounded`, `NotCalledAgain`, `LifecycleRefined` |
| `shutdown` | 2 vendors, 2 workers, two events, one vendor without a delivery spec; 1 signal or crash | `ClosingIsQuiet`, `ShutdownCompletes`, `NotRepeatedAfterExit`, `AcceptedTerminates`, `DispatchedTerminates`, `ConfirmedIsRecorded` |
| `answers` | the service with 1 worker, 1 failing statement, 1 restart, 2 status queries | `QueryTypeOK`, `TerminalAnswerIsComplete`, `AnswersMoveForward` |
| `pages` | 4 rows, page sizes absent, negative, 1 and over the limit (limits 2 and 3 instead of 20 and 100) | `ListTypeOK`, `NothingSkipped`, `PagesPartition` |
| `backoff` | 2 tasks, 2 workers, all pairs of 4 policies (two sane, without `max_delay`, jitter above 1), 8-bit durations with 2 units per millisecond, 4 ms, 1 lost connection or restart | `SaneKeepsChannel`, `NotBeforeNextRetryAt`, `LatenessBounded` |
| `contracts` | some 400 directories: 5 schemas by 13 contracts, and a sound directory with up to two files unreadable, incomplete, misnamed, contradictory or rivalled, or with a directory that cannot be listed; 5 payloads, 2 concurrent requests | `FailureIsContained`, `FailureIsReported`, `ServedIsOnDisk`, `VerdictMatchesSchema`, `WellTypedBuilds`, `NilOnlyFromOptional` |

Bounds. Notifications do not interact except in the queues, whose order matters only in the
retry queue, where two tasks of one notification already block each other; hence one
notification. Two vendors give all three verdicts and the race of two roll-ups; two workers
give every pairwise race, and a redelivered copy can run beside the original. Two attempts
reach the retry path and its end, 0 attempts the boundary. One restart in `faults` can fall
anywhere, combined with one lost connection and one failing statement in any order. The
bounds are the constants `MaxSubmits`, `MaxDbFaults`, `MaxRestarts`, `MaxConnLosses` and
`MaxQueries`, and the theorems need none of them. In `shutdown`, statements fail only through
the cancelled context, and 8 of them are more than the two workers can still execute. In
`backoff`, 4 ms are as long as the longest `max_delay` there, and 8 bits make a policy without `max_delay` overflow at the first retry, where 64
bits would need some forty. In `contracts`, two changes to a directory are what it takes for
files to dispute a key or to hide each other's errors; two requests are what it takes to
race on the cache. Workers are interchangeable, so the
safety runs use symmetry; the liveness runs do not. Deadlock checking is off because a
server with nothing to do waits.

`LifecycleRefined` is checked in `once`, where nothing is redelivered, to keep the run short;
`Revise` and `Disturb` do not occur there. The theorem `Refinement` covers crashes, lost connections
and redelivery. `StatusNeverBack`, in `faults`, has both halves: the edges of the design until a
message is redelivered, and afterwards still no way back to PENDING or DELIVERING.

Three properties have a precondition that the code forces on them. `NotBeforeNextRetryAt` holds
until a channel ends. `LatenessBounded` speaks of messages before which no rejected one waits.
`NothingSkipped` speaks of a client none of whose pages was cut short; `PagesPartition` adds that
on a table at rest the client can tell, because it has received fewer rows than `total` says.

Properties about redelivery-free behaviour (`OneMessagePerTask`, `RollUpAgrees`,
`AttemptsBounded`, `NotCalledAgain`) are stated under `NoRedelivery`: after a restart or a
lost connection they fail, as `recalled` shows for `NotCalledAgain`: a redelivered message
calls the vendor again, and its outcome may replace even a FAILED verdict. What replaces
`OneMessagePerTask` then is `CopiesBounded`: each end of a connection adds to a task at most
the messages its workers hold, and nothing multiplies what was added.

Fairness. Weak fairness of each request, of the dispatcher, of each worker and of the expiry
at the head of the retry queue. The Go scheduler runs every runnable goroutine; database
calls return, the vendor call ends after at most 10 s (`http.Client.Timeout`), and the
broker delivers and expires messages. Submissions, failures, restarts and the clock are not
fair. `Shutdown` adds weak fairness of `main`, of the timer and of
the branch of each worker's `select` that ends it: a task has a bounded number of attempts, so
a worker does not find messages for ever. Retries end by `max_attempts`, so no strong fairness of vendor success is needed.

## 4. Where the documents and the code disagree

Each of these runs checks one statement of a document, a comment or a test, and TLC finds a
behaviour of the code that contradicts it. The quotations are in `findings`.

| Run | Statement | What the code does |
|---|---|---|
| `nack` | an error requeues the message | `Nack(false, false)` parks it in the retry queue without a TTL, for ever |
| `resubmit` | an idempotent resubmission republishes the trigger | only a new row publishes one |
| `redispatch` | after a restart, processing continues | a trigger interrupted inside `Dispatch` is skipped or fails on existing rows |
| `recalled` | a vendor that succeeded is not called again | a redelivered message calls it again |
| `rollup` | a failed status update is retried through the queue | it is logged, and the message is acknowledged |

More were seen in the models and have no run of their own. DD is
`202605-notification-design-dd.md`.

- A verdict is not final. DD 2.1.1 (lines 139-150) ends the state machine at SUCCEEDED,
  PARTIALLY_FAILED and FAILED, and DD:162 says of the last two "终端状态，不自动恢复" (terminal, not
  recovered automatically). A message redelivered after a crash or a lost connection calls the
  vendor again, and the roll-up stores whatever verdict the tasks then have. `StatusNeverBack` and
  `Revise` say exactly when.
- A message with an expiration does not return after its TTL when it waits behind a message that
  `nack` has parked (`202605-notification-dev-plan.md:238` says it does); hence the precondition of
  `LatenessBounded`.
- `next_retry_at` is stored and never read: a message given back by the end of a channel is tried
  before it; hence the precondition of `NotBeforeNextRetryAt`.
- A contract with a bad `retry_policy` reads as "not configured": `loader.go:420` records the cause
  under a key with the file's extension. DD:1973 wants the lookup of a failed contract to return
  its error, DD:2324 the root cause. `FailureIsReported` states the answer the code gives.
- The files of a directory that `os.ReadDir` cannot list are skipped without a record
  (`loader.go:213` and `232`), where DD:1970-1973 wants the failure of every kind of file recorded.
  `FailureIsReported` speaks of the files the walk came to.
- `rows.Err()` is checked neither for the rows of a status query nor for those of a page, so both
  may be answered 200 with rows missing.
- DD:573 says that schemas follow JSON Schema Draft-07. `validateNode` reads a dialect of it: `null`
  passes for every type (as test case TC3.7-source_null expects), `minimum` and `maximum` bind `integer`
  and not `number`, and `minLength` and `maxLength` are parsed and never enforced. `Conforms`, the
  reference of `VerdictMatchesSchema`, is that dialect and not Draft-07.
- `$$k` in a template becomes `k`, not `$k` (`engine.go:185`; DD:723 and the comment above that line
  say `$k`), because `TrimPrefix` removes both dollars.

What the model needs to be told before a property holds is worth knowing as well. A schema
accepts `null` as an element of any array, so a conversion of `@{item}` can fail at delivery
for an accepted payload, and is retried until it is dead; `WellTyped` therefore trusts no
element. Nothing checks a retry policy: `Sane` is what `SaneKeepsChannel` has to assume, and
without `max_delay`, or with a jitter above 1, one retry closes the channel of all consumers.

## 5. Proofs

Every safety property that the passing runs check is proved for every value of the constants.
Nothing in the proofs depends on the bounds of the runs.

| Theorem | States | Module |
|---|---|---|
| `Invariance` | `Spec => []ServiceInv` | `ServiceProofs` |
| `TypeCorrect`, `SuccessIsReal`, `TerminalIsComplete`, `MessagesAreKept` | `TypeOK`, `NoFalseSuccess`, `NoPrematureTerminal`, `NoSilentLoss` are invariants | `ServiceProofs` |
| `Refinement` | `Spec => LifecycleRefined` | `ClientViewProofs` |
| `SingleMessage`, `BoundedAttempts`, `VerdictsAgree` | `OneMessagePerTask`, `AttemptsBounded`, `RollUpAgrees` are invariants | `OnceProofs` |
| `NoSecondCall` | `Spec => NotCalledAgain` | `OnceProofs` |
| `StatusStaysForward` | `Spec => StatusNeverBack` | `OnceProofs` |
| `BoundedRedelivery` | `Spec => []CopiesBounded` | `OnceProofs` |
| `ShutdownIsSafe` | the service's safety invariants hold through shutdowns | `ShutdownProofs` |
| `StopWaits`, `StopRecords`, `NoRepeatAfterExit` | `ClosingIsQuiet`, `ConfirmedIsRecorded`, `NotRepeatedAfterExit` | `ShutdownProofs` |
| `ChannelStaysOpen`, `NeverTooEarly`, `BoundedLateness` | `SaneKeepsChannel`, `NotBeforeNextRetryAt`, `LatenessBounded` | `TimingProofs` |
| `QueryTypeCorrect`, `AnswersAreComplete`, `AnswersProgress` | `QueryTypeOK`, `TerminalAnswerIsComplete`, `AnswersMoveForward` | `ClientViewProofs` |
| `ListTypeCorrect`, `PagingSkipsNothing`, `PagingPartitions` | `ListTypeOK`, `NothingSkipped`, `PagesPartition` | `ListingProofs` |
| `ServesWhatIsOnDisk`, `PartialAvailability`, `CausesAreFound` | `ServedIsOnDisk`, `FailureIsContained`, `FailureIsReported` | `LoaderProofs` |
| `FittingTemplateResolves` | for every schema, payload and template: a `WellTyped` template resolves against every payload that conforms | `DeliveryProofs` |
| `VerdictIsThatOfTheSchema`, `FittingContractBuilds`, `NilIsAllowed` | `VerdictMatchesSchema`, `WellTypedBuilds`, `NilOnlyFromOptional` are invariants | `DeliveryProofs` |

Every inductive invariant was checked by TLC on the instance of its component before it was
proved.

**The service** (`ServiceInv`). Assumptions: finite sets of vendors and workers, a typed
configuration, `None` distinct from ids. A worker writes the verdict of counts it read in an
earlier step, so `NoFalseSuccess` is not inductive: `WorkerKnows` records that a pending
verdict is still justified when it is written. It stays justified because the store only grows
(`StoreGrows`: rows do not disappear, terminal tasks stay terminal) and because no
row can be added any more: `MessageInv` says that messages exist only for notifications
whose rows are all there, which `DispatchInv` carries through the steps of `Dispatch`. Then
"counted terminal = total" means that every routed vendor is done (`CountsDecide`, from the
cardinality of finite sets), and "no dead letter" that every row is SUCCEEDED, which by
`ConfirmInv` needs a 2xx answer. `NoSilentLoss` follows action by action: what a worker
settles is terminal, confirmed, or has a copy in the retry queue already. There is one lemma
per action (`<Action>KeepsInv`) over a few frame lemmas: the effect of each SQL statement,
`DispatchStays` and `WorkersStay` for steps of someone else, `OneWorker` and `NothingLost` for
steps of one worker.

**Refinement.** `ServiceInv` supplies the guards of the abstract steps. It does not say that the
vendor of a message is one the notification is meant for, without which a 2xx answer would be
no `Confirm` step; `RoutedInv` adds that. That a verdict is given once, as `Close` demands as
long as nothing is redelivered, is not in `ServiceInv` either: `OnceInv` of the single delivery
below supplies it. Each action is then an abstract step or changes nothing the mapping reads.

**Single delivery** (`OnceInv`: `SingleDelivery` as long as `NoRedelivery`). The four properties
need each other. Attempts are bounded because the count a worker compares is the stored one
(`WorkerStage`), which is so only if nobody else works on the task (`Alone`); there is one
message only if the dispatcher publishes each task once (`PublishInv`) and a failed step leaves
its message in one place; a parked message (no TTL) never comes back, so only those that do
must be `Triable`. A verdict agrees for good (`VerdictsInv`) because a terminal task has no
message left that could change its row; with `StatusStaysForward` no status leaves the edges of
the design.

**Redelivery** (`CopiesInv`, on top of `ServiceInv`). `PublishInv` needs no `NoRedelivery`: a
trigger that comes back finds DELIVERING or existing rows, so every task is published once,
and a task that was never published has no message anywhere. From there each step is
accounted for place by place (delivery queue, retry queue, workers). Receiving, delaying,
rejecting and expiring move one message: a `PublishDelayed` that reached the broker returned
no error, so its worker acknowledges the original; taking the head off the retry queue shifts
the positions of the others (`WaitingTail`, by a bijection). Only the end of a connection
adds, at most one message per worker.

**Shutdown.** Each step is a step of the service or changes none of its variables
(`ShutdownStep`), so `ServiceInv` carries over. For `NotRepeatedAfterExit` the invariant is
`GracefulInv`: a process that ends within the timeout is replaced by `Restart`, after which
`NoRedelivery` is false; but Stop has waited for every worker (`StopInv`), no message is
unacknowledged, and so `SingleDelivery` itself survives. `ConfirmedIsRecorded` needs `RecordInv`: as
long as no process ended abruptly, a confirmed task is SUCCEEDED or a worker is about to store
that, and no other worker is about to store something else, by `SingleDelivery` again.

**Timing** (`TimingInv`). Two arguments beside the types. `LateInv`: delayed messages stand in the
retry queue in the order of publication (`OrderInv`), and with sane policies each is due at most
its own `max_delay` after it was sent (`SaneMessages`, which rests on `SaneWorkers`: the delay a
worker is about to publish is within 0..`max_delay`). The clock does not pass a head that is due,
and the head was sent before whatever waits behind it: hence the bound, through any number of
lost connections and restarts. `EarlyInv`, as long as no channel has ended: the next attempt of a
task is in one place only, the delivery queue, a worker about to publish or the retry queue
(`OnePlace`), and there it is not before the stored time (`OnTime`). That
truncation, wrap-around and jitter of `calculateBackoff` stay within 0..`max_delay` is a chain of
lemmas about integer division. `PowersAssumption` states that the powers that occur are
integers with the obvious signs: the provers do not interpret `^`. TLC evaluates it.

**Status query** (`QueryInv`). What the first read returned remains true until the second
(`ReadInv`) and so does what an answer has shown (`AnswerInv`), because no step of the service
takes a status or a row back.

**Listing** (`ListInv`). `SeenInv`: of the rows the client started with, all within the positions
it has read were given to it; a commit only moves rows to later positions, so the offset of the
next page never passes one. A page that is cut short is the last the client reads
(`ClientInv`), and leaves it with fewer rows than `total` (`CutInv`). The rest is arithmetic of
pages. Assumption: positive page sizes,
the default within the maximum.

**Loader** (`LoaderInv`). Every entry of a map is the record of a file that has been visited
(`RecordedInv`), every visited file has an entry, its own or a rival's (`PlacedInv`), and the
walk visits the files in a strict total order, so that there is always one next file
(`CurrentIsNext`). The cause in a record is that of its file, and a rival's record is excluded by
`Alone`; so the cause found is the cause there was. `DirectoriesAssumption`: one file per path, a path as deep as its kind
says, a vendor file for each contract. In `ConfiguredDelivery` every step is a step of the
loader or leaves its variables alone, so the three properties hold there as well.

**Validation and mapping** (`DeliveryInv`: `LoaderInv` and three parts). A loaded contract is
entered only after its references have passed the cross check (`CheckedInv`); the cache holds,
under each event, the parse of that event's schema (`CacheInv`); a handler beyond the lookup
holds the node of its own event, and its verdict is that of `ValidateNode` (`HandlerInv`). Since
the maps no longer change once requests are served, a request that raced for the cache stores
what any other would have stored. The provers have no induction over nested data; in its place
stands "no least counterexample": the set of depths of schemas (or templates) for which the
claim fails is a set of naturals without a least element, hence empty (`ValidatorIsExact`,
`FittingTemplateResolves`), and likewise for the lengths of paths (`PathsLead`). One lemma per
kind of node does the step. Assumptions: values, schemas and templates are built from their
parts as JSON is (`ValueAssumption`, `SchemaNodeAssumption`, `TemplateAssumption`,
`PathAssumption`), with parts less deep than the whole; the files and the requests hold such
values (`ContentAssumption`); and each recursion parameter is the function itself (section 2).
They hold of every finite JSON document, whatever the sets are.

**Only model-checked.** `AcceptedTerminates`, `DispatchedTerminates` and `ShutdownCompletes`:
liveness under fairness is out of the prover's reach.

## 6. Not modelled, and what is left

No safety property that a run checks is left without a theorem. What could still be said about
the system and is not: a bound on the vendor calls, not only on the messages, when messages are
redelivered (copies of one task overwrite each other's `retry_count`), and which verdicts may
replace each other then.

Left out for good: logging, response bodies and their wording; `topology.go`'s retry slots
(used by no code), `validate` on bytes and `GetEventSchema` of the database client (tests
only); the response judgment, which the loader copies and the worker never reads; `base_url`
and the values of headers; the ports and models (declarations only). Rows with equal
`created_at` in `Listing`, and several server processes on one database, are outside the models;
so is a configuration that changes between the acceptance of a payload and its delivery.
