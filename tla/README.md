# nomad-firehose in TLA+

This directory models [nomad-firehose](../src/README.md): a program that watches one
kind of Nomad object, emits an event for what changed, and hands the events to a sink.
Several processes may run the same firehose; a Consul lock decides which one works, and a
Consul key, the *restore point*, says how far it got.

Sources are named by their paths under `src/`; line numbers are those of the commit modelled.

## 1. Inventory

| Component | State | Operations | Talks to |
|---|---|---|---|
| manager, `helper/manager.go` | `stopCh`, `voluntarilyReleaseLockCh`, `lockErrorCh`, the Consul lock and its session | `Start`, the acquisition loop, `acquireConsulLeadership` (lock, restore, `go runner.Start`, select, deferred stop and unlock), `cleanup`, `signalHandler` | Consul (lock, session, KV), the runner |
| runner lifecycle, `command/*/app.go`, `jobs/base.go` | `stopCh`, `lastChange...`, a one-slot update channel | `SetRestoreValue`, `Start`, `Stop`, `persistLastChangeTime` | manager, sink |
| watch of nodes, deployments, jobs, jobliststubs, evaluations | `q.WaitIndex`, `lastChangeIndex`, `newMax`, fetch goroutines | list, filter, fetch (`Info`), publish, commit | Nomad API, sink |
| watch of allocations | the same, with times for indices | list, filter by event time, publish, commit | Nomad API, sink |
| one-at-a-time sinks (redis, nsq, kafka, kinesis, http, mongodb, rabbitmq, syslog) | `putCh` (1000), writers | `Start`, `Put`, `write`, `Stop` | the destination |
| batching sinks (sqs, eventbridge) | `putCh`, a buffer of ten, `batchCh` (100), message ids | the same, and `batch`, `sendBatch` | AWS |
| stdout sink, syslog on Windows, `GetSink`, `main.go`, packaging | none that lasts | | |

How they interact: the manager and its signal handler share two channels; the manager spawns
`Start` and calls `Stop`, which share the runner's `stopCh`; watch and the persister share the last
change; the persister sends it to the manager, which writes it to Consul, where the next
process finds it; watch and the fetch goroutines fill the sink's queue, and `Stop` waits for that
queue. Nothing tells watch or a writer to stop: they end with the process.

What makes each part correct:

- **manager**: one leader; the restore point never passes what was not handed on, whoever
  writes it; stopping works from every state; `Stop` closes an open channel once.
- **watch**: no change is passed over, in spite of stale lists, coalesced changes and
  restarts; versions are emitted in order; an object that stays as it is gets emitted.
- **sinks**: an item has one fate, order is kept where there is one writer, `Stop` drains and
  returns; no item is lost in a buffer, a batch or a retry.
- **all together**: what a process takes with it when it ends is bounded, and the next one misses nothing else.

The behaviours that are hard to test are listed in `PROJECT.json` under `hazards`, each at its line.

## 2. Modules

| Module | What it models |
|---|---|
| `Runners` | the firehoses' lifecycle profiles: what `stopCh` is born as, whether `Start` remakes it; the program's `Commands` |
| `Manager` | several processes: main goroutine, signal handler, runner goroutines, Consul, crashes |
| `Leadership` | abstract: one leader at a time, and a restore point that only it moves, forward, over published changes |
| `IndexWatch` | one watch goroutine that follows a Nomad index, with its fetches, saves and restarts |
| `Feed` | abstract: emitted versions existed; the restore point moves forward over delivered changes |
| `AllocWatch` | the allocations watch, which compares event times |
| `Sinks` | profiles of the sinks: how many writers, whether a writer opens something first, whether `Stop` closes the connection, whether a send that succeeds was checked by the destination; for those that send batches, whether they split them and whether items carry ids; `GetSink` |
| `QueueSink` | queue, writers, failing sends, `Stop`, the end of the process |
| `BatchSink` | sqs and eventbridge: queue, buffer, ticker, batches, requests and their answers, ids, `Stop`, restarts |
| `Pipeline` | `IndexWatch` and `QueueSink` composed, with the save of the last change and a restart: from Nomad to the destination |
| `Delivery` | abstract: one fate per accepted item, order where a single writer sends one item at a time |
| `...Proofs` | theorems about `Manager`, `IndexWatch`, `AllocWatch`, `QueueSink`, `BatchSink` and `Pipeline` |
| `MC*` | model values, and symmetry where it is sound, for TLC |

Operators whose comment begins with *Mutant of* are broken variants of the definition they precede.
No specification uses them; each is there to show that a property notices the bug.

### Manager and the code

A process is its main goroutine (`pc`), its signal handler (`sig`) and, for every tenure (each time
it acquires the lock), a watch goroutine (`watch`, `newMax`) and a persister (`sending`). `pc`:

| `pc` | in `helper/manager.go` |
|---|---|
| `loop` | the select of the acquisition loop (69) |
| `lock` | inside `Lock` (123) |
| `restore` | from the new release channel to `go runner.Start` (134-139) |
| `lead`, `save` | the select (157); the KV write of an update (174) |
| `stop`, `drain` | the deferred `runner.Stop` (144): its close, its `sink.Stop` |
| `unlock`, `fail` | `Unlock` (146); an error on its way to `log.Fatal` |

Modelling decisions:

- Nomad's changes are numbers in the order Nomad made them; `published` holds those a watch handed on.
  A list that changes neither `newMax` nor the last change is no step.
- `RunnerStart` joins the `go` statement's `Start`, its `stopCh` assignment and watch's first read of the
  last change. In between, only `Stop` could run, and it is interleaved before and after.
- The persister's two cases send the same value; after `stopCh` is closed its `break` leaves only the select,
  so it goes on sending. That is `PersistTick`, whose guard therefore does not mention `stopCh`.
- `SinkStopped` takes for granted that the sink's `Stop` returns. `QueueSink` shows when it does.
- An error of `NewClient`, `LockOpts` or `SetRestoreValue`, and an update of an unknown type, cannot happen
  with the types the runners use.
- Consul is external: a lock is free when its session ends (`SessionLost` for a live leader), and
  `MonitorGivesUp` closes the error channel when the lock is lost or the monitor's retries are used up.

### IndexWatch, AllocWatch and the code

`log` is Nomad's history of one table; a list shows the table as of any index so far (`AllowStale`). `todo`
is the part of a list that the filter selects: the filter reads the last change, which stays as it is until the
loop's body ends (`Commit`). `Watch` chooses between the two filters in the code (`newer`, and the equality of
evaluations) and between emitting the stub and fetching the object. `Persist` stands for the way of the last
change to Consul, in `Manager`; `Restart` for any end of the process and its successor. In `AllocWatch` an event
is the index at which the servers learned of it and its time is free: `InStep` says that times agree with it.
A query that fails is repeated after ten seconds and changes nothing. Nomad's trimming of old task events is not modelled.

### QueueSink and the code

`Put` blocks on a full queue; a writer takes, sends, and logs a failure without trying again. `Stop` polls the
queue; then the process ends (`ProcessEnds`) and takes with it what is in the queue and in hand. The
close of the sink's own `stopCh`, which no writer reads, has no effect on the model; the close of the connection (redis, mongodb,
rabbitmq) does: once `Stop` returned, a send that is under way may fail (`SendFails`), one that begins then does (`TakeClosed`), and a
rabbitmq writer that starts late cannot open its channel. `SendRefused` is a send that succeeds although the item does not reach its destination: http does not
read the response's status, rabbitmq publishes without confirms and not `mandatory`, syslog has no answers. The second start of a sink,
in a second tenure, is not modelled. `Send` is the item's first arrival: what the destination's own client library
repeats on its own (sarama, the AWS SDK) is left out here, and looked at in `BatchSink`.

### BatchSink and the code

| State | In `sink/sqs.go` (and the same in `event_bridge.go`) |
|---|---|
| `putCh`, `batchCh`, `stop` | the channels; `Stop` (78) |
| `buffer`, `batcher` | `batch`'s local buffer (97); `"full"` is the blocking send to `batchCh` (106, 117) |
| `writer`, `entries`, `id` | `write`: which of the two calls of `sendBatch` (147, 150), the entries still to send, the counter (127) |
| `delivered`, `repeated`, `seen` | the service: what it stored, what it stored again, the ids it knows |
| `patched` | records that a request was sent again of which the service had taken a part only |
| `queued`, `dropped`, `refused` | what the log says was sent (154, 164), what failed, what the response names as refused and nobody reads (171) |

`Receive` and `Tick` are the two cases of `batch`'s select, and `Tick` includes its `continue`. A request ends in `SendOk`, in which the
service refuses any part of the entries (`partial`), in `SendFails`, or in `SendTooLong`; before that the SDK may send
it twice (`SendAgain`), whereby the service may take any part of it each time. `Answered` is what follows either way: the next entry of a split batch, or the next
batch. A request that failed although the service took it is a `SendAgain` and a `SendFails`. `Forget` is the end of SQS's deduplication
interval; a request is answered within it. The ids are those of one firehose on a queue of its own. `repeated` has an
invariant for sqs only, since eventbridge has no ids.

### Pipeline and the code

Each action is an action of `IndexWatch` (`W`), of `QueueSink` (`S`), or one of each that the code takes together: `Publish` is
`Visit`, which puts the version in the queue, and waits while the queue is full. `Persist` is the way of the
last change to Consul, which ends when the manager leaves its select (`manager.go:178`) to call `Stop`. `End` and `Resume` are
the end of the process and the start of the next one, which has an empty queue and resumes from `saved`. `version`
and `lost` only record: which version an item is, and which items below the restore point went with a process.

## 3. Runs

All runs together take about nine minutes with two workers.

| Run | Bounds | Shows |
|---|---|---|
| `manager_faults` | 2 processes, 2 changes, 3 starts; lost sessions, failing locks, reads, writes and unlocks, kills; deployments | `NothingSkipped`, also with two processes that believe they lead |
| `manager_live` | 2 processes, 1 change, 2 starts; failing unlocks, kills, signals; allocations | `OneLeader`, `NoPanic`, refinement of `Leadership`; `LeaderStops`, `CatchesUp` under fairness |
| `manager_standby` | 2 processes, 1 change, 2 starts; signals only; evaluations | **violated** `RunsUntilStopped` |
| `watch_stubs` | 2 objects, 4 changes, 1 restart; jobliststubs | refinement of `Feed`, order, `EventuallyEmitted` |
| `watch_fetch` | 2 objects, 3 changes; nodes, deployments, jobs | `NothingPassedOver`, `EventuallyEmitted` |
| `watch_evaluations` | 1 object, 2 changes | **violated** `EventuallyEmitted` |
| `alloc_events` | 3 events, 4 times, 1 restart | each event once; none lost where they arrive in step |
| `alloc_late` | 2 events, 2 times | **violated** `EachEventEmitted`: times 2, 1 |
| `sink_three_writers` | queue of 2, 5 items; failing and unnoticed sends, failing dials, 3 writers; rabbitmq | refinement of `Delivery`, `LostAtStop`, `StopEnds` |
| `batch_sinks` | queue of 1, batches of 2, 1 batch queued, 4 items, 1 restart; every fault; sqs and eventbridge | refinement of `Delivery` (one fate), `OrderKept`, `AtMostOnce`, `Accounted`, `StoredInFirstProcess`, `LostAtStop`; `Flushed` under fairness |
| `batch_restart` | 2 items, 1 restart, no fault; sqs | **violated** `QueuedMeansStored` |
| `pipeline` | 2 objects, 3 changes, queue of 1, 3 items, 1 restart; failing dial, failing and unnoticed sends, kills; syslog | `LossBounded`, `ResumesWhereItLeftOff`, refinement of `Delivery` in order |

Why the bounds are enough: two processes are all that a lock tells apart, and three starts give a
leader, its rival and a restart of either. Two changes let the restore point be behind, between and up to date; one is
enough for the liveness runs, where only being behind matters. Every invariant, action property and refinement of these
runs is also proved for every bound (section 4), so that the bounds matter to the liveness properties alone. Four changes of two objects give every order of set,
set again, delete and set again around a list and a stale list. A queue of two is empty, part full and full, and five
items are two more than the queue and a writer hold. In `batch_sinks` four items fill a queue, a buffer of two and one
batch, or come as batches of one and two; two items per batch are enough for one to be refused, or to fail, and not the
other, and one restart makes ids collide. In `pipeline` a queue of one and a writer with one item are all that can be lost, and
three changes put one beyond them. `MaxTenures = 1` leaves out the run of a process that acquires the
lock a second time, which takes a stall of 250 ms between the two closes of `cleanup`, or a timer that wins
over a closed `stopCh` on return; `NeverSkips` (below) covers it.

### Fairness

`Manager`: goroutines that can go on do (weak fairness). Go's select picks among ready cases at random, so
a stop case that is ready again and again is taken (strong fairness). A supervisor restarts the process while starts are
left, a dead session expires, and Consul gives a free lock to one of those who wait. No fault and no signal is fair.
`IndexWatch`, `AllocWatch`: steps of watch are weakly fair; the up-to-date list is strongly fair, for a server that stays behind
for ever would hide changes for ever. `QueueSink`: writers, `Put` and `Stop` are weakly fair; the number of items is
bounded, so `StopEnds` does not say that `Stop` ends under an endless stream. `BatchSink`: its two goroutines are weakly
fair, which includes that a tick comes and that a request is answered; no fault, restart or `Put` is fair.

### What the violations show

- `manager_standby`: `Lock` is given `lockCh`, which nothing sets. A standby does not see its closed `stopCh`, although
  `helper/manager.go:61` says that the loop "will run until the stopCh is closed".
- `watch_evaluations`: an evaluation is emitted only if its index equals that of the list before, so one that
  changes last is not emitted, although `README.md:167` promises "a firehose event per change".
- `batch_restart`: the deduplication ids count from 0 in every process. A process that starts within SQS's deduplication interval
  logs `queued %d messages` (`sink/sqs.go:164`) for messages that SQS accepts as repetitions and does not store, and the last
  change moves past them.
- `alloc_late`: the event with time 2 is emitted, and the one with time 1, which reaches the servers after it, is skipped, although `README.md:112` promises
  each task state as an event.

Known of the code, not checked by a run of its own: a leader that is interrupted leaves the select that receives updates before
it stops its runner, so the last value is not saved, although `README.md:42` says "saved on quit" (`LossBounded` shows what
is good about it); `README.md:95` speaks of a `mongo` sink, and `GetSink` accepts `mongodb` only;
firehoses that share an SQS queue use the same ids, and so lose messages without a restart; entries that SQS or
EventBridge refuses are logged as queued and gone (`sink/sqs.go:171` does not read which they are), as is an event that an http server answers with an error; a request that was stored in part and is repeated
puts its refused entries behind later ones of the same batch; an event of an allocation with the very time of the last change is skipped, too, if it comes later; a request that the SDK repeats is stored twice by EventBridge; `Stop` of the
batching sinks leaves up to 102 batches to be lost with the process; `Stop` of deployments may close a nil channel (`NoPanic` fails with
`DeploymentsRunner`); a failed read of the restore point makes the process start from 0; objects being
fetched when the last change is saved are lost with the process; two changes between two lists give one event;
rabbitmq or syslog writers of which none can open its channel leave `Stop` waiting for ever (`StopEnds` asks for one); watch goes on after `Stop`.

## 4. Proofs

Every invariant, action property and refinement that a passing run checks is also a theorem, for every value of the
constants. What each theorem rests on is stated at the end of the component's module, as named invariants, which TLC
checked on the bounds of the runs before they were proved.

`ManagerProofs` holds five theorems, for every set of processes and every bound:

- `TypeCorrect`: `TypeOK` is not inductive. `Save` writes what is in the main goroutine's hand, and `Lock` counts a
  tenure: `MainInv` adds that the hand is full in `save` and that a tenure is left in `lock`.
- `NeverSkips`: `NothingSkipped` speaks of `saved` alone. `CoveredInv` says the same of every value on its way there
  (`newMax`, the last change, the value being sent, the channel, the hand), and is inductive given the types. It holds
  for any number of tenures and all faults.
- `AtMostOneLeader`: `LeaseInv`, that who is in a tenure has the lock, is inductive if `"session"` is no fault.
- `ImplementLeadership`: each action maps to one of `Leadership` or a stutter; `Leader` is the process in a tenure, unique by
  `OneLeader`. That the restore point only moves forward needs `ForwardInv`: the values on their way to it (hand,
  channel, the value being sent, last change, `newMax`) are older the nearer they are, and there are none before a tenure.
  It is inductive if `"session"` and `"get"` are no faults (else the value may go back) and `MaxTenures <= 1`.
- `StopsOnce`: `StopOnceInv`, that the channel is open up to the tenure's `StopRunner`, is inductive if the channel is
  born open and `MaxTenures <= 1`.

`IndexWatchProofs` holds four, for any set of objects and any number of changes and restarts:

- `TypeCorrect`: with `KnownInv`, that whatever is listed, fetched or emitted is a version that Nomad had, and a fetch is as
  recent as what was listed. `ModifyIndex` is a maximum over the history: `MaxInSet` shows from the well-founded order
  of the naturals that `Max` returns it.
- `MissesNone`: `NothingPassedOver` becomes inductive with what a list leaves behind while it is visited (`CoverInv`) and with the
  order of restore point, last change and `newMax` (`AheadInv`). The core is `ListShows`: whatever index a list has, a change up
  to it is not after the last change, or is followed by a deletion, or its object is selected, as recent as the change.
  Hypothesis `Lossless`: the filter is `newer`, and if objects are fetched no fetch fails for one that exists and no process
  ends with its fetches, for in the code these are lost.
- `InOrder`: `EmittedInOrder` from `OrderInv`, that what is left to visit is later than what was emitted of the same object. For a
  watch that emits what it lists: two fetch goroutines have no order in the code.
- `Implements`: for such a watch, `Visit` is `Feed`'s `Emit` and `Persist` its `Save`, which `CoverInv` and `AheadInv` allow.

`AllocWatchProofs` holds three, for any number of events, times and restarts:

- `TypeCorrect`: with `KnownInv`, that no list shows what Nomad does not know.
- `NoneTwice`: `EmittedOnce` from `RoundInv`: nothing the process emitted is newer than `newMax`, and what is left to visit is newer
  than the last change and not emitted yet. No hypothesis on the order of events.
- `RestartLosesNone`: `SavedMeansEmitted` has `InStep` in it, which a later event may end but never begin. `InStepInv` says
  the same of the last change and of the list being visited; `ReachedInv`, that the last change, `newMax` and the restore point are
  times of emitted events, is why a new event, being newer than these, is passed by none of them.

`QueueSinkProofs` holds three, for every sink profile, any number of writers, any capacity and every fault:

- `TypeCorrect`: the types, with `HandInv` (who sends has an item in hand), without which a send could append anything.
- `StopDrains`: `LostAtStop` counts items, and follows from where they are. `QueueInv` says that the queue holds the last items
  that were put, in order, so that the writers have taken `1..Taken`; `HeldInv` that each of those has met its fate or is
  in a writer's hand; `DrainInv` that `Stop` returns only once what it waited for was taken. What is left maps
  into the hands, of which there is one per writer. A send after `Stop` closed the connection settles its item like any other that fails.
- `Implements`: `FateInv`, that no item meets two fates (delivered, dropped, refused unnoticed) or is in two hands, gives `Delivery`'s `OneFate` in every state,
  and `OrderInv` its order if there is one writer; each action maps to `Accept`, `Settle` or a stutter.

`BatchSinkProofs` holds seven, for both sinks, any capacity of queue, batch and `batchCh`, any number of restarts and every fault:

- `TypeCorrect`: that no batch is longer than `BatchSize` needs to know when the buffer is handed over, and which entries a
  request sends. The items of a process are divided by four numbers, `Received`, `Sent`, `Taken` and `Done`; `FlowInv` says that the
  queue, the buffer and the entries hold exactly the items between two of them, in order, `BatchesInv` that the batches do,
  one after the other, `GoroutineInv` when each goroutine waits. Together they are `WayInv`, which is inductive.
- `StopBoundsLoss`: what batch received and write has not taken is in the buffer or in `batchCh`, so `Batched` is an interval, whose
  length the sizes of the batches bound.
- `AllAccounted`, `Implements` and `KeepsOrder`: `FateInv` says that write is done with items that met one fate or were reported, and
  that the service has nothing from beyond the current request; so what it stores next may be behind later items of that request, and of no
  other. That happens only once a request was sent again of which it had taken a part (`patched`). Up to then, `RequestInv` says that a request
  has either reached the service, so that sending it again stores nothing new, or not at all.
- `StoredOnce` and `FirstProcessStores`: `IdInv`, that the service knows the id of every entry it stored, also when its
  batch is split, and in the first process the ids of no other items.

`PipelineProofs` holds four, for any objects, sink, capacity, writers, faults, and any number of changes and restarts:

- `TypeCorrect`: every step of `Pipeline` is a step of `IndexWatch` and, but for `Resume`, one of `QueueSink` (`ComponentSteps`), so the lemmas
  about the steps of both apply as they stand. They are cited through the instances `WP` and `SP`, which
  `SameTable` to `SameDelivery` equate with `Pipeline`'s `W` and `S`. `Resume` keeps `SinkInv` by a proof of its own.
- `LossIsBounded`: an item in flight is in the queue or in a hand. `StopInv`, that what was put since `Stop` was called is beyond the
  restore point, holds because a version is put before the last change reaches it and is not saved during `Stop`.
- `Resumes`: `SavedInv` speaks of a change as *reached up to m* by an item whose version is at most `m`. With `m` the restore point,
  such an item is among `Exposed` if it is in flight when the process ends, and so counted in `lost`. The last change and the list being
  visited need the same, with `newMax` for `m`; a list is covered by `ListShows` of `IndexWatchProofs`.
- `Implements`: `ImplementsStep` of `QueueSinkProofs`, and `Resume`, which delivers nothing.

The proofs use the modules' assumptions on their constants and the hypotheses named above only; each has one case per action.

What stays with TLC: the liveness properties (`LeaderStops`, `CatchesUp`, `EventuallyEmitted`, `EmittedInStep`, `StopEnds`, `Flushed`), for
fairness and `ENABLED` are out of the prover's reach, and the four violations.

## 5. Plan

What is left to prove:

1. `Pipeline`: what all its processes together lose for good (`lost`) is bounded by their number and what one can lose.
2. What holds of the firehoses outside the hypotheses above: for those that fetch, which changes a restart may lose;
   for evaluations, which versions are emitted.
3. `Manager` with several tenures: which part of `ImplementsLeadership` and of `NoPanic` is left.

Not modelled, and not planned: the command line's flags and log formats, the constructors' environment
variables and the error of an unknown `SINK_TYPE`, JSON encoding (an encoding error is logged and an empty message published), the Windows stub, packaging. They
keep no state that the properties tell apart. Wall-clock time appears only as the order of steps.
