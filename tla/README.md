# A TLA+ model of fluxo

fluxo is a workflow engine in Go. A workflow is a list of steps; an instance of
it is stored after every step, so that it can be resumed, signalled and
recovered after a crash, by any engine process that shares the store. Work is
handed to worker goroutines through a task queue that leases tasks to them.
This directory models the engine, the five instance stores, the five task
queues, the workers between queue and engine, the local runner, and the steps
that fork: parallel ones and child workflows. Paths below are relative to `src/`.

## 1. The system and what is modelled

| Part | Code | Module | State |
|---|---|---|---|
| Engine | `internal/engine/engine_impl.go` | `Lifecycle`, `Engine`, `EngineProofs` for one instance in detail; `Deployment`, `DeploymentInvariant`, `DeploymentProofs` for several instances, processes and definitions | modelled |
| Persistent instance stores | `internal/persistence/sqlite_store.go`, `postgres/`, `redis/` and `mongo/internal/persistence` | `InstanceStore`; `Engine` (section "The store") | modelled |
| In-memory store | `internal/persistence/memory_store.go` | `InstanceStore`, `Deployment` | modelled |
| Registry and fingerprints | `engine_impl.go`, `memory_store.go`, `pkg/api/workflow.go` | `Deployment` | partly: the hash is a model value |
| Queue interface | `internal/taskqueue/taskqueue.go` | `LeaseQueue` | modelled, as the abstract specification |
| In-memory queue | `internal/taskqueue/inmemory_queue.go` | `InMemoryQueue`, `InMemoryQueueProofs` | modelled |
| SQLite queue, MongoDB queue | `internal/taskqueue/sqlite_queue.go`, `mongo/internal/taskqueue/mongo_queue.go` | `DatabaseQueue`, `DatabaseQueueProofs` | modelled |
| Redis queue | `redis/internal/taskqueue/redis_queue.go` | `RedisQueue`, `RedisQueueProofs` | modelled |
| PostgreSQL queue | `postgres/internal/taskqueue/postgres_queue.go` | `PostgresQueue` | modelled |
| Worker | `pkg/worker/worker.go` | `Worker`, `WorkerProofs` | modelled for the tasks of one instance; start tasks without an instance in `LocalRunner`, which leaves out what they create |
| Local runner | `local_runner.go` | `LocalRunner`, `LocalRunnerProofs` | modelled |
| Step combinators, retry | `pkg/api/workflow.go`, `steps.go`, `retry.go` | `Engine` (waiting steps, attempts), `Parallel`, `Children` | partly |
| Event history, observer, codecs, builder, bundles, examples | | | not modelled, see section 5 |

How the parts interact. `Start` stores an instance as PENDING and enqueues a
task; a worker dequeues the task under a lease that a heartbeat renews, calls
`RunInstance`, and answers with Ack or Nack. `RunInstance`, `resumeInline` and
`signalInline` load the instance, acquire the *instance* lease (a second lease,
in the store), write the instance back as RUNNING, and run `executeSteps`. That
loop renews the instance lease, skips steps with a stored result, and stores
the instance after each step. `RecoverStuckInstances` turns RUNNING instances
into FAILED ones so that they can be resumed.

## 2. The modules

### Engine

State: `row` is the stored instance (status, CurrentStep, StepResults, Input),
`lease` the stored lease (owner, and whether it has expired), `call` the locals
of every goroutine inside an engine method: its program point, its own copy of
the instance, the lease fields that copy was loaded with, the loop variables.

Every statement or script sent to the store is one action; the code between
two of them touches only the call's own copy. A step function is invoked in one
action and returns in another, so other calls may act in between.

| Actions | Code |
|---|---|
| `Run`, `Start`, `RunInstance`, `RunInstanceRefused`, `Resume`, `SignalNow`, `SignalBegin`, `RecoverBegin` | the entry points up to their first store access; `...Refused` is the strict fingerprint check that fails |
| `SignalStore`, `RecoverStore` | the write that ends `Signal` in queue mode, recovery, and a refused `RunInstance` |
| `GetInstance` | the inspection method, which releases the engine's own lease |
| `Acquire`, `Mark`, `MarkFails` | `acquireInstanceLease` and the update to RUNNING |
| `Renew`, `Skip`, `Enter`, `Cancel`, `Invoke`, `Succeed`, `Park`, `Retry`, `Fail`, `Complete`, `Release` | `executeSteps`, in order |
| `DeferredRelease` | the deferred release in `resumeInline` and `signalInline` |
| `Crash`, `Expire` | a process dies; `leaseTTL` passes |

The stores differ in ways the model keeps (`Backend`): the SQL stores write the
lease columns in every update, Redis and MongoDB keep them apart; Redis deletes
an expired lease while the others keep its owner. Errors of `UpdateInstance`,
which `executeSteps` ignores, are a choice in `Persist` (`StoreMayFail`). The index
of Redis, which only recovery reads, is in `Deployment`; since it may fail to list
an instance, `FairSpec` does not say that recovery happens on Redis.
Abstracted: values are signals or "some data"; lease times are one bit; the
output, the error text, versions and events are left out.

### Lifecycle

The abstract specification of one instance, as whoever reads it from the store
sees it: its status and its results. An instance is created without results
(`Create`), executed (`Begin`, `Record`), and settles COMPLETED with all results,
WAITING with one missing, or FAILED (`Settle`); it may be set to FAILED from
outside (`Interrupt`). Results are added in order and never change. `Engine` maps its
`row` to it (`Abstract`).

### LeaseQueue

What a queue promises: a task stays until the worker that received it last
acknowledges it; a task under a live lease is delivered to nobody else; an
acknowledged task does not come back. `holder` says who received a task last,
`live` which leases have not run out. A holder may answer or renew late, as
long as nobody succeeded it; that is what all the implementations do.

The promise is about tasks that are enqueued once. When a Nack returns an error,
the worker acknowledges the task and enqueues it again (`worker.go:192-198`), and
the in-memory and the Redis queue keep the id it has, of which there may then be
two. `again` has these ids, for which nothing more is promised.

### InMemoryQueue

`ready` and `inflight` are `q.ready` and `q.inflight`; `acked` and `again` are history.
`late` has workers that lost a lease and have not answered yet: their Ack or Nack
comes late (`AnswersLate`), and a Nack for a task that another worker has is
refused and followed by the fallback (`NackRefused`, `FallbackAck`,
`FallbackEnqueue`). Times are relative (a wait, the rest of a lease), so the state space is finite
without a horizon and liveness can be checked. `Dequeue` takes expired leases
back in any order (a Go map is iterated) and delivers the first runnable task.
`now` is read just before the lock is taken (`inmemory_queue.go:76-78`); the
model reads it under the lock.

### DatabaseQueue

SQLite and MongoDB: one row or document per task, one atomic statement per
method. `db` is the database, chosen initially. It decides two things: MongoDB
lets a worker claim again what it has leased itself, and it sorts by
`created_at` where SQLite sorts by id. In the refinement, a MongoDB worker that is given
a task it still has leased takes a `RenewLease` step of the promise.
`enqueued_at` also stands for `created_at`.

### RedisQueue

The two sorted sets and three hashes, with the scripts as atomic actions.
`Nack` is three round trips (`NackRead`, `NackWrite`, `NackMove`) between which leases
lapse, other workers answer, or the worker dies. Each of them may also fail,
before or after it took effect, or find another owner, and the worker then falls
back (`FallbackAck`, `FallbackEnqueue`), where the Ack may fail again. A Nack of a
task without an owner or a payload is no error (`redis_queue.go:225, 287`). `Batch` is the
limit of 100 expired tasks that one `Dequeue` takes back. `again` and `acked` are
history; the contents of payloads are left out.

### PostgresQueue

`Dequeue` deletes the row it delivers; `Ack`, `Nack` and `RenewLease` do nothing. The
actions `Ack`, `Nack` and `Crash` are what the worker does with a delivered task.
The primary key is the task ID, which no caller sets, so the table holds at
most one row.

The module has no type invariant of its own: its one run is the violation below.

### Worker

`ProcessOne`, composed with the promise of the queues (`Queue == INSTANCE
LeaseQueue`, so what is shown holds over each queue that implements it and gives
an enqueued task a new id, as SQLite does) and with one instance, of which the
stored status and the lease are kept.

| Actions | Code |
|---|---|
| `StartSave`, `StartEnqueue`, `SignalLoad`, `SignalStore`, `ResumeLoad`, `SignalOrResumeEnqueue` | `Start`, `Signal` and `Resume` of an engine with a queue, one action per access to store or queue |
| `EnqueueSignal`, `Recover` | `Worker.EnqueueSignal`, `RecoverStuckInstances` |
| `Dequeue`, `Load`, `Acquire`, `Heartbeat`, `Finish`, `ScheduleTimeout` | `ProcessOne` up to the end of the engine's call, and the automatic timeout |
| `AnswerAck`, `AnswerNack`, `NackFails`, `FallbackAck`, `FallbackEnqueue` | `handleErr`, with the fallback when Nack fails |
| `Crash`, `ClientCrash`, `LeaseExpires`, `InstanceLeaseExpires` | processes die, leases run out |

`task` has the type and the attempts of each task, `work` the locals of each
worker. The engine's call is shortened to load, acquire and finish; here the
store keeps the lease apart (the SQL stores do not, see `engine_sql_lease`) and
steps are shorter than the instance's lease.

### InstanceStore and Deployment

`InstanceStore` has the five implementations of the store interface side by
side, one operator per store and method, over several instances. `store` says
which one is in use; `row` and `lease` are what it holds, `index` the index sets of
Redis. What sets the stores apart is kept:

| Method | Differences |
|---|---|
| `SaveInstance` | SQLite, PostgreSQL and MongoDB refuse an ID that is taken; Redis and the map in memory replace the instance |
| `UpdateInstance` | the SQL stores write the lease columns of the copy; Redis updates its index in a second round trip and creates what is missing; MongoDB's `$set` names the version and the fingerprint otherwise than its readers do |
| `GetInstance` | memory hands out the stored pointer, so all calls share the instance (`Seen`); only the SQL stores load the lease |
| `ListInstances` | Redis intersects index sets, which are only ever added to, and reads the instances in a second round trip without filtering them again |
| leases | an expired lease keeps its owner, except in Redis; the SQL stores and memory also clear a lease nobody owns |

`Deployment` has the engine processes over it. `process` is, per process, the ID
counter, the registry, and the registrations between their check and their
save; `call` the locals of every goroutine. How the steps run is left to
`Engine`: here they end in one of the statuses.

| Actions | Code |
|---|---|
| `RegisterCheck`, `RegisterSave` | `RegisterWorkflow`, and `SaveWorkflow` of the registry |
| `Run`, `RunVersion`, `Start`, `StartVersion`, `Save`, `SaveFails`, `UpdateIndex` | the creation of an instance, with `nextInstanceID` |
| `RunInstance`, `ResumeInline`, `SignalInline`, `Acquire`, `AcquireFails`, `Mark`, `MarkFails` | a stored instance, up to the update to RUNNING |
| `Renew`, `Finish`, `Cancelled`, `Release`, `DeferredRelease` | `executeSteps` and the deferred release |
| `GetInstance`, `RecoverList`, `RecoverFetch`, `RecoverNext` | inspection and recovery |
| `Crash`, `Expire` | a process dies and is replaced, perhaps by one with other definitions; `leaseTTL` passes |

The registry is a map from versions to definitions, as the code's is. The second
round trip of Redis' updates, the one for the index, may fail without anyone being
told (`redis_store.go:96, 120`). `created`, `torn` and `surrendered` are history: `torn`
has the IDs for which that round trip failed, or the process died before it, when
it would have listed them as RUNNING. Definitions are registered with the
fingerprint that the engine computes; one with a fingerprint of its own choice
is refused by `RunInstance`. Recovery is called when the process executes
nothing, as the comment at `engine_impl.go:466` asks.

### Parallel and LocalRunner

`Parallel` has `ParallelStep` and `ParallelMapStep`: the fork, every child goroutine
(early abort, call, result, error, panic), `errOnce`, the cancellation of the
siblings, which is a step of its own after the error was recorded, and the join.
`LocalRunner` extends it with the runner: generations of worker goroutines that
share a context, a WaitGroup and a queue, and callers of `StartWorkers` and
`Stop`. A worker's task is a workflow of one parallel step. Tasks are leased: when
some goroutine calls `Dequeue`, any leases may have lapsed (`leased`), those of
goroutines at work included, and their tasks are queued again; all goroutines
share one worker name, so whoever finishes first acknowledges the task for all. Of the errors, the
ones the runner tells apart are kept: the error of the runner's context, a
`Canceled` or `DeadlineExceeded` of the child's own making, and others. A
WaitGroup that is used again before `Wait` has returned panics (`StopReturn`), as
the Go library does.

### Children

A parent workflow that starts child workflows in a step, or gets the IDs of
children enqueued before, and waits for all or any of them. `StartChild`, `PollAll`
and `PollAny` are one iteration each of the loops in `StartChildrenStep`,
`WaitForChildrenStep` and `WaitForAnyChildStep`; `Answer` is what `executeSteps` and
the worker make of the result. Like `PostgresQueue` it has one run, a violation.

## 3. Runs

Passing runs:

| Run | Checks | Instance |
|---|---|---|
| `engine_concurrent` | `TypeOK`, `StatusIsEarned`, `LeaseExclusive`, `ResultsInOrder` | two engines, Redis store, failing writes, steps shorter than the lease, no `Run` or `GetInstance`; a waiting step and a task |
| `engine_replay` | `NoStepRepeated`, `ResultsAreKept`, `KeepsLifecycle`, `RunningSettles` | MongoDB store, calls that do not overlap, every method, every step kind, crashes |
| `inmemory_queue` | `TypeOK`, `NoTaskLostOrDuplicated`, `NeverEarly`, `KeepsPromise`, `EveryTaskDelivered` | 2 workers, 2 tasks, room for one copy, 1 late worker |
| `database_queue` | `TypeOK`, `KeepsPromise` | both databases, 2 workers, 2 tasks, clock to 5 |
| `redis_queue` | `TypeOK`, `Recoverable`, `NeverEarly`, `KeepsPromise` | 2 workers, 2 tasks, failing round trips, clock to 3 |
| `worker` | `TypeOK`, `StartNotForgotten`, `AttemptsBounded`, `AttemptsCounted`, `StartedRuns` | 2 workers, 3 tasks, 2 attempts, failing engine calls, 1 fault |
| `deployment` | `TypeOK`, `DefinitionKept`, `IdUsedOnce`, `RunningIsListed`, `ResumedAsStarted`, `ExecutorsExclude` | each of the five stores, 2 processes, 2 instances, 3 definitions (two of one version), 4 calls, 1 crash |
| `local_runner` | `TypeOK`, `FirstErrorWins`, `ResultsComplete`, `StopMeansStopped`, `TaskKept`, `NewWorkersSpared`, `StopReturns`, `TaskHandled` | 2 generations of one worker, 2 tasks, 2 children per step, one caller of `Stop` |

- `StatusIsEarned`: COMPLETED means every result is stored; WAITING means the
  instance is parked at a step that can wait, with all results before it.
- `LeaseExclusive`: no two calls execute the instance at once.
- `ResultsInOrder`: the stored results have no gap, also when a stale copy was
  written over them: a step has a result only if every step before it has one,
  and so have all steps before `CurrentStep`.
- `NoStepRepeated`, `ResultsAreKept`: a stored result is never recomputed,
  dropped or changed.
- `KeepsLifecycle`: the engine implements `Lifecycle`.
- `RunningSettles`: no instance is RUNNING for ever.
- `KeepsPromise`: the queue implements `LeaseQueue`.
- `NoTaskLostOrDuplicated`: every task is in the in-memory queue until its Ack, and
  none is there twice, or after its Ack, that was not enqueued again.
- `Recoverable`: no task is lost from Redis before its Ack, also if it was enqueued
  again; and the five keys agree, so every task can be delivered again.
- `NeverEarly`: no task is delivered before its time (`NotBefore`, or the backoff
  that Nack asks for); with Redis, no task that was enqueued once.
- `StartNotForgotten`: an accepted workflow that is still PENDING has its start
  task in the queue, unless all attempts failed or the fallback of a failed Nack
  lost it.
- `StartedRuns`: under the same exceptions, it is run in the end.
- `AttemptsBounded`, `AttemptsCounted`: a task that failed `MaxAttempts` times is not
  tried again, and each failure that a worker reports is counted once, also when
  the worker that answers lost its lease or falls back to a copy of the task.
- `DefinitionKept`: what is registered under a version stays, also when another
  registration of the version had passed its check before.
- `IdUsedOnce`: although every process counts its IDs from 1, no ID names two
  instances. Redis is the exception: it replaces the first instance.
- `RunningIsListed`: recovery finds every RUNNING instance, except in the window
  between the two round trips of Redis, or after the second one was lost.
- `ResumedAsStarted`: `Resume` and `Signal` execute an instance only with the
  definition that it was started with (not with Redis, where it may have been
  replaced).
- `ExecutorsExclude`: with Redis and MongoDB, two engines do not execute one
  stored instance, unless an engine released the lease of its own call.
- `FirstErrorWins`, `ResultsComplete`: a parallel step never fails with the
  cancellation that a failing child caused, and succeeds with all results only.
- `StopMeansStopped`, `StopReturns`: `Stop` returns, unless a `StartWorkers` that
  overlaps it brings new goroutines to wait for, and then no goroutine, child or
  task of what it stopped is left.
- `NewWorkersSpared`: a `Stop` that was overtaken by `StartWorkers` does not cancel
  the new workers (`local_runner.go:115-126` takes the cancel function out under the lock).
- `TaskKept`, `TaskHandled`: a task that was not run to its end is in the queue, or
  leased and in the hands of a goroutine, whatever
  leases lapse and whoever acknowledges late; and each is run to its end as long as
  a worker is left.

Runs that show a disagreement between the code and what the repository says:

| Run | Violated | What happens |
|---|---|---|
| `engine_sql_lease` | `LeaseExclusive` | the update to RUNNING writes the lease columns loaded before the lease was acquired, which frees the lease; a second engine executes too |
| `postgres_queue_loss` | `NoTaskLost` | a task whose worker dies, or returns it, is gone |
| `deployment_replay` | `ReplayedAsStarted` | `RunInstance` does not compare the instance's fingerprint, so another process executes it with changed steps of the same version |
| `children` | `ParentIsResumed` | nobody schedules a parent that waits: its task is gone after `MaxAttempts` polls, and it stays WAITING when its children have ended |

Each condition of `LeaseExclusive` is needed: with `EngineConcurrent.cfg` as the base,
TLC finds two executors when both calls run in one engine (the lease is
re-entrant per engine), when `GetInstance` is added to `Api` (it releases the
lease of a running call), when `Run` is added (it takes no lease), and when
`SlowSteps` is `TRUE` (the lease is renewed only between steps).

Behaviours that the models contain and no property forbids:

- `RunInstance` loads the instance before it acquires the lease. With
  `Solo = FALSE` in `EngineReplay.cfg`, `ResultsAreKept` fails: the results that
  another engine stored in between are erased.
- A signal task that is handled before the workflow waits is refused, retried
  until `MaxAttempts`, and removed; only start tasks schedule the automatic
  timeout, so a workflow that waits a second time has none (`Worker`).
- MongoDB gives goroutines that share a WorkerID the same task, because a worker
  may claim what it has leased itself. A late `Nack` over Redis writes back the
  payload of a task that its new owner has acknowledged, which stays in the hash.
- A step that returns a `Canceled` or `DeadlineExceeded` of its own ends its worker
  goroutine (`local_runner.go:92`), so a running runner may have no worker left. A
  `Stop` that overlaps another returns before the workers have ended, since it
  finds the runner not running.
- A copy that the fallback enqueues may be delivered while the task is in the hands
  of the worker that overtook, and after it was acknowledged; with Redis, the Ack
  of one copy removes the payload of the other, which is then leased again and
  again to workers that take it for nothing.
- Redis lists instances under statuses they had before. Recovery checks the
  status again; `ListInstances` does not.
- A retried `StartChildrenStep` starts all its children again, and a parent whose
  child waits for a signal waits for that signal itself.

### Bounds

Two calls are enough for every race above: each is between one executor and
one other call. Two or more steps give a first, a last, and a position between
them; the retried step has two attempts. Two workers and two or three tasks
let one task be leased, lapse, and be answered late while another overtakes
it; `Batch = 1` makes the limit bite. The clocks reach past one lease plus one
renewal. In `worker` one fault is one crash, one stall or one
failing Nack, at any point of any handler; two submitted tasks are the start and
one signal or resume that races it, the third is the timeout or the copy of the
fallback. In `deployment` four calls are two registrations and two uses of
an instance, or one of each in two processes. Two definitions of one version are one changed
without a new version. In `local_runner` two generations of one worker
are what a `Stop` and a `StartWorkers` that overlap need, and are also the two
goroutines that have one task when its lease lapses; the second task is the one
that is overtaken. In `inmemory_queue` there is room for one copy of a
task besides the tasks themselves (`MaxEntries`), and one late worker is followed at
a time (`MaxLate`): the others never answer. `MaxTasks`, `MaxEntries`, `MaxLate`, `MaxSubmitted`,
`MaxFaults`, `MaxWait`, `MaxAttempts`, `MaxTime`, `MaxCalls`, `MaxCrashes`, `MaxGen` and the set `Id` are
the only caps, and the proofs do not depend on their values. Runs with a horizon stop there, and
those with bounded submissions stop when the tasks are used up, so deadlock is
not checked in them.

### Fairness

- `Engine!FairSpec`: a call inside a method goes on (goroutines are scheduled and
  steps return), and recovery, which an operator or a starting process calls,
  gets through now and then although processes crash again and again (strong
  fairness of `RecoverBegin` and `RecoverStore`). The former is assumed for the SQL
  stores and MongoDB, which find every RUNNING instance; on Redis an instance that
  the index misses may stay RUNNING. Nothing is assumed about crashes
  stopping, or about anyone resuming or signalling an instance.
- `Worker!FairSpec`: a worker with a task goes on, leases that nobody renews run
  out, and a task that can be delivered again and again is delivered, which is
  what `EveryTaskDelivered` shows of a queue. Crashes, stalls longer than a lease
  and failing queue calls are bounded by `MaxFaults`: a task whose worker dies each
  time is redelivered for ever, since only reported failures count as attempts.
- `LocalRunner!FairSpec`: goroutines that can go on do, so child steps return.
  Nobody has to call `Stop` or cancel a context. The subscripts of the fairness
  conditions are the variables that every such step changes.
- `Children!FairSpec`: the worker goes on, and the children come to an end.
- `InMemoryQueue!FairSpec`: the clock advances, and some worker keeps calling
  `Dequeue`. Nothing is assumed about workers answering.

## 4. Proofs

All are for any values of the constants that satisfy the named assumptions
(`EngineAssumption`, `QueueAssumption`, `WorkerAssumption`, `DeploymentAssumption`,
`RunnerAssumption`),
which only give the constants their types and keep the special values apart;
`DeploymentAssumption` also says that a definition is its name, version and
fingerprint. Every safety property that a passing run checks is also the
statement of a theorem; the runs show it on an instance where the interesting
cases happen, the theorem for all instances.

- `EngineProofs`
  - `EngineInvariant`, `TypeCorrect`, `StatusEarned`. Every write replaces the whole
    row by one call's copy, so `StatusIsEarned` is inductive only together with
    the same fact about every copy. `LocalInv` adds what makes a copy earn its
    status: inside the loop it is RUNNING and has a result for every step before
    the loop variable; a call to `SignalNow` that has not yet marked the instance
    still has it WAITING.
  - `LeaseIsExclusive`, under `Protected`: a store that keeps the lease apart, one
    goroutine per engine, steps shorter than the lease, no `Run` or `GetInstance`.
    The strengthening `LeaseInv` says that whoever executes owns the lease and it
    has not expired.
  - `StepsNotRepeated` and `ResultsStay`, under `Solo`: calls that do not overlap
    (without that `ResultsAreKept` fails, see section 3). They need no condition
    on the store, the lease or failing writes. `SoloInv` says that the copy of
    the one call in progress has every result that is in the store (`Covers`);
    the copy may have more, since `executeSteps` goes on after a write that
    failed. A step is invoked only if the copy has no result for it, hence
    neither has the store, and a write can only add results. `SoloInv` also keeps
    a row without an instance free of results, so that creating one drops none.
  - `ResultsOrdered`, without `Solo`: for calls that overlap as they like. Any copy
    may replace the row, so `OrderInv` asks the same of every copy. A result is
    added at the loop variable, below which `LocalInv` has all results.
  - `LifecycleKept`, under `Solo`: the refinement of `Lifecycle`. Every write has to be a
    step of it, and which write is allowed depends on the status it replaces.
    `SyncInv` therefore relates the call in progress to the row: until the call
    writes, its copy is the row, and while it executes steps the row is RUNNING.
    `SoloInv` gives that results are only added, `OrderInv` that they have no gap, and
    `Inv` that a status is earned.
- `InMemoryQueueProofs`: `TypeCorrect`, `NothingLost`, `Schedule` and `Refinement`.
  The inductive invariant is the conjunction of the type invariant,
  `NoTaskLostOrDuplicated` and `NeverEarly`; the refinement has a lemma per action. All
  hold with late answers and the fallback: an id that is enqueued again leaves the
  domain of the refinement mapping in that very step.
- `DatabaseQueueProofs`: `TypeCorrect` and `Refinement`, for both databases.
- `RedisQueueProofs`: `TypeCorrect`, `TasksRecoverable`, `DelaysKept` and `Refinement`. `Recoverable`,
  no loss and the agreement of the five keys, is inductive once `WorkerInv` says that a
  worker has only tasks that were enqueued, so that the payload a late Nack writes
  back does not meet a new task, and that a worker about to run the script of Nack
  with the lease has the payload there. The refinement maps the two sorted sets and
  the owners, of ids that were not enqueued again, to `holder` and `live`. Of the
  three round trips of Nack only the last, which moves the task, is a step of the
  promise, also if its answer is lost; the other two change nothing that the promise
  sees. `NeverEarly` is inductive with `Recoverable`: it ties the score in the sorted
  set to the time in the hash, which is what a lapsed lease is put back with.
- `WorkerProofs`: `TypeCorrect`, `StartRemembered`, `TriesBounded`, `TriesCounted`. A start task leaves the queue by an
  Ack only: after a success, after the last attempt, or in the fallback. `WorkInv`
  says that a worker has in hand a task that was enqueued, with its type, and
  that the instance is no longer PENDING where the steps run and as long as the
  answer is a success; `ClientInv` that an accepted start has been stored. `KeepsTasks`
  is what all the operations of the queue have in common. For the attempts,
  `TryInv` says that a worker in the fallback has an attempt left and that the
  holder of a task has the stored count in hand: only the holder can change it,
  so what Nack writes is the stored count plus one.
- `DeploymentProofs`: `TypeCorrect`, `DefinitionsKept`, `IdsUnique`, `RecoveryFinds`,
  `ResumeReplays`, `EnginesExclude`, for every store. `DeploymentInvariant` has the
  inductive invariant `Inv`, the steps of a call that holds an instance, and the
  registry, `DeploymentProofs` the saving of new instances, the leases, crashes and
  the theorems. `Inv` adds to the properties
  - `CallInv`: what a call or a listing holds is stored, and was started with the
    same definition as what is stored, unless Redis replaced it;
  - `IdInv`: in a database a created instance is still there, so a second one is
    refused; in memory its ID is below the counter of the one process, and no
    two calls are about to save the same ID;
  - `LeaseInv`: with Redis and MongoDB, whoever executes an instance that was not
    surrendered owns its lease, and the lease has not expired;
  - `ListedInv`: a RUNNING instance is in Redis' index set, or a call is about to
    put it there, or failed to, or died before it did.
- `LocalRunnerProofs`: `TypeCorrect`, `FirstErrorKept`, `ParallelComplete`, `StopStops`,
  `TasksKept`, `OvertakenStop`. `FanInv` says that
  whoever cancels the siblings has recorded an error and whoever is done has a
  result or an error; `LoopInv` that a goroutine has children only inside its
  step and a task only between Dequeue and Ack; `StopInv` what a `Stop` may rely on,
  in particular that the generation it stops is not the one that runs. `TaskKept` is
  inductive with these: a goroutine that loses its lease keeps the task in hand,
  and the lemma `LapsedRequeued` says that `Dequeue` queues every lapsed task.

Only model-checked: the liveness properties `RunningSettles`, `EveryTaskDelivered`,
`StartedRuns`, `StopReturns` and `TaskHandled`, because temporal reasoning with
fairness is out of the prover's reach. `PostgresQueue` and `Children` have no
theorem: what their runs show is that a property does not hold.

## 5. Not modelled

- How a fingerprint is computed: a hash over names and policies of the steps.
  `Deployment` needs only that definitions may differ in it.
- Backoff: durations multiplied as floating-point numbers. Attempts are modelled,
  delays are not.
- Branches, loops, sleeps and the typed wrappers (`steps.go`): they call other
  steps in order, inside one step of the engine, and keep nothing of their own.
- Event history and observers: best-effort output that the engine never reads.
- The gob codecs: encodings of arbitrary Go values.
- Builder, bundles, constructors and examples: wiring without state.
- Torn reads of single fields of the instance that the in-memory store shares
  between goroutines; `Deployment` takes each read or write of it as one step.
- What the redelivery of a start task without an instance creates, and the contents
  of payloads in Redis, where a late Nack may overwrite the attempts of a task.

The hazards in `PROJECT.json` without a property say why they have none.
