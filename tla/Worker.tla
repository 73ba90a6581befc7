------------------------------- MODULE Worker -------------------------------
(***************************************************************************)
(* Workers between a task queue and the engine: Worker.ProcessOne of       *)
(* pkg/worker/worker.go, with the methods of the engine that enqueue tasks *)
(* (Start, Signal and Resume with a queue).                                *)
(*                                                                         *)
(* The queue is any one that keeps the promises of LeaseQueue, in the way  *)
(* of SQLite, where an enqueued task always gets a new id.  Of the engine, *)
(* one instance is kept, with its status and its lease: a call loads it    *)
(* and checks its status, acquires the lease and marks it RUNNING, and     *)
(* stores how the steps ended; Engine has the details.  Every worker has   *)
(* an engine of its own.  NotBefore is left open: a task that is not       *)
(* delivered yet may be one whose time has not come.                       *)
(*                                                                         *)
(* Left out: start tasks without an instance, which create one when they   *)
(* are handled, and tasks that no caller builds (an unknown type, a start  *)
(* with another payload).                                                  *)
(***************************************************************************)
EXTENDS Integers, FiniteSets

CONSTANTS Owner, NoOwner,  \* workers (WorkerID); nobody
          MaxAttempts,     \* Config.MaxAttempts, at least 1
          Timeouts,        \* Config.DefaultSignalTimeout > 0
          MaxSubmitted,    \* bound on the tasks enqueued by clients
          MaxTasks,        \* bound on all tasks
          EngineErrors,    \* calls of the engine may fail for any reason
          MaxFaults        \* bound on crashes, stalls and failing calls of Nack

ASSUME WorkerAssumption ==
  /\ NoOwner \notin Owner
  /\ MaxAttempts \in Nat \ {0} /\ Timeouts \in BOOLEAN /\ EngineErrors \in BOOLEAN
  /\ MaxSubmitted \in Nat /\ MaxTasks \in Nat /\ MaxFaults \in Nat

TaskId == 1 .. MaxTasks

VARIABLES issued, holder, live, \* the queue, see LeaseQueue
          task,                 \* type and attempts of the tasks issued
          status,               \* the stored status of the instance
          runner,               \* the owner of the instance's lease
          client,               \* what the client is about to do
          work,                 \* what every worker is doing
          started,              \* history: Start has reported success
          dropped,              \* history: a start task was given up or lost
          faults                \* faults so far

queue == <<issued, holder, live, task>>

vars == <<issued, holder, live, task, status, runner, client, work, started, dropped, faults>>

Queue == INSTANCE LeaseQueue WITH again <- {}

Type == {"start", "signal", "timeout", "resume"}

Task == [type : Type, attempts : Nat]

Status == {"NONE", "PENDING", "RUNNING", "WAITING", "COMPLETED", "FAILED"}

\* id, type and attempts of the task in hand; the status that was loaded, for
\* the time of the engine's call; whether that call returned an error.
Work == [pc : {"idle", "load", "acquire", "run", "timeout", "answer", "ack", "requeue"},
         id : 0 .. MaxTasks, type : Type, attempts : Nat,
         seen : Status, err : BOOLEAN]

IdleWork == [pc |-> "idle", id |-> 0, type |-> "start", attempts |-> 0,
             seen |-> "NONE", err |-> FALSE]

Init ==
  /\ Queue!Init
  /\ task = [t \in {} |-> IdleWork]
  /\ status = "NONE"
  /\ runner = NoOwner
  /\ client = "idle"
  /\ work = [w \in Owner |-> IdleWork]
  /\ started = FALSE /\ dropped = FALSE
  /\ faults = 0

-----------------------------------------------------------------------------
(* The queue, with what the tasks carry.                                   *)

\* Mutant: the task is stored without its type and attempts.
EnqueueBare(type, attempts) ==
  /\ Cardinality(issued) + 1 \in TaskId
  /\ Queue!Enqueue(Cardinality(issued) + 1)
  /\ UNCHANGED task

Enqueue(type, attempts) ==
  LET t == Cardinality(issued) + 1 IN
  /\ t \in TaskId
  /\ Queue!Enqueue(t)
  /\ task' = [u \in DOMAIN task \cup {t} |->
                IF u = t THEN [type |-> type, attempts |-> attempts] ELSE task[u]]

Holds(w) == work[w].id \in DOMAIN holder /\ holder[work[w].id] = w

\* Ack and Nack of a worker that lost its lease change nothing.
Ack(w) ==
  /\ IF Holds(w) THEN Queue!Ack(work[w].id, w) ELSE UNCHANGED <<issued, holder, live>>
  /\ UNCHANGED task

\* Mutant: the attempt is not counted.
NackUncounted(w) ==
  IF Holds(w)
  THEN Queue!Nack(work[w].id, w) /\ UNCHANGED task
  ELSE UNCHANGED queue

Nack(w) ==
  IF Holds(w)
  THEN /\ Queue!Nack(work[w].id, w)
       /\ task' = [task EXCEPT ![work[w].id].attempts = work[w].attempts + 1]
  ELSE UNCHANGED queue

Fault == faults < MaxFaults /\ faults' = faults + 1

\* A lease runs out because its holder died, or, which is a fault, because it
\* was stalled for longer than the lease: the heartbeat renews it otherwise.
LeaseExpires(t) ==
  /\ t \in live
  /\ Queue!Lapse /\ live' = live \ {t}
  /\ IF \E w \in Owner : work[w].id = t /\ holder[t] = w
     THEN Fault ELSE UNCHANGED faults
  /\ UNCHANGED <<task, status, runner, client, work, started, dropped>>

-----------------------------------------------------------------------------
(* The client: Start, Signal and Resume of an engine with a queue, and     *)
(* EnqueueSignal of a worker.  It has one call at a time.                  *)

Submitting == Cardinality(issued) < MaxSubmitted

StartSave ==
  /\ client = "idle" /\ status = "NONE"
  /\ status' = "PENDING"
  /\ client' = "start"
  /\ UNCHANGED <<queue, runner, work, started, dropped, faults>>

StartEnqueue ==
  /\ client = "start"
  /\ Enqueue("start", 0)
  /\ started' = TRUE
  /\ client' = "idle"
  /\ UNCHANGED <<status, runner, work, dropped, faults>>

SignalLoad ==
  /\ client = "idle" /\ Submitting /\ status = "WAITING"
  /\ client' = "store"
  /\ UNCHANGED <<queue, status, runner, work, started, dropped, faults>>

\* The instance is written back as it was loaded.
SignalStore ==
  /\ client = "store"
  /\ status' = "WAITING"
  /\ client' = "signal"
  /\ UNCHANGED <<queue, runner, work, started, dropped, faults>>

ResumeLoad ==
  /\ client = "idle" /\ Submitting /\ status = "FAILED"
  /\ client' = "resume"
  /\ UNCHANGED <<queue, status, runner, work, started, dropped, faults>>

SignalOrResumeEnqueue ==
  /\ client \in {"signal", "resume"}
  /\ Enqueue(client, 0)
  /\ client' = "idle"
  /\ UNCHANGED <<status, runner, work, started, dropped, faults>>

\* EnqueueSignal of a worker does not look at the instance.
EnqueueSignal ==
  /\ client = "idle" /\ Submitting /\ started
  /\ Enqueue("signal", 0)
  /\ UNCHANGED <<status, runner, client, work, started, dropped, faults>>

\* RecoverStuckInstances, called when no worker is processing.
Recover ==
  /\ status = "RUNNING"
  /\ \A w \in Owner : work[w].pc = "idle"
  /\ status' = "FAILED"
  /\ UNCHANGED <<queue, runner, client, work, started, dropped, faults>>

-----------------------------------------------------------------------------
(* Worker.ProcessOne.                                                      *)

Dequeue(w, t) ==
  /\ work[w].pc = "idle"
  /\ Queue!Dequeue(t, w)
  /\ work' = [work EXCEPT ![w] = [IdleWork EXCEPT !.pc = "load", !.id = t,
                                     !.type = task[t].type, !.attempts = task[t].attempts]]
  /\ UNCHANGED <<task, status, runner, client, started, dropped, faults>>

\* The statuses in which RunInstance, SignalNow and ResumeNow go ahead.
Accepted(type) ==
  CASE type = "start" -> Status \ {"NONE"}
    [] type = "resume" -> {"FAILED"}
    [] OTHER -> {"WAITING"}

\* GetInstance, and the checks that follow.  Other errors are, for example, a
\* workflow that is not registered with this engine.
Load(w) ==
  /\ work[w].pc = "load"
  /\ \/ /\ status \in Accepted(work[w].type)
        /\ work' = [work EXCEPT ![w].pc = "acquire", ![w].seen = status]
     \/ /\ status \notin Accepted(work[w].type) \/ EngineErrors
        /\ work' = [work EXCEPT ![w].pc = "answer", ![w].err = TRUE]
  /\ UNCHANGED <<queue, status, runner, client, started, dropped, faults>>

Acquire(w) ==
  /\ work[w].pc = "acquire"
  /\ \/ /\ runner = NoOwner
        /\ runner' = w
        /\ status' = "RUNNING"
        /\ work' = [work EXCEPT ![w].pc = "run"]
     \/ /\ runner # NoOwner
        /\ work' = [work EXCEPT ![w].pc = "answer", ![w].seen = "NONE", ![w].err = TRUE]
        /\ UNCHANGED <<status, runner>>
  /\ UNCHANGED <<queue, client, started, dropped, faults>>

\* The heartbeat runs during the call of the engine.
Heartbeat(w) ==
  /\ work[w].pc \in {"load", "acquire", "run"}
  /\ Holds(w)
  /\ Queue!RenewLease(work[w].id, w)
  /\ UNCHANGED <<task, status, runner, client, work, started, dropped, faults>>

\* The steps end.  An instance that had completed has all its results and
\* completes again.  A workflow that waits for a signal returns an error,
\* which only a start task turns into a timeout.
Finish(w) ==
  /\ work[w].pc = "run"
  /\ \E s \in {"COMPLETED", "WAITING", "FAILED"} :
       /\ work[w].seen = "COMPLETED" => s = "COMPLETED"
       /\ status' = s
       /\ work' = [work EXCEPT
            ![w].pc = IF s = "WAITING" /\ work[w].type = "start" /\ Timeouts
                      THEN "timeout" ELSE "answer",
            ![w].seen = "NONE", ![w].err = s # "COMPLETED"]
  /\ runner' = NoOwner
  /\ UNCHANGED <<queue, client, started, dropped, faults>>

\* An error of Enqueue is ignored.
ScheduleTimeout(w) ==
  /\ work[w].pc = "timeout"
  /\ \/ Enqueue("timeout", 0) /\ UNCHANGED faults
     \/ Fault /\ UNCHANGED queue
  /\ work' = [work EXCEPT ![w].pc = "answer", ![w].err = FALSE]
  /\ UNCHANGED <<status, runner, client, started, dropped>>

\* Mutant: the attempt that has just failed is not counted in.
RetriesOnceMore(w) ==
  /\ work[w].err /\ work[w].type # "timeout"
  /\ work[w].attempts < MaxAttempts

\* handleErr: whether the task is to be tried again.
Retries(w) ==
  /\ work[w].err /\ work[w].type # "timeout"
  /\ work[w].attempts + 1 < MaxAttempts

Done(w) == work' = [work EXCEPT ![w] = IdleWork]

\* Success, a timeout, or the last attempt.
AnswerAck(w) ==
  /\ work[w].pc = "answer" /\ ~Retries(w)
  /\ Ack(w)
  /\ dropped' = (dropped \/ (work[w].type = "start" /\ work[w].err /\ Holds(w)))
  /\ Done(w)
  /\ UNCHANGED <<status, runner, client, started, faults>>

\* Mutant: a task that is to be tried again is removed.
AnswerNackRemoves(w) ==
  /\ work[w].pc = "answer" /\ Retries(w)
  /\ Ack(w)
  /\ Done(w)
  /\ UNCHANGED <<status, runner, client, started, dropped, faults>>

AnswerNack(w) ==
  /\ work[w].pc = "answer" /\ Retries(w)
  /\ Nack(w)
  /\ Done(w)
  /\ UNCHANGED <<status, runner, client, started, dropped, faults>>

\* Nack returns an error: the worker falls back to Ack and Enqueue, which may
\* fail for the same reason; their errors are ignored.
NackFails(w) ==
  /\ work[w].pc = "answer" /\ Retries(w)
  /\ Fault
  /\ work' = [work EXCEPT ![w].pc = "ack"]
  /\ UNCHANGED <<queue, status, runner, client, started, dropped>>

\* Between the two the worker alone has the task.
LosesStart(w) ==
  work[w].pc = "requeue" /\ work[w].type = "start" /\ work[w].id \notin DOMAIN holder

FallbackAck(w) ==
  /\ work[w].pc = "ack"
  /\ Ack(w) \/ UNCHANGED queue
  /\ work' = [work EXCEPT ![w].pc = "requeue"]
  /\ UNCHANGED <<status, runner, client, started, dropped, faults>>

FallbackEnqueue(w) ==
  /\ work[w].pc = "requeue"
  /\ \/ Enqueue(work[w].type, work[w].attempts + 1) /\ UNCHANGED dropped
     \/ UNCHANGED queue /\ dropped' = (dropped \/ LosesStart(w))
  /\ Done(w)
  /\ UNCHANGED <<status, runner, client, started, faults>>

-----------------------------------------------------------------------------
(* The environment.                                                        *)

\* The process of a worker dies and is started again.  An Ack that fails has
\* the same effect: the task stays until its lease runs out.
Crash(w) ==
  /\ work[w].pc # "idle"
  /\ Fault
  /\ dropped' = (dropped \/ LosesStart(w))
  /\ Done(w)
  /\ UNCHANGED <<queue, status, runner, client, started>>

\* The client dies, or the queue refuses its task.
ClientCrash ==
  /\ client # "idle"
  /\ Fault
  /\ client' = "idle"
  /\ UNCHANGED <<queue, status, runner, work, started, dropped>>

\* The lease of the instance runs out when its owner has died; steps are
\* taken to be shorter than the lease.
InstanceLeaseExpires ==
  /\ runner # NoOwner /\ work[runner].pc # "run"
  /\ runner' = NoOwner
  /\ UNCHANGED <<queue, status, client, work, started, dropped, faults>>

Proceed(w) ==
  \/ Load(w) \/ Acquire(w) \/ Finish(w) \/ ScheduleTimeout(w)
  \/ AnswerAck(w) \/ AnswerNack(w) \/ NackFails(w)
  \/ FallbackAck(w) \/ FallbackEnqueue(w)

Next ==
  \/ StartSave \/ StartEnqueue \/ EnqueueSignal
  \/ SignalLoad \/ SignalStore \/ ResumeLoad \/ SignalOrResumeEnqueue
  \/ Recover \/ ClientCrash \/ InstanceLeaseExpires
  \/ \E t \in TaskId : LeaseExpires(t)
  \/ \E w \in Owner :
       \/ Proceed(w) \/ Heartbeat(w) \/ Crash(w)
       \/ \E t \in TaskId : Dequeue(w, t)

Spec == Init /\ [][Next]_vars

\* Handlers return, leases that nobody renews run out, and the queue delivers
\* every task in it in the end (EveryTaskDelivered of InMemoryQueue).
FairSpec ==
  /\ Spec
  /\ \A w \in Owner : WF_vars(Proceed(w))
  /\ WF_vars(InstanceLeaseExpires)
  /\ \A t \in TaskId : /\ WF_vars(LeaseExpires(t))
                       /\ SF_vars(\E w \in Owner : Dequeue(w, t))

-----------------------------------------------------------------------------
TypeOK ==
  /\ issued \subseteq TaskId /\ live \subseteq DOMAIN holder
  /\ holder \in [DOMAIN holder -> Owner \cup {NoOwner}]
  /\ DOMAIN holder \subseteq issued
  /\ task \in [issued -> Task]
  /\ status \in Status
  /\ runner \in Owner \cup {NoOwner}
  /\ client \in {"idle", "start", "store", "signal", "resume"}
  /\ work \in [Owner -> Work]
  /\ started \in BOOLEAN /\ dropped \in BOOLEAN
  /\ faults \in 0 .. MaxFaults

\* A workflow whose start was accepted is never forgotten: as long as it is
\* PENDING its start task is in the queue, through crashes, lapsed leases and
\* failed attempts, except while a worker falls back to enqueueing it again
\* or dies there, or when all attempts failed.
StartNotForgotten ==
  started /\ status = "PENDING" =>
    \/ \E t \in DOMAIN holder : task[t].type = "start"
    \/ \E w \in Owner : LosesStart(w)
    \/ dropped

\* A task is not tried again after its last attempt failed: what is in the
\* queue, the copies of the fallback of Nack included, has failed fewer than
\* MaxAttempts times, and so has what a worker has in hand, also if the task
\* was given to another one meanwhile.  A worker that dies counts for nothing.
AttemptsBounded ==
  /\ \A t \in DOMAIN holder : task[t].attempts < MaxAttempts
  /\ \A w \in Owner : work[w].attempts < MaxAttempts

\* Every failed attempt is counted once: the counter of a task in the queue
\* stays or goes up by one, whoever answers and however late, and a task that
\* is given back before its lease ran out has been counted.
AttemptsCounted ==
  [][\A t \in DOMAIN holder \cap DOMAIN holder' :
       /\ task'[t].attempts \in {task[t].attempts, task[t].attempts + 1}
       /\ t \in live /\ holder'[t] = NoOwner => task'[t].attempts = task[t].attempts + 1]_vars

\* A workflow whose start was accepted is run in the end, unless all attempts
\* to run it failed, or the fallback of Nack lost its task.
StartedRuns == started /\ status = "PENDING" ~> status # "PENDING" \/ dropped
=============================================================================
