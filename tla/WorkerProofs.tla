---------------------------- MODULE WorkerProofs ----------------------------
(***************************************************************************)
(* Proofs about Worker: that an accepted start is not forgotten, for any   *)
(* numbers of workers, tasks, attempts and faults.                         *)
(***************************************************************************)
EXTENDS Worker, TLAPS

Unstarted == {"NONE", "PENDING"}

\* What a worker may rely on: the task in hand was enqueued, with the type
\* the worker took from it; and the instance has been marked by the time
\* that its steps run and for as long as the answer is a success.
WorkOK(x, ids, tasks, s) ==
  /\ x.pc # "idle" => x.id \in ids /\ tasks[x.id].type = x.type
  /\ x.pc \in {"run", "timeout"} => s \notin Unstarted
  /\ x.pc = "answer" /\ ~x.err => s \notin Unstarted

WorkInv == \A w \in Owner : WorkOK(work[w], issued, task, status)

\* Start is accepted after the instance was stored.
ClientInv == started \/ client = "start" => status # "NONE"

\* The inductive invariant.  A start task leaves the queue by an Ack: after a
\* success, and then the instance is not PENDING; after the last attempt,
\* and then it counts as dropped; or in the fallback, which has it in hand.
Inv == TypeOK /\ WorkInv /\ ClientInv /\ StartNotForgotten

\* The start task is in the queue or in the hands of a worker, or was dropped.
Remembered ==
  \/ \E t \in DOMAIN holder : task[t].type = "start"
  \/ \E w \in Owner : LosesStart(w)
  \/ dropped

-----------------------------------------------------------------------------
(* The operations of the queue.                                            *)

QueueOK ==
  /\ issued \subseteq TaskId /\ live \subseteq DOMAIN holder
  /\ holder \in [DOMAIN holder -> Owner \cup {NoOwner}]
  /\ DOMAIN holder \subseteq issued
  /\ task \in [issued -> Task]

\* What every operation of the queue does: a task keeps its type for ever,
\* and one that has left the queue does not come back.
KeepsTasks ==
  /\ QueueOK'
  /\ issued \subseteq issued'
  /\ \A t \in issued : task'[t].type = task[t].type
  /\ DOMAIN holder' \cap issued \subseteq DOMAIN holder

\* Enqueue adds a new task of the type asked for.
LEMMA EnqueueFacts ==
  ASSUME TypeOK, NEW type \in Type, NEW n \in Nat, Enqueue(type, n)
  PROVE  /\ KeepsTasks
         /\ DOMAIN holder \subseteq DOMAIN holder'
         /\ \E t \in DOMAIN holder' : task'[t].type = type
<1>1. PICK t \in TaskId :
        /\ Queue!Enqueue(t)
        /\ task' = [u \in DOMAIN task \cup {t} |->
                      IF u = t THEN [type |-> type, attempts |-> n] ELSE task[u]]
  BY DEF Enqueue
<1>2. /\ t \notin issued /\ issued' = issued \cup {t} /\ live' = live
      /\ holder' = [u \in DOMAIN holder \cup {t} |-> IF u = t THEN NoOwner ELSE holder[u]]
  BY <1>1 DEF Queue!Enqueue
<1>3. DOMAIN task = issued /\ [type |-> type, attempts |-> n] \in Task
  BY DEF TypeOK, Task
<1>4. task' \in [issued' -> Task] /\ task'[t].type = type
  BY <1>1, <1>2, <1>3 DEF TypeOK
<1>5. QueueOK'
  BY <1>2, <1>4 DEF TypeOK, QueueOK
<1>6. \A u \in issued : task'[u].type = task[u].type
  BY <1>1, <1>2, <1>3
<1>7. QED
  BY <1>2, <1>4, <1>5, <1>6 DEF KeepsTasks

\* Nothing happens to the queue.
LEMMA IdleQueue ==
  ASSUME TypeOK, UNCHANGED queue
  PROVE  KeepsTasks /\ DOMAIN holder' = DOMAIN holder
BY DEF TypeOK, queue, KeepsTasks, QueueOK

\* Dequeue, RenewLease and the end of a lease change who has which task.
LEMMA LeaseFacts ==
  ASSUME TypeOK, NEW t, NEW w \in Owner, task' = task,
         Queue!Dequeue(t, w) \/ Queue!RenewLease(t, w) \/ Queue!Lapse
  PROVE  KeepsTasks /\ DOMAIN holder' = DOMAIN holder
<1>1. CASE Queue!Dequeue(t, w)
  BY <1>1 DEF Queue!Dequeue, TypeOK, KeepsTasks, QueueOK
<1>2. CASE Queue!RenewLease(t, w) \/ Queue!Lapse
  BY <1>2 DEF Queue!RenewLease, Queue!Lapse, TypeOK, KeepsTasks, QueueOK
<1>3. QED
  BY <1>1, <1>2

\* Ack removes the task in hand, if the worker holds it.
LEMMA AckFacts ==
  ASSUME TypeOK, NEW w \in Owner, Ack(w)
  PROVE  /\ KeepsTasks /\ task' = task
         /\ Holds(w) => DOMAIN holder' = DOMAIN holder \ {work[w].id}
         /\ ~Holds(w) => DOMAIN holder' = DOMAIN holder
<1>1. CASE Holds(w)
  BY <1>1 DEF Ack, Queue!Ack, TypeOK, KeepsTasks, QueueOK
<1>2. CASE ~Holds(w)
  BY <1>2 DEF Ack, TypeOK, KeepsTasks, QueueOK
<1>3. QED
  BY <1>1, <1>2 DEF Ack

\* Nack returns it, with one more attempt.
LEMMA NackFacts ==
  ASSUME TypeOK, NEW w \in Owner, Nack(w)
  PROVE  KeepsTasks /\ DOMAIN holder' = DOMAIN holder
<1>1. CASE Holds(w)
  <2>1. PICK id, n : id = work[w].id /\ n = work[w].attempts
    OBVIOUS
  <2>2. n + 1 \in Nat /\ id \in issued
    BY <1>1, <2>1 DEF TypeOK, Work, Holds
  <2>3. task' = [task EXCEPT ![id].attempts = n + 1] /\ Queue!Nack(id, w)
    BY <1>1, <2>1 DEF Nack
  <2>4. task' \in [issued -> Task] /\ \A t \in issued : task'[t].type = task[t].type
    BY <2>2, <2>3 DEF TypeOK, Task
  <2>5. QED
    BY <2>2, <2>3, <2>4 DEF Queue!Nack, TypeOK, KeepsTasks, QueueOK
<1>2. CASE ~Holds(w)
  BY <1>2, IdleQueue DEF Nack
<1>3. QED
  BY <1>1, <1>2

-----------------------------------------------------------------------------
(* One step of the client or of a worker.                                  *)

RestOK ==
  /\ status \in Status
  /\ runner \in Owner \cup {NoOwner}
  /\ client \in {"idle", "start", "store", "signal", "resume"}
  /\ started \in BOOLEAN /\ dropped \in BOOLEAN
  /\ faults \in 0 .. MaxFaults

\* An instance that was marked is never PENDING again, one that was stored
\* never goes away.
KeepsStatus ==
  /\ status \notin Unstarted => status' \notin Unstarted
  /\ status # "NONE" => status' # "NONE"

\* What a worker relies on, it can go on relying on.
LEMMA OthersKept ==
  ASSUME Inv, KeepsTasks, KeepsStatus, NEW w \in Owner, work'[w] = work[w]
  PROVE  WorkOK(work'[w], issued', task', status')
<1>1. WorkOK(work[w], issued, task, status)
  BY DEF Inv, WorkInv
<1>2. QED
  BY <1>1 DEF WorkOK, KeepsTasks, KeepsStatus

\* A step of the client, or of time.
LEMMA ClientStep ==
  ASSUME Inv, KeepsTasks, KeepsStatus, work' = work, RestOK', ClientInv',
         StartNotForgotten'
  PROVE  Inv'
<1>1. TypeOK'
  BY DEF Inv, TypeOK, KeepsTasks, QueueOK, RestOK
<1>2. \A w \in Owner : WorkOK(work'[w], issued', task', status')
  BY OthersKept
<1>3. WorkInv'
  BY <1>2 DEF WorkInv, WorkOK
<1>4. QED
  BY <1>1, <1>3 DEF Inv

\* A step of one worker, which goes on as x.
LEMMA WorkerStep ==
  ASSUME Inv, KeepsTasks, KeepsStatus, NEW w \in Owner, NEW x \in Work,
         WorkOK(x, issued', task', status'), work' = [work EXCEPT ![w] = x],
         UNCHANGED <<client, started>>, RestOK', StartNotForgotten'
  PROVE  Inv'
<1>1. work \in [Owner -> Work]
  BY DEF Inv, TypeOK
<1>2. work' \in [Owner -> Work] /\ work'[w] = x /\ \A v \in Owner \ {w} : work'[v] = work[v]
  BY <1>1
<1>3. TypeOK'
  BY <1>2 DEF TypeOK, KeepsTasks, QueueOK, RestOK
<1>4. \A v \in Owner : WorkOK(work'[v], issued', task', status')
  BY <1>2, OthersKept
<1>5. WorkInv'
  BY <1>4 DEF WorkInv, WorkOK
<1>6. ClientInv'
  BY DEF Inv, ClientInv, KeepsStatus
<1>7. QED
  BY <1>3, <1>5, <1>6 DEF Inv

\* A step remembers the start unless a worker removes its task, or is done
\* with it while it has it in hand.
LEMMA RememberedStep ==
  ASSUME Inv, KeepsTasks, dropped => dropped',
         \A t \in DOMAIN holder : task[t].type = "start" => t \in DOMAIN holder' \/ Remembered',
         \A v \in Owner : LosesStart(v) => work'[v] = work[v] \/ Remembered',
         Remembered
  PROVE  Remembered'
<1>1. CASE dropped
  BY <1>1 DEF Remembered
<1>2. CASE \E t \in DOMAIN holder : task[t].type = "start"
  BY <1>2 DEF Remembered, KeepsTasks, Inv, TypeOK
<1>3. ASSUME NEW v \in Owner, LosesStart(v), work'[v] = work[v]
      PROVE  Remembered'
  <2>1. work[v].id \in issued
    BY <1>3 DEF Inv, WorkInv, WorkOK, LosesStart
  <2>2. work[v].id \notin DOMAIN holder'
    BY <1>3, <2>1 DEF LosesStart, KeepsTasks
  <2>3. LosesStart(v)'
    BY <1>3, <2>2 DEF LosesStart
  <2>4. QED
    BY <2>3 DEF Remembered
<1>4. QED
  BY <1>1, <1>2, <1>3 DEF Remembered

\* So the property holds on, if the step accepts no start and does not make
\* the instance PENDING.
LEMMA NotForgottenStep ==
  ASSUME Inv, KeepsTasks, dropped => dropped',
         \A t \in DOMAIN holder : task[t].type = "start" => t \in DOMAIN holder' \/ Remembered',
         \A v \in Owner : LosesStart(v) => work'[v] = work[v] \/ Remembered',
         started' = started, status' = "PENDING" => status = "PENDING"
  PROVE  StartNotForgotten'
<1>1. Remembered => Remembered'
  BY RememberedStep
<1>2. QED
  BY <1>1 DEF Inv, StartNotForgotten, Remembered

-----------------------------------------------------------------------------
(* The client and the environment.                                         *)

\* Start stores the instance as PENDING; it is accepted only later.
LEMMA StartSaveInv ==
  ASSUME Inv, StartSave
  PROVE  Inv'
<1>1. KeepsTasks /\ KeepsStatus
  BY IdleQueue DEF Inv, StartSave, KeepsStatus, Unstarted
<1>2. RestOK' /\ ClientInv' /\ work' = work
  BY DEF Inv, TypeOK, StartSave, RestOK, ClientInv, Status
<1>3. StartNotForgotten'
  BY DEF Inv, ClientInv, StartSave, StartNotForgotten
<1>4. QED
  BY <1>1, <1>2, <1>3, ClientStep

\* It is accepted together with its task.
LEMMA StartEnqueueInv ==
  ASSUME Inv, StartEnqueue
  PROVE  Inv'
<1>1. KeepsTasks /\ \E t \in DOMAIN holder' : task'[t].type = "start"
  BY EnqueueFacts DEF Inv, StartEnqueue, Type
<1>2. KeepsStatus
  BY DEF StartEnqueue, KeepsStatus
<1>3. RestOK' /\ ClientInv' /\ work' = work
  BY DEF Inv, TypeOK, StartEnqueue, RestOK, ClientInv
<1>4. StartNotForgotten'
  BY <1>1 DEF StartNotForgotten
<1>5. QED
  BY <1>1, <1>2, <1>3, <1>4, ClientStep

\* The other methods that enqueue a task.
LEMMA ClientEnqueueInv ==
  ASSUME Inv, SignalOrResumeEnqueue \/ EnqueueSignal
  PROVE  Inv'
<1>1. PICK type \in Type : Enqueue(type, 0)
  BY DEF SignalOrResumeEnqueue, EnqueueSignal, Type
<1>2. KeepsTasks /\ DOMAIN holder \subseteq DOMAIN holder'
  BY <1>1, EnqueueFacts DEF Inv
<1>3. UNCHANGED <<status, runner, work, started, dropped, faults>>
      /\ client' \in {"idle", client} /\ KeepsStatus
  BY DEF SignalOrResumeEnqueue, EnqueueSignal, KeepsStatus
<1>4. RestOK' /\ ClientInv'
  BY <1>3 DEF Inv, TypeOK, RestOK, ClientInv
<1>5. StartNotForgotten'
  BY <1>2, <1>3, NotForgottenStep
<1>6. QED
  BY <1>2, <1>3, <1>4, <1>5, ClientStep

\* Steps that only read or write the instance, and those of a client that dies
\* and of an instance lease that ends.
LEMMA InstanceInv ==
  ASSUME Inv, \/ SignalLoad \/ SignalStore \/ ResumeLoad \/ Recover
              \/ ClientCrash \/ InstanceLeaseExpires
  PROVE  Inv'
<1>1. /\ UNCHANGED <<issued, holder, live, task, work, started, dropped>>
      /\ status' \in {status, "WAITING", "FAILED"}
      /\ client' \in {client, "idle", "store", "signal", "resume"}
      /\ runner' \in {runner, NoOwner}
  BY DEF SignalLoad, SignalStore, ResumeLoad, Recover, ClientCrash, InstanceLeaseExpires, queue
<1>2. KeepsTasks
  BY <1>1, IdleQueue DEF Inv, queue
<1>3. KeepsStatus
  BY <1>1 DEF KeepsStatus, Unstarted
<1>4. faults' \in 0 .. MaxFaults
  BY WorkerAssumption DEF Inv, TypeOK, SignalLoad, SignalStore, ResumeLoad, Recover,
                          ClientCrash, InstanceLeaseExpires, Fault
<1>5. RestOK' /\ ClientInv'
  BY <1>1, <1>4 DEF Inv, TypeOK, RestOK, Status, ClientInv
<1>6. StartNotForgotten'
  BY <1>1, <1>2, NotForgottenStep
<1>7. QED
  BY <1>1, <1>2, <1>3, <1>5, <1>6, ClientStep

\* A lease of a task runs out: the task stays in the queue.
LEMMA LeaseExpiresInv ==
  ASSUME Inv, NEW t \in TaskId, LeaseExpires(t)
  PROVE  Inv'
<1>1. UNCHANGED <<task, status, runner, client, work, started, dropped>>
  BY DEF LeaseExpires
<1>2. KeepsTasks /\ DOMAIN holder' = DOMAIN holder
  BY <1>1 DEF LeaseExpires, Queue!Lapse, Inv, TypeOK, KeepsTasks, QueueOK
<1>3. KeepsStatus /\ ClientInv'
  BY <1>1 DEF KeepsStatus, Inv, ClientInv
<1>4. faults' \in 0 .. MaxFaults
  BY WorkerAssumption DEF LeaseExpires, Fault, Inv, TypeOK
<1>5. RestOK'
  BY <1>1, <1>4 DEF Inv, TypeOK, RestOK
<1>6. StartNotForgotten'
  BY <1>1, <1>2, NotForgottenStep
<1>7. QED
  BY <1>1, <1>2, <1>3, <1>5, <1>6, ClientStep

-----------------------------------------------------------------------------
(* Worker.ProcessOne.                                                      *)

\* The worker takes a task with its type and attempts.
LEMMA DequeueInv ==
  ASSUME Inv, NEW w \in Owner, NEW t \in TaskId, Dequeue(w, t)
  PROVE  Inv'
<1> DEFINE x == [IdleWork EXCEPT !.pc = "load", !.id = t,
                                 !.type = task[t].type, !.attempts = task[t].attempts]
<1>1. UNCHANGED <<task, status, runner, client, started, dropped, faults>>
      /\ work' = [work EXCEPT ![w] = x]
  BY DEF Dequeue
<1>2. KeepsTasks /\ DOMAIN holder' = DOMAIN holder
  BY <1>1, LeaseFacts DEF Dequeue, Inv
<1>3. t \in issued /\ issued' = issued
  BY DEF Dequeue, Queue!Dequeue, Inv, TypeOK
<1>4. task[t] \in Task /\ t \in 0 .. MaxTasks
  BY <1>3, WorkerAssumption DEF Inv, TypeOK, TaskId
<1>5. x \in Work /\ x.pc = "load" /\ x.id = t /\ x.type = task[t].type
  BY <1>4 DEF IdleWork, Work, Task, Status
<1> HIDE DEF x
<1>6. WorkOK(x, issued', task', status')
  BY <1>1, <1>3, <1>5 DEF WorkOK
<1>7. KeepsStatus /\ RestOK'
  BY <1>1 DEF KeepsStatus, Inv, TypeOK, RestOK
<1>8. \A v \in Owner : LosesStart(v) => work'[v] = work[v]
  BY <1>1 DEF Dequeue, LosesStart, Inv, TypeOK
<1>9. StartNotForgotten'
  BY <1>1, <1>2, <1>8, NotForgottenStep
<1>10. QED
  BY <1>1, <1>2, <1>5, <1>6, <1>7, <1>9, WorkerStep

\* A worker that does not have a lost task in hand goes on as x, and every
\* task stays in the queue.
LEMMA ProceedStep ==
  ASSUME Inv, KeepsTasks, KeepsStatus, DOMAIN holder \subseteq DOMAIN holder',
         NEW w \in Owner, work[w].pc # "requeue", NEW x \in Work,
         WorkOK(x, issued', task', status'), work' = [work EXCEPT ![w] = x],
         UNCHANGED <<client, started>>, RestOK', dropped => dropped',
         status' = "PENDING" => status = "PENDING"
  PROVE  Inv'
<1>1. \A v \in Owner : LosesStart(v) => work'[v] = work[v]
  BY DEF LosesStart, Inv, TypeOK
<1>2. StartNotForgotten'
  BY <1>1, NotForgottenStep
<1>3. QED
  BY <1>2, WorkerStep

\* A worker without a task relies on nothing.
LEMMA IdleFacts ==
  IdleWork \in Work /\ \A ids, tasks, s : WorkOK(IdleWork, ids, tasks, s)
BY WorkerAssumption DEF IdleWork, Work, WorkOK, Type, Status

\* The call of the engine: the instance is loaded and checked.
LEMMA LoadInv ==
  ASSUME Inv, NEW w \in Owner, Load(w)
  PROVE  Inv'
<1>1. UNCHANGED <<issued, holder, live, task, status, runner, client, started, dropped, faults>>
      /\ work[w].pc = "load"
  BY DEF Load, queue
<1>2. KeepsTasks /\ KeepsStatus /\ RestOK'
  BY <1>1, IdleQueue DEF queue, KeepsStatus, Inv, TypeOK, RestOK
<1>3. work[w] \in Work /\ WorkOK(work[w], issued, task, status) /\ status \in Status
  BY DEF Inv, TypeOK, WorkInv
<1>4. CASE work' = [work EXCEPT ![w].pc = "acquire", ![w].seen = status]
  <2> DEFINE x == [work[w] EXCEPT !.pc = "acquire", !.seen = status]
  <2>1. /\ x \in Work /\ work' = [work EXCEPT ![w] = x]
        /\ x.pc = "acquire" /\ x.id = work[w].id /\ x.type = work[w].type
    BY <1>3, <1>4 DEF Work
  <2> HIDE DEF x
  <2>2. WorkOK(x, issued', task', status')
    BY <1>1, <1>3, <2>1 DEF WorkOK
  <2>3. QED
    BY <1>1, <1>2, <2>1, <2>2, ProceedStep
<1>5. CASE work' = [work EXCEPT ![w].pc = "answer", ![w].err = TRUE]
  <2> DEFINE x == [work[w] EXCEPT !.pc = "answer", !.err = TRUE]
  <2>1. /\ x \in Work /\ work' = [work EXCEPT ![w] = x]
        /\ x.pc = "answer" /\ x.err /\ x.id = work[w].id /\ x.type = work[w].type
    BY <1>3, <1>5 DEF Work
  <2> HIDE DEF x
  <2>2. WorkOK(x, issued', task', status')
    BY <1>1, <1>3, <2>1 DEF WorkOK
  <2>3. QED
    BY <1>1, <1>2, <2>1, <2>2, ProceedStep
<1>6. QED
  BY <1>4, <1>5 DEF Load

\* The instance is marked RUNNING under its lease, or somebody else has it.
LEMMA AcquireInv ==
  ASSUME Inv, NEW w \in Owner, Acquire(w)
  PROVE  Inv'
<1>1. UNCHANGED <<issued, holder, live, task, client, started, dropped, faults>>
      /\ work[w].pc = "acquire"
  BY DEF Acquire, queue
<1>2. KeepsTasks
  BY <1>1, IdleQueue DEF queue, Inv
<1>3. work[w] \in Work /\ WorkOK(work[w], issued, task, status)
  BY DEF Inv, TypeOK, WorkInv
<1>4. CASE /\ runner' = w /\ status' = "RUNNING"
           /\ work' = [work EXCEPT ![w].pc = "run"]
  <2> DEFINE x == [work[w] EXCEPT !.pc = "run"]
  <2>1. /\ x \in Work /\ work' = [work EXCEPT ![w] = x]
        /\ x.pc = "run" /\ x.id = work[w].id /\ x.type = work[w].type
    BY <1>3, <1>4 DEF Work
  <2> HIDE DEF x
  <2>2. WorkOK(x, issued', task', status')
    BY <1>1, <1>3, <1>4, <2>1 DEF WorkOK, Unstarted
  <2>3. KeepsStatus /\ RestOK'
    BY <1>1, <1>4 DEF KeepsStatus, Unstarted, Inv, TypeOK, RestOK, Status
  <2>4. QED
    BY <1>1, <1>2, <1>4, <2>1, <2>2, <2>3, ProceedStep
<1>5. CASE /\ UNCHANGED <<status, runner>>
           /\ work' = [work EXCEPT ![w].pc = "answer", ![w].seen = "NONE", ![w].err = TRUE]
  <2> DEFINE x == [work[w] EXCEPT !.pc = "answer", !.seen = "NONE", !.err = TRUE]
  <2>1. /\ x \in Work /\ work' = [work EXCEPT ![w] = x]
        /\ x.pc = "answer" /\ x.err /\ x.id = work[w].id /\ x.type = work[w].type
    BY <1>3, <1>5 DEF Work, Status
  <2> HIDE DEF x
  <2>2. WorkOK(x, issued', task', status')
    BY <1>1, <1>3, <1>5, <2>1 DEF WorkOK
  <2>3. KeepsStatus /\ RestOK'
    BY <1>1, <1>5 DEF KeepsStatus, Inv, TypeOK, RestOK
  <2>4. QED
    BY <1>1, <1>2, <1>5, <2>1, <2>2, <2>3, ProceedStep
<1>6. QED
  BY <1>4, <1>5 DEF Acquire

\* The steps end, and the instance is stored.
LEMMA FinishInv ==
  ASSUME Inv, NEW w \in Owner, Finish(w)
  PROVE  Inv'
<1>1. UNCHANGED <<issued, holder, live, task, client, started, dropped, faults>>
      /\ work[w].pc = "run" /\ runner' = NoOwner
  BY DEF Finish, queue
<1>2. PICK s \in {"COMPLETED", "WAITING", "FAILED"}, pc \in {"timeout", "answer"} :
        /\ status' = s
        /\ work' = [work EXCEPT ![w].pc = pc, ![w].seen = "NONE", ![w].err = s # "COMPLETED"]
  BY DEF Finish
<1> DEFINE x == [work[w] EXCEPT !.pc = pc, !.seen = "NONE", !.err = s # "COMPLETED"]
<1>3. work[w] \in Work /\ WorkOK(work[w], issued, task, status)
  BY DEF Inv, TypeOK, WorkInv
<1>4. /\ x \in Work /\ work' = [work EXCEPT ![w] = x]
      /\ x.pc = pc /\ x.id = work[w].id /\ x.type = work[w].type
  BY <1>2, <1>3 DEF Work, Status
<1> HIDE DEF x
<1>5. WorkOK(x, issued', task', status')
  BY <1>1, <1>2, <1>3, <1>4 DEF WorkOK, Unstarted
<1>6. KeepsTasks /\ KeepsStatus /\ RestOK'
  BY <1>1, <1>2, IdleQueue DEF queue, KeepsStatus, Unstarted, Inv, TypeOK, RestOK, Status
<1>7. QED
  BY <1>1, <1>2, <1>4, <1>5, <1>6, ProceedStep

\* A timeout task is enqueued for an instance that waits, or is not.
LEMMA ScheduleTimeoutInv ==
  ASSUME Inv, NEW w \in Owner, ScheduleTimeout(w)
  PROVE  Inv'
<1>1. UNCHANGED <<status, runner, client, started, dropped>> /\ work[w].pc = "timeout"
  BY DEF ScheduleTimeout
<1>2. KeepsTasks /\ DOMAIN holder \subseteq DOMAIN holder'
  BY EnqueueFacts, IdleQueue DEF ScheduleTimeout, Inv, Type
<1>3. faults' \in 0 .. MaxFaults
  BY WorkerAssumption DEF ScheduleTimeout, Fault, Inv, TypeOK
<1> DEFINE x == [work[w] EXCEPT !.pc = "answer", !.err = FALSE]
<1>4. work[w] \in Work /\ WorkOK(work[w], issued, task, status)
  BY DEF Inv, TypeOK, WorkInv
<1>5. /\ x \in Work /\ work' = [work EXCEPT ![w] = x]
      /\ x.pc = "answer" /\ x.id = work[w].id /\ x.type = work[w].type
  BY <1>4 DEF ScheduleTimeout, Work
<1> HIDE DEF x
<1>6. WorkOK(x, issued', task', status')
  BY <1>1, <1>2, <1>4, <1>5 DEF WorkOK, KeepsTasks
<1>7. KeepsStatus /\ RestOK'
  BY <1>1, <1>3 DEF KeepsStatus, Inv, TypeOK, RestOK
<1>8. QED
  BY <1>1, <1>2, <1>5, <1>6, <1>7, ProceedStep

\* The heartbeat of a worker.
LEMMA HeartbeatInv ==
  ASSUME Inv, NEW w \in Owner, Heartbeat(w)
  PROVE  Inv'
<1>1. UNCHANGED <<task, status, runner, client, work, started, dropped, faults>>
  BY DEF Heartbeat
<1>2. KeepsTasks /\ DOMAIN holder' = DOMAIN holder
  BY <1>1, LeaseFacts DEF Heartbeat, Inv
<1>3. KeepsStatus /\ ClientInv' /\ RestOK'
  BY <1>1 DEF KeepsStatus, Inv, ClientInv, TypeOK, RestOK
<1>4. StartNotForgotten'
  BY <1>1, <1>2, NotForgottenStep
<1>5. QED
  BY <1>1, <1>2, <1>3, <1>4, ClientStep

\* The task is removed.  A start task is removed after a success, when the
\* instance is not PENDING, or counts as dropped.
LEMMA AnswerAckInv ==
  ASSUME Inv, NEW w \in Owner, AnswerAck(w)
  PROVE  Inv'
<1>1. /\ UNCHANGED <<status, runner, client, started, faults>> /\ work[w].pc = "answer"
      /\ dropped' = (dropped \/ (work[w].type = "start" /\ work[w].err /\ Holds(w)))
      /\ work' = [work EXCEPT ![w] = IdleWork]
  BY DEF AnswerAck, Done
<1>2. /\ KeepsTasks
      /\ Holds(w) => DOMAIN holder' = DOMAIN holder \ {work[w].id}
      /\ ~Holds(w) => DOMAIN holder' = DOMAIN holder
  BY AckFacts DEF AnswerAck, Inv
<1>3. WorkOK(work[w], issued, task, status) /\ work[w] \in Work
  BY DEF Inv, TypeOK, WorkInv
<1>4. KeepsStatus
  BY <1>1 DEF KeepsStatus
<1>5. dropped' \in BOOLEAN /\ (dropped => dropped')
  BY <1>1 DEF Inv, TypeOK
<1>6. RestOK'
  BY <1>1, <1>5 DEF Inv, TypeOK, RestOK
<1>7. \A v \in Owner : LosesStart(v) => work'[v] = work[v]
  BY <1>1 DEF LosesStart, Inv, TypeOK
<1>8. CASE status = "PENDING"
  <2>1. work[w].err
    BY <1>1, <1>3, <1>8 DEF WorkOK, Unstarted
  <2>2. \A t \in DOMAIN holder : task[t].type = "start" => t \in DOMAIN holder' \/ dropped'
    BY <1>1, <1>2, <1>3, <2>1 DEF WorkOK
  <2>3. StartNotForgotten'
    BY <1>1, <1>2, <1>5, <1>7, <2>2, NotForgottenStep DEF Remembered
  <2>4. QED
    BY <1>1, <1>2, <1>4, <1>6, <2>3, IdleFacts, WorkerStep
<1>9. CASE status # "PENDING"
  <2>1. StartNotForgotten'
    BY <1>1, <1>9 DEF StartNotForgotten
  <2>2. QED
    BY <1>1, <1>2, <1>4, <1>6, <2>1, IdleFacts, WorkerStep
<1>10. QED
  BY <1>8, <1>9

\* The task is returned to the queue.
LEMMA AnswerNackInv ==
  ASSUME Inv, NEW w \in Owner, AnswerNack(w)
  PROVE  Inv'
<1>1. /\ UNCHANGED <<status, runner, client, started, dropped, faults>>
      /\ work[w].pc = "answer" /\ work' = [work EXCEPT ![w] = IdleWork]
  BY DEF AnswerNack, Done
<1>2. KeepsTasks /\ DOMAIN holder' = DOMAIN holder
  BY NackFacts DEF AnswerNack, Inv
<1>3. KeepsStatus /\ RestOK'
  BY <1>1 DEF KeepsStatus, Inv, TypeOK, RestOK
<1>4. QED
  BY <1>1, <1>2, <1>3, IdleFacts, ProceedStep

\* Nack fails, and the worker falls back to Ack and Enqueue.
LEMMA NackFailsInv ==
  ASSUME Inv, NEW w \in Owner, NackFails(w)
  PROVE  Inv'
<1>1. UNCHANGED <<issued, holder, live, task, status, runner, client, started, dropped>>
      /\ work[w].pc = "answer"
  BY DEF NackFails, queue
<1>2. faults' \in 0 .. MaxFaults
  BY WorkerAssumption DEF NackFails, Fault, Inv, TypeOK
<1>3. KeepsTasks /\ KeepsStatus /\ RestOK'
  BY <1>1, <1>2, IdleQueue DEF queue, KeepsStatus, Inv, TypeOK, RestOK
<1> DEFINE x == [work[w] EXCEPT !.pc = "ack"]
<1>4. work[w] \in Work /\ WorkOK(work[w], issued, task, status)
  BY DEF Inv, TypeOK, WorkInv
<1>5. /\ x \in Work /\ work' = [work EXCEPT ![w] = x]
      /\ x.pc = "ack" /\ x.id = work[w].id /\ x.type = work[w].type
  BY <1>4 DEF NackFails, Work
<1> HIDE DEF x
<1>6. WorkOK(x, issued', task', status')
  BY <1>1, <1>4, <1>5 DEF WorkOK
<1>7. QED
  BY <1>1, <1>3, <1>5, <1>6, ProceedStep

\* The Ack of the fallback: from now on the worker has a start task in hand.
LEMMA FallbackAckInv ==
  ASSUME Inv, NEW w \in Owner, FallbackAck(w)
  PROVE  Inv'
<1>1. UNCHANGED <<status, runner, client, started, dropped, faults>> /\ work[w].pc = "ack"
  BY DEF FallbackAck
<1>2. /\ KeepsTasks /\ task' = task
      /\ \/ DOMAIN holder' = DOMAIN holder
         \/ DOMAIN holder' = DOMAIN holder \ {work[w].id}
  BY AckFacts, IdleQueue DEF FallbackAck, Inv, queue
<1>3. KeepsStatus /\ RestOK'
  BY <1>1 DEF KeepsStatus, Inv, TypeOK, RestOK
<1> DEFINE x == [work[w] EXCEPT !.pc = "requeue"]
<1>4. work \in [Owner -> Work] /\ WorkOK(work[w], issued, task, status)
  BY DEF Inv, TypeOK, WorkInv
<1>5. /\ x \in Work /\ work' = [work EXCEPT ![w] = x]
      /\ x.pc = "requeue" /\ x.id = work[w].id /\ x.type = work[w].type
  BY <1>4 DEF FallbackAck, Work
<1> HIDE DEF x
<1>6. WorkOK(x, issued', task', status')
  BY <1>1, <1>2, <1>4, <1>5 DEF WorkOK, KeepsTasks
<1>7. work'[w] = x
  BY <1>4, <1>5
<1>8. ASSUME NEW t \in DOMAIN holder, task[t].type = "start", t \notin DOMAIN holder'
      PROVE  Remembered'
  <2>1. t = work[w].id /\ work[w].type = "start"
    BY <1>1, <1>2, <1>4, <1>8 DEF WorkOK
  <2>2. LosesStart(w)'
    BY <1>5, <1>7, <1>8, <2>1 DEF LosesStart
  <2>3. QED
    BY <2>2 DEF Remembered
<1>9. \A v \in Owner : LosesStart(v) => work'[v] = work[v]
  BY <1>1, <1>4, <1>5 DEF LosesStart
<1>10. StartNotForgotten'
  BY <1>1, <1>2, <1>8, <1>9, NotForgottenStep
<1>11. QED
  BY <1>1, <1>2, <1>3, <1>5, <1>6, <1>10, WorkerStep

\* The Enqueue of the fallback puts the task back, or it is dropped.
LEMMA FallbackEnqueueInv ==
  ASSUME Inv, NEW w \in Owner, FallbackEnqueue(w)
  PROVE  Inv'
<1>1. /\ UNCHANGED <<status, runner, client, started, faults>>
      /\ work' = [work EXCEPT ![w] = IdleWork]
  BY DEF FallbackEnqueue, Done
<1>2. work \in [Owner -> Work] /\ work[w].type \in Type /\ work[w].attempts + 1 \in Nat
  BY DEF Inv, TypeOK, Work
<1>3. /\ KeepsTasks /\ DOMAIN holder \subseteq DOMAIN holder'
      /\ dropped' \in BOOLEAN /\ (dropped => dropped')
      /\ LosesStart(w) => Remembered'
  <2>1. CASE Enqueue(work[w].type, work[w].attempts + 1) /\ UNCHANGED dropped
    <3>1. /\ KeepsTasks /\ DOMAIN holder \subseteq DOMAIN holder'
          /\ \E t \in DOMAIN holder' : task'[t].type = work[w].type
      BY <1>2, <2>1, EnqueueFacts DEF Inv
    <3>2. QED
      BY <2>1, <3>1 DEF Inv, TypeOK, LosesStart, Remembered
  <2>2. CASE UNCHANGED queue /\ dropped' = (dropped \/ LosesStart(w))
    <3>1. KeepsTasks /\ DOMAIN holder' = DOMAIN holder
      BY <2>2, IdleQueue DEF Inv
    <3>2. QED
      BY <2>2, <3>1 DEF Inv, TypeOK, LosesStart, Remembered
  <2>3. QED
    BY <2>1, <2>2 DEF FallbackEnqueue
<1>4. KeepsStatus /\ RestOK'
  BY <1>1, <1>3 DEF KeepsStatus, Inv, TypeOK, RestOK
<1>5. \A v \in Owner : LosesStart(v) => work'[v] = work[v] \/ Remembered'
  BY <1>1, <1>2, <1>3
<1>6. StartNotForgotten'
  BY <1>1, <1>3, <1>5, NotForgottenStep
<1>7. QED
  BY <1>1, <1>3, <1>4, <1>6, IdleFacts, WorkerStep

\* A worker dies: what it alone had in hand is dropped.
LEMMA CrashInv ==
  ASSUME Inv, NEW w \in Owner, Crash(w)
  PROVE  Inv'
<1>1. /\ UNCHANGED <<issued, holder, live, task, status, runner, client, started>>
      /\ work' = [work EXCEPT ![w] = IdleWork] /\ dropped' = (dropped \/ LosesStart(w))
  BY DEF Crash, Done, queue
<1>2. faults' \in 0 .. MaxFaults
  BY WorkerAssumption DEF Crash, Fault, Inv, TypeOK
<1>3. KeepsTasks /\ KeepsStatus
  BY <1>1, IdleQueue DEF queue, KeepsStatus, Inv
<1>4. dropped' \in BOOLEAN /\ (dropped => dropped') /\ (LosesStart(w) => Remembered')
  BY <1>1 DEF Inv, TypeOK, LosesStart, Remembered
<1>5. RestOK'
  BY <1>1, <1>2, <1>4 DEF Inv, TypeOK, RestOK
<1>6. \A v \in Owner : LosesStart(v) => work'[v] = work[v] \/ Remembered'
  BY <1>1, <1>4 DEF Inv, TypeOK
<1>7. StartNotForgotten'
  BY <1>1, <1>3, <1>4, <1>6, NotForgottenStep
<1>8. QED
  BY <1>1, <1>3, <1>5, <1>7, IdleFacts, WorkerStep

-----------------------------------------------------------------------------
\* The invariant holds however clients, workers, crashes, lapsed leases and
\* failing calls of the queue interleave.
THEOREM WorkerInvariant == Spec => []Inv
<1>1. Init => Inv
  <2>1. SUFFICES ASSUME Init PROVE Inv
    OBVIOUS
  <2>2. TypeOK
    <3>1. DOMAIN holder = {} /\ issued = {} /\ live = {} /\ DOMAIN task = {}
      BY <2>1 DEF Init, Queue!Init
    <3>2. QueueOK
      BY <2>1, <3>1 DEF Init, Queue!Init, QueueOK
    <3>3. faults \in 0 .. MaxFaults
      BY <2>1, WorkerAssumption DEF Init
    <3>4. RestOK
      BY <2>1, <3>3, Zenon DEF Init, RestOK, Status
    <3>5. work \in [Owner -> Work]
      BY <2>1, IdleFacts DEF Init
    <3>6. QED
      BY <3>2, <3>4, <3>5 DEF TypeOK, QueueOK, RestOK
  <2>3. WorkInv
    BY <2>1, IdleFacts DEF Init, WorkInv
  <2>4. ClientInv /\ StartNotForgotten
    BY <2>1 DEF Init, ClientInv, StartNotForgotten
  <2>5. QED
    BY <2>2, <2>3, <2>4 DEF Inv
<1>2. Inv /\ [Next]_vars => Inv'
  <2>1. SUFFICES ASSUME Inv, [Next]_vars PROVE Inv'
    OBVIOUS
  <2>2. CASE UNCHANGED vars
    <3>1. TypeOK' /\ ClientInv'
      BY <2>1, <2>2 DEF vars, Inv, TypeOK, ClientInv
    <3>2. WorkInv'
      BY <2>1, <2>2 DEF vars, Inv, WorkInv, WorkOK
    <3>3. StartNotForgotten'
      BY <2>1, <2>2 DEF vars, Inv, StartNotForgotten, LosesStart
    <3>4. QED
      BY <3>1, <3>2, <3>3 DEF Inv
  <2>3. CASE \/ StartSave \/ StartEnqueue \/ EnqueueSignal
             \/ SignalLoad \/ SignalStore \/ ResumeLoad \/ SignalOrResumeEnqueue
             \/ Recover \/ ClientCrash \/ InstanceLeaseExpires
    BY <2>1, <2>3, StartSaveInv, StartEnqueueInv, ClientEnqueueInv, InstanceInv
  <2>4. ASSUME NEW t \in TaskId, LeaseExpires(t)
        PROVE  Inv'
    BY <2>1, <2>4, LeaseExpiresInv
  <2>5. ASSUME NEW w \in Owner, Proceed(w)
        PROVE  Inv'
    BY <2>1, <2>5, LoadInv, AcquireInv, FinishInv, ScheduleTimeoutInv, AnswerAckInv,
       AnswerNackInv, NackFailsInv, FallbackAckInv, FallbackEnqueueInv DEF Proceed
  <2>6. ASSUME NEW w \in Owner, Heartbeat(w) \/ Crash(w) \/ \E t \in TaskId : Dequeue(w, t)
        PROVE  Inv'
    BY <2>1, <2>6, HeartbeatInv, CrashInv, DequeueInv
  <2>7. QED
    BY <2>1, <2>2, <2>3, <2>4, <2>5, <2>6 DEF Next
<1>3. QED
  BY <1>1, <1>2, PTL DEF Spec

\* Queue, instance and workers stay well typed; in particular every task in
\* the queue has its type and attempts stored.
THEOREM TypeCorrect == Spec => []TypeOK
BY WorkerInvariant, PTL DEF Inv

\* An accepted start that has not run yet is in the queue, in the hands of a
\* worker that falls back, or was given up after the last attempt.
THEOREM StartRemembered == Spec => []StartNotForgotten
BY WorkerInvariant, PTL DEF Inv

-----------------------------------------------------------------------------
(* How often a task is tried.                                              *)

\* What a worker w may rely on when x is what it is doing, h are the holders
\* and tasks the tasks: its attempt is allowed, a worker in the fallback of
\* Nack has another one left, and while it holds its task nobody else counts.
TryOK(x, w, h, tasks) ==
  /\ x.attempts < MaxAttempts
  /\ x.pc \in {"ack", "requeue"} => x.attempts + 1 < MaxAttempts
  /\ x.pc # "idle" /\ x.id \in DOMAIN h /\ h[x.id] = w =>
       tasks[x.id].attempts = x.attempts

LiveHeld == \A t \in live : holder[t] # NoOwner

\* The inductive invariant, together with Inv.
TryInv ==
  /\ LiveHeld
  /\ \A t \in DOMAIN holder : task[t].attempts < MaxAttempts
  /\ \A w \in Owner : TryOK(work[w], w, holder, task)

\* What an operation of the queue does to the counters, where S are the
\* workers that it gives no task to.
Counted ==
  \A t \in DOMAIN holder \cap DOMAIN holder' :
    /\ task'[t].attempts \in {task[t].attempts, task[t].attempts + 1}
    /\ t \in live /\ holder'[t] = NoOwner => task'[t].attempts = task[t].attempts + 1

NoGain(S) ==
  \A v \in S, t \in issued :
    t \in DOMAIN holder' /\ holder'[t] = v =>
      t \in DOMAIN holder /\ holder[t] = v /\ task'[t].attempts = task[t].attempts

Tries(S) ==
  /\ Counted /\ NoGain(S) /\ LiveHeld'
  /\ \A t \in DOMAIN holder' : task'[t].attempts < MaxAttempts

\* Enqueue adds a task that nobody holds.
LEMMA EnqueueTries ==
  ASSUME TypeOK, TryInv, NEW type, NEW n \in Nat, n < MaxAttempts, Enqueue(type, n)
  PROVE  Tries(Owner)
<1>1. PICK t \in TaskId :
        /\ Queue!Enqueue(t)
        /\ task' = [u \in DOMAIN task \cup {t} |->
                      IF u = t THEN [type |-> type, attempts |-> n] ELSE task[u]]
  BY DEF Enqueue
<1>2. /\ t \notin issued /\ live' = live
      /\ holder' = [u \in DOMAIN holder \cup {t} |-> IF u = t THEN NoOwner ELSE holder[u]]
  BY <1>1 DEF Queue!Enqueue
<1>3. DOMAIN task = issued /\ DOMAIN holder \subseteq issued /\ live \subseteq DOMAIN holder
  BY DEF TypeOK
<1>4. /\ DOMAIN holder' = DOMAIN holder \cup {t} /\ task'[t].attempts = n
      /\ \A u \in issued : task'[u] = task[u]
      /\ \A u \in DOMAIN holder : holder'[u] = holder[u]
      /\ holder'[t] = NoOwner
  BY <1>1, <1>2, <1>3
<1>5. Counted /\ LiveHeld'
  BY <1>2, <1>3, <1>4 DEF Counted, LiveHeld, TryInv
<1>6. NoGain(Owner)
  BY <1>2, <1>3, <1>4 DEF NoGain
<1>7. QED
  BY <1>3, <1>4, <1>5, <1>6 DEF Tries, TryInv

\* Nothing happens to the queue.
LEMMA IdleTries ==
  ASSUME TypeOK, TryInv, UNCHANGED queue
  PROVE  Tries(Owner)
<1>1. issued' = issued /\ holder' = holder /\ live' = live /\ task' = task
  BY DEF queue
<1>2. Counted /\ LiveHeld' /\ NoGain(Owner)
  BY <1>1 DEF Counted, NoGain, LiveHeld, TryInv
<1>3. QED
  BY <1>1, <1>2 DEF Tries, TryInv

\* RenewLease and the end of a lease give nobody a task.
LEMMA LeaseTries ==
  ASSUME TypeOK, TryInv, NEW t, NEW w \in Owner, task' = task,
         Queue!RenewLease(t, w) \/ Queue!Lapse
  PROVE  Tries(Owner)
<1>1. holder' = holder
  BY DEF Queue!RenewLease, Queue!Lapse
<1>2. LiveHeld'
  BY <1>1, WorkerAssumption DEF Queue!RenewLease, Queue!Lapse, LiveHeld, TryInv
<1>3. Counted /\ NoGain(Owner)
  BY <1>1 DEF Counted, NoGain, LiveHeld, TryInv
<1>4. QED
  BY <1>1, <1>2, <1>3 DEF Tries, TryInv

\* Dequeue gives w a task whose lease is not live, and takes such tasks back.
LEMMA DequeueTries ==
  ASSUME TypeOK, TryInv, NEW t, NEW w \in Owner, task' = task, Queue!Dequeue(t, w)
  PROVE  Tries(Owner \ {w})
<1>1. PICK back \in SUBSET Queue!Lapsed :
        holder' = [u \in DOMAIN holder |-> IF u = t THEN w
                                           ELSE IF u \in back THEN NoOwner
                                           ELSE holder[u]]
  BY DEF Queue!Dequeue
<1>2. t \in DOMAIN holder \ live /\ live' = live \cup {t} /\ w # NoOwner
  BY WorkerAssumption DEF Queue!Dequeue
<1>3. /\ DOMAIN holder' = DOMAIN holder
      /\ \A u \in DOMAIN holder : holder'[u] \in {w, NoOwner, holder[u]}
      /\ \A u \in live : holder'[u] = holder[u]
      /\ holder'[t] = w
  BY <1>1, <1>2 DEF Queue!Lapsed, TypeOK
<1>4. LiveHeld' /\ Counted
  BY <1>2, <1>3 DEF LiveHeld, Counted, TryInv
<1>5. NoGain(Owner \ {w})
  BY <1>3, WorkerAssumption DEF NoGain
<1>6. QED
  BY <1>3, <1>4, <1>5 DEF Tries, TryInv

\* Ack removes the task of its holder and leaves the others alone.
LEMMA AckTries ==
  ASSUME TypeOK, TryInv, NEW w \in Owner, Ack(w)
  PROVE  Tries(Owner)
<1>1. CASE Holds(w)
  <2>1. /\ holder' = [u \in DOMAIN holder \ {work[w].id} |-> holder[u]]
        /\ live' = live \ {work[w].id} /\ task' = task
    BY <1>1 DEF Ack, Queue!Ack
  <2>2. DOMAIN holder' \subseteq DOMAIN holder /\ \A u \in DOMAIN holder' : holder'[u] = holder[u]
    BY <2>1
  <2>3. live' \subseteq live /\ live' \subseteq DOMAIN holder'
    BY <2>1 DEF TypeOK
  <2>4. LiveHeld' /\ Counted /\ NoGain(Owner)
    BY <2>1, <2>2, <2>3 DEF LiveHeld, Counted, NoGain, TryInv
  <2>5. QED
    BY <2>1, <2>2, <2>4 DEF Tries, TryInv
<1>2. CASE ~Holds(w)
  BY <1>2, IdleTries DEF Ack, queue
<1>3. QED
  BY <1>1, <1>2

\* Nack adds one to the counter: the holder's own, which is the stored one.
LEMMA NackTries ==
  ASSUME TypeOK, TryInv, NEW w \in Owner, work[w].pc # "idle",
         work[w].attempts + 1 < MaxAttempts, Nack(w)
  PROVE  Tries(Owner)
<1>1. CASE Holds(w)
  <2>1. PICK id, n : id = work[w].id /\ n = work[w].attempts
    OBVIOUS
  <2>2. n \in Nat /\ n + 1 < MaxAttempts /\ id \in DOMAIN holder /\ id \in issued
    BY <1>1, <2>1 DEF TypeOK, Work, Holds
  <2>3. task[id].attempts = n
    BY <1>1, <2>1 DEF TryInv, TryOK, Holds
  <2>4. /\ task' = [task EXCEPT ![id].attempts = n + 1]
        /\ holder' = [holder EXCEPT ![id] = NoOwner] /\ live' = live \ {id}
    BY <1>1, <2>1 DEF Nack, Queue!Nack
  <2>5. /\ task'[id].attempts = n + 1
        /\ \A u \in issued : u # id => task'[u] = task[u]
    BY <2>2, <2>4 DEF TypeOK, Task
  <2>6. /\ DOMAIN holder' = DOMAIN holder /\ holder'[id] = NoOwner
        /\ \A u \in DOMAIN holder : u # id => holder'[u] = holder[u]
    BY <2>2, <2>4
  <2>7. DOMAIN holder \subseteq issued /\ live \subseteq DOMAIN holder
    BY DEF TypeOK
  <2>8. LiveHeld' /\ Counted
    BY <2>3, <2>4, <2>5, <2>6, <2>7 DEF LiveHeld, Counted, TryInv
  <2>9. NoGain(Owner)
    BY <2>5, <2>6, WorkerAssumption DEF NoGain
  <2>10. QED
    BY <2>2, <2>5, <2>6, <2>7, <2>8, <2>9 DEF Tries, TryInv
<1>2. CASE ~Holds(w)
  BY <1>2, IdleTries DEF Nack
<1>3. QED
  BY <1>1, <1>2

\* The other workers keep what they rely on when w goes on as x.
LEMMA TryStep ==
  ASSUME Inv, TryInv, NEW w \in Owner, Tries(Owner \ {w}), NEW x,
         work' = [work EXCEPT ![w] = x], TryOK(x, w, holder', task')
  PROVE  TryInv'
<1>1. /\ DOMAIN work = Owner
      /\ \A v \in Owner : work[v].pc # "idle" => work[v].id \in issued
  BY DEF Inv, TypeOK, WorkInv, WorkOK
<1>2. ASSUME NEW v \in Owner PROVE TryOK(work'[v], v, holder', task')
  <2>1. CASE v = w
    BY <1>1, <2>1
  <2>2. CASE v # w
    <3>1. work'[v] = work[v] /\ TryOK(work[v], v, holder, task)
      BY <1>1, <2>2 DEF TryInv
    <3>2. work[v].pc # "idle" /\ work[v].id \in DOMAIN holder' /\ holder'[work[v].id] = v =>
            /\ work[v].id \in DOMAIN holder /\ holder[work[v].id] = v
            /\ task'[work[v].id].attempts = task[work[v].id].attempts
      BY <1>1, <2>2 DEF Tries, NoGain
    <3>3. QED
      BY <3>1, <3>2 DEF TryOK
  <2>3. QED
    BY <2>1, <2>2
<1>3. QED
  BY <1>2 DEF Tries, TryInv

\* A worker goes on with the task in hand, and may fall back if it may retry.
LEMMA TryGoesOn ==
  ASSUME Inv, TryInv, NEW w \in Owner, Tries(Owner), NEW x,
         work' = [work EXCEPT ![w] = x], work[w].pc # "idle",
         x.id = work[w].id, x.attempts = work[w].attempts,
         x.pc \in {"ack", "requeue"} => work[w].attempts + 1 < MaxAttempts
  PROVE  TryInv'
<1>1. work[w].id \in issued /\ TryOK(work[w], w, holder, task)
  BY DEF Inv, WorkInv, WorkOK, TryInv
<1>2. x.id \in DOMAIN holder' /\ holder'[x.id] = w =>
        /\ x.id \in DOMAIN holder /\ holder[x.id] = w
        /\ task'[x.id].attempts = task[x.id].attempts
  BY <1>1 DEF Tries, NoGain
<1>3. TryOK(x, w, holder', task')
  BY <1>1, <1>2 DEF TryOK
<1>4. Tries(Owner \ {w})
  BY DEF Tries, NoGain
<1>5. QED
  BY <1>3, <1>4, TryStep

\* A worker has answered, or died.
LEMMA TryEnds ==
  ASSUME Inv, TryInv, NEW w \in Owner, Tries(Owner), Done(w)
  PROVE  TryInv'
<1>1. TryOK(IdleWork, w, holder', task')
  BY WorkerAssumption DEF IdleWork, TryOK
<1>2. Tries(Owner \ {w})
  BY DEF Tries, NoGain
<1>3. QED
  BY <1>1, <1>2, TryStep DEF Done

\* Only the queue changes.
LEMMA TryStays ==
  ASSUME Inv, TryInv, Tries(Owner), work' = work
  PROVE  TryInv'
<1>1. ASSUME NEW v \in Owner PROVE TryOK(work[v], v, holder', task')
  <2>1. TryOK(work[v], v, holder, task) /\ (work[v].pc # "idle" => work[v].id \in issued)
    BY DEF Inv, WorkInv, WorkOK, TryInv
  <2>2. work[v].pc # "idle" /\ work[v].id \in DOMAIN holder' /\ holder'[work[v].id] = v =>
          /\ work[v].id \in DOMAIN holder /\ holder[work[v].id] = v
          /\ task'[work[v].id].attempts = task[work[v].id].attempts
    BY <2>1 DEF Tries, NoGain
  <2>3. QED
    BY <2>1, <2>2 DEF TryOK
<1>2. QED
  BY <1>1 DEF Tries, TryInv

\* The client enqueues tasks that were never tried; time passes.
LEMMA ClientTries ==
  ASSUME Inv, TryInv,
         \/ StartSave \/ StartEnqueue \/ EnqueueSignal
         \/ SignalLoad \/ SignalStore \/ ResumeLoad \/ SignalOrResumeEnqueue
         \/ Recover \/ ClientCrash \/ InstanceLeaseExpires
         \/ \E t \in TaskId : LeaseExpires(t)
         \/ UNCHANGED vars
  PROVE  TryInv' /\ Counted
<1>1. TypeOK /\ 0 \in Nat /\ 0 < MaxAttempts
  BY WorkerAssumption DEF Inv
<1>2. CASE StartEnqueue \/ EnqueueSignal \/ SignalOrResumeEnqueue
  <2>1. work' = work /\ \E type : Enqueue(type, 0)
    BY <1>2 DEF StartEnqueue, EnqueueSignal, SignalOrResumeEnqueue
  <2>2. Tries(Owner)
    BY <1>1, <2>1, EnqueueTries
  <2>3. QED
    BY <2>1, <2>2, TryStays DEF Tries
<1>3. CASE StartSave \/ SignalLoad \/ SignalStore \/ ResumeLoad \/ UNCHANGED vars
  <2>1. work' = work /\ UNCHANGED queue
    BY <1>3 DEF StartSave, SignalLoad, SignalStore, ResumeLoad, vars, queue
  <2>2. QED
    BY <1>1, <2>1, IdleTries, TryStays DEF Tries
<1>4. CASE Recover \/ ClientCrash \/ InstanceLeaseExpires
  <2>1. work' = work /\ UNCHANGED queue
    BY <1>4 DEF Recover, ClientCrash, InstanceLeaseExpires
  <2>2. QED
    BY <1>1, <2>1, IdleTries, TryStays DEF Tries
<1>5. ASSUME NEW t \in TaskId, LeaseExpires(t)
      PROVE  TryInv' /\ Counted
  <2>1. work' = work /\ task' = task /\ holder' = holder /\ live' \subseteq live
    BY <1>5 DEF LeaseExpires, Queue!Lapse
  <2>2. Counted /\ NoGain(Owner) /\ LiveHeld'
    BY <2>1 DEF TryInv, LiveHeld, Counted, NoGain
  <2>3. Tries(Owner)
    BY <2>1, <2>2 DEF Tries, TryInv
  <2>4. QED
    BY <2>1, <2>2, <2>3, TryStays
<1>6. QED
  BY <1>2, <1>3, <1>4, <1>5

\* A worker takes a task with the counter stored for it.
LEMMA DequeueCounts ==
  ASSUME Inv, TryInv, NEW w \in Owner, NEW t \in TaskId, Dequeue(w, t)
  PROVE  TryInv' /\ Counted
<1> DEFINE x == [IdleWork EXCEPT !.pc = "load", !.id = t,
                    !.type = task[t].type, !.attempts = task[t].attempts]
<1>1. Queue!Dequeue(t, w) /\ task' = task /\ work' = [work EXCEPT ![w] = x]
  BY DEF Dequeue
<1>2. x.pc = "load" /\ x.id = t /\ x.attempts = task[t].attempts
  BY DEF IdleWork
<1> HIDE DEF x
<1>3. Tries(Owner \ {w})
  BY <1>1, DequeueTries DEF Inv
<1>4. t \in DOMAIN holder
  BY <1>1 DEF Queue!Dequeue
<1>5. TryOK(x, w, holder', task')
  BY <1>1, <1>2, <1>4 DEF TryOK, TryInv
<1>6. QED
  BY <1>1, <1>3, <1>5, TryStep DEF Tries

\* The call of the engine does not count; neither does a timeout that is
\* scheduled, which is a new task.
LEMMA CallCounts ==
  ASSUME Inv, TryInv, NEW w \in Owner,
         Load(w) \/ Acquire(w) \/ Finish(w) \/ ScheduleTimeout(w) \/ NackFails(w)
  PROVE  TryInv' /\ Counted
<1>1. TypeOK /\ DOMAIN work = Owner /\ work[w] \in Work
  BY DEF Inv, TypeOK
<1>2. work[w].pc # "idle"
  BY DEF Load, Acquire, Finish, ScheduleTimeout, NackFails
<1>3. PICK x :
        /\ work' = [work EXCEPT ![w] = x]
        /\ x.id = work[w].id /\ x.attempts = work[w].attempts
        /\ x.pc \in {"ack", "requeue"} => work[w].attempts + 1 < MaxAttempts
  <2>1. CASE Load(w)
    BY <1>1, <2>1 DEF Load, Work
  <2>2. CASE Acquire(w)
    BY <1>1, <2>2 DEF Acquire, Work
  <2>3. CASE Finish(w)
    <3>1. PICK s \in {"COMPLETED", "WAITING", "FAILED"}, pc \in {"timeout", "answer"} :
            work' = [work EXCEPT ![w].pc = pc, ![w].seen = "NONE", ![w].err = s # "COMPLETED"]
      BY <2>3 DEF Finish
    <3> DEFINE x == [work[w] EXCEPT !.pc = pc, !.seen = "NONE", !.err = s # "COMPLETED"]
    <3>2. /\ work' = [work EXCEPT ![w] = x] /\ x.pc = pc
          /\ x.id = work[w].id /\ x.attempts = work[w].attempts
      BY <1>1, <3>1 DEF Work
    <3>3. QED
      BY <3>2
  <2>4. CASE ScheduleTimeout(w)
    <3> DEFINE x == [work[w] EXCEPT !.pc = "answer", !.err = FALSE]
    <3>1. /\ work' = [work EXCEPT ![w] = x] /\ x.pc = "answer"
          /\ x.id = work[w].id /\ x.attempts = work[w].attempts
      BY <1>1, <2>4 DEF ScheduleTimeout, Work
    <3>2. QED
      BY <3>1
  <2>5. CASE NackFails(w)
    BY <1>1, <2>5 DEF NackFails, Retries, Work
  <2>6. QED
    BY <2>1, <2>2, <2>3, <2>4, <2>5
<1>4. Tries(Owner)
  <2>1. (\E type : Enqueue(type, 0)) \/ UNCHANGED queue
    BY DEF Load, Acquire, Finish, ScheduleTimeout, NackFails
  <2>2. 0 \in Nat /\ 0 < MaxAttempts
    BY WorkerAssumption
  <2>3. QED
    BY <1>1, <2>1, <2>2, EnqueueTries, IdleTries
<1>5. QED
  BY <1>2, <1>3, <1>4, TryGoesOn DEF Tries

\* The answers count as Ack, Nack and Enqueue do.
LEMMA AnswerCounts ==
  ASSUME Inv, TryInv, NEW w \in Owner,
         AnswerAck(w) \/ AnswerNack(w) \/ FallbackEnqueue(w) \/ Crash(w)
  PROVE  TryInv' /\ Counted
<1>1. TypeOK /\ work[w].attempts \in Nat /\ TryOK(work[w], w, holder, task)
  BY DEF Inv, TypeOK, Work, TryInv
<1>2. Done(w)
  BY DEF AnswerAck, AnswerNack, FallbackEnqueue, Crash
<1>3. Tries(Owner)
  <2>1. CASE AnswerAck(w)
    BY <1>1, <2>1, AckTries DEF AnswerAck
  <2>2. CASE AnswerNack(w)
    BY <1>1, <2>2, NackTries DEF AnswerNack, Retries
  <2>3. CASE FallbackEnqueue(w)
    <3>1. work[w].attempts + 1 \in Nat /\ work[w].attempts + 1 < MaxAttempts
      BY <1>1, <2>3 DEF FallbackEnqueue, TryOK
    <3>2. Enqueue(work[w].type, work[w].attempts + 1) \/ UNCHANGED queue
      BY <2>3 DEF FallbackEnqueue
    <3>3. QED
      BY <1>1, <3>1, <3>2, EnqueueTries, IdleTries
  <2>4. CASE Crash(w)
    BY <1>1, <2>4, IdleTries DEF Crash
  <2>5. QED
    BY <2>1, <2>2, <2>3, <2>4
<1>4. QED
  BY <1>2, <1>3, TryEnds DEF Tries

\* Renewing the lease and the Ack of the fallback leave the counters alone.
LEMMA HoldCounts ==
  ASSUME Inv, TryInv, NEW w \in Owner, Heartbeat(w) \/ FallbackAck(w)
  PROVE  TryInv' /\ Counted
<1>1. TypeOK /\ DOMAIN work = Owner /\ work[w] \in Work /\ TryOK(work[w], w, holder, task)
  BY DEF Inv, TypeOK, TryInv
<1>2. CASE Heartbeat(w)
  <2>1. Queue!RenewLease(work[w].id, w) /\ task' = task /\ work' = work
    BY <1>2 DEF Heartbeat
  <2>2. Tries(Owner)
    BY <1>1, <2>1, LeaseTries
  <2>3. QED
    BY <2>1, <2>2, TryStays DEF Tries
<1>3. CASE FallbackAck(w)
  <2>1. work[w].pc = "ack" /\ work' = [work EXCEPT ![w].pc = "requeue"]
    BY <1>3 DEF FallbackAck
  <2> DEFINE x == [work[w] EXCEPT !.pc = "requeue"]
  <2>2. /\ work' = [work EXCEPT ![w] = x] /\ x.pc = "requeue"
        /\ x.id = work[w].id /\ x.attempts = work[w].attempts
    BY <1>1, <2>1 DEF Work
  <2> HIDE DEF x
  <2>3. work[w].pc # "idle" /\ work[w].attempts + 1 < MaxAttempts
    BY <1>1, <2>1 DEF TryOK
  <2>4. Tries(Owner)
    BY <1>1, <1>3, AckTries, IdleTries DEF FallbackAck
  <2>5. QED
    BY <2>2, <2>3, <2>4, TryGoesOn DEF Tries
<1>4. QED
  BY <1>2, <1>3

\* Every step keeps the invariant and counts as it should.
LEMMA TryNext ==
  ASSUME Inv, TryInv, [Next]_vars
  PROVE  TryInv' /\ Counted
<1>1. ASSUME NEW w \in Owner, Proceed(w)
      PROVE  TryInv' /\ Counted
  BY <1>1, CallCounts, AnswerCounts, HoldCounts DEF Proceed
<1>2. ASSUME NEW w \in Owner, Heartbeat(w) \/ Crash(w) \/ \E t \in TaskId : Dequeue(w, t)
      PROVE  TryInv' /\ Counted
  BY <1>2, HoldCounts, AnswerCounts, DequeueCounts
<1>3. CASE UNCHANGED vars
  BY <1>3, ClientTries
<1>4. CASE Next
  BY <1>1, <1>2, <1>4, ClientTries DEF Next
<1>5. QED
  BY <1>3, <1>4

\* Before anything was enqueued nothing was tried.
LEMMA TryInit ==
  ASSUME Init PROVE TryInv
<1>1. DOMAIN holder = {} /\ live = {} /\ \A w \in Owner : work[w] = IdleWork
  BY DEF Init, Queue!Init
<1>2. \A w \in Owner : TryOK(IdleWork, w, holder, task)
  BY <1>1, WorkerAssumption DEF IdleWork, TryOK
<1>3. QED
  BY <1>1, <1>2 DEF TryInv, LiveHeld

\* A task that failed MaxAttempts times (Config.MaxAttempts of the worker) is
\* not tried again, by however many workers and through whatever faults.
THEOREM TriesBounded == Spec => []AttemptsBounded
<1>1. Inv /\ TryInv /\ [Next]_vars => TryInv'
  BY TryNext
<1>2. TryInv => AttemptsBounded
  BY DEF TryInv, TryOK, AttemptsBounded
<1>3. Init => TryInv
  BY TryInit
<1>4. QED
  BY <1>1, <1>2, <1>3, WorkerInvariant, PTL DEF Spec

\* A failed attempt is counted once, whoever answers and however late.
THEOREM TriesCounted == Spec => AttemptsCounted
<1>1. Inv /\ TryInv /\ [Next]_vars => TryInv' /\ Counted
  BY TryNext
<1>2. Init => TryInv
  BY TryInit
<1>3. QED
  BY <1>1, <1>2, WorkerInvariant, PTL DEF Spec, AttemptsCounted, Counted
=============================================================================
