---------------------------- MODULE LocalRunner -----------------------------
(***************************************************************************)
(* local_runner.go: worker goroutines in one process, an in-memory queue   *)
(* between them and the callers of StartWorkflowAsync, and StartWorkers    *)
(* and Stop, which may be called by any goroutine and again.  A task runs  *)
(* a workflow of one step, a parallel one, see Parallel.                   *)
(*                                                                         *)
(* Every StartWorkers begins a generation of goroutines with a context.    *)
(* All share one Worker, with one attempt per task (worker.New), and one   *)
(* WaitGroup, whose counter is the number of live goroutines.  The tasks   *)
(* are leased under the one name of that Worker.  A lease may lapse at any *)
(* time, when its goroutine or the heartbeat is not scheduled; InMemory-   *)
(* Queue has the clock of the queue.                                       *)
(***************************************************************************)
EXTENDS Parallel, Sequences, Functions

CONSTANTS MaxGen,   \* bound on the calls of StartWorkers
          Worker,   \* goroutines of a generation
          Stopper,  \* goroutines that call Stop
          MaxTasks  \* bound on the tasks

Gen == 1 .. MaxGen

Task == 1 .. MaxTasks

ASSUME RunnerAssumption ==
  /\ MaxGen \in Nat /\ MaxTasks \in Nat
  /\ Exec = Gen \X Worker
  /\ Worker # {}

VARIABLES running,  \* r.running
          gen,      \* calls of StartWorkers so far; r.cancel is of this one
          loop,     \* where every worker goroutine is
          hand,     \* the task it processes
          nextID,   \* q.nextID, the tasks enqueued so far
          queue,    \* q.ready
          leased,   \* the ids of q.inflight
          handled,  \* history: the tasks that were run and acknowledged
          stop,     \* the calls of Stop
          restarted, \* history: StartWorkers was called during a Stop
          panicked  \* the process died of a panic

runner == <<running, gen, stop, restarted>>

tasks == <<nextID, queue, leased, handled>>

vars == <<cancelled, fan, runner, loop, hand, tasks, panicked>>

Init ==
  /\ ParallelInit
  /\ running = FALSE
  /\ gen = 0
  /\ loop = [x \in Exec |-> "off"]
  /\ hand = [x \in Exec |-> 0]
  /\ nextID = 0
  /\ queue = <<>>
  /\ leased = {}
  /\ handled = {}
  /\ stop = [s \in Stopper |-> [pc |-> "idle", gen |-> 0]]
  /\ restarted = FALSE
  /\ panicked = FALSE

Alive == {x \in Exec : loop[x] # "off"}

Members(g) == {x \in Exec : x[1] = g}

\* A panic ends the process.
Up == ~panicked /\ UNCHANGED panicked

Stopping == \E s \in Stopper : stop[s].pc \in {"cancel", "wait", "woken"}

-----------------------------------------------------------------------------
(* The methods of the runner.                                              *)

\* An error while running.
StartWorkers ==
  /\ Up
  /\ ~running
  /\ gen + 1 \in Gen
  /\ running' = TRUE
  /\ gen' = gen + 1
  /\ loop' = [x \in Exec |-> IF x \in Members(gen + 1) THEN "dequeue" ELSE loop[x]]
  /\ restarted' = (restarted \/ Stopping)
  /\ UNCHANGED <<cancelled, fan, hand, tasks, stop>>

\* Stop does nothing unless running.
Stop(s) ==
  /\ Up
  /\ stop[s].pc \in {"idle", "returned"}
  /\ running
  /\ running' = FALSE
  /\ stop' = [stop EXCEPT ![s] = [pc |-> "cancel", gen |-> gen]]
  /\ UNCHANGED <<cancelled, fan, gen, loop, hand, tasks, restarted>>

\* Mutant: the context is not cancelled.
StopWithoutCancel(s) ==
  /\ Up
  /\ stop[s].pc = "cancel"
  /\ stop' = [stop EXCEPT ![s].pc = "wait"]
  /\ UNCHANGED <<cancelled, fan, running, gen, loop, hand, tasks, restarted>>

\* Mutant: Stop returns without waiting for the goroutines.
StopCancelOnly(s) ==
  /\ Up
  /\ stop[s].pc = "cancel"
  /\ cancelled' = cancelled \cup Members(stop[s].gen)
  /\ stop' = [stop EXCEPT ![s].pc = "returned"]
  /\ UNCHANGED <<fan, running, gen, loop, hand, tasks, restarted>>

\* Mutant: r.cancel is read after the mutex is released.
StopLatest(s) ==
  /\ Up
  /\ stop[s].pc = "cancel"
  /\ cancelled' = cancelled \cup Members(gen)
  /\ stop' = [stop EXCEPT ![s].pc = "wait"]
  /\ UNCHANGED <<fan, running, gen, loop, hand, tasks, restarted>>

\* The mutex is released by now.
StopCancel(s) ==
  /\ Up
  /\ stop[s].pc = "cancel"
  /\ cancelled' = cancelled \cup Members(stop[s].gen)
  /\ stop' = [stop EXCEPT ![s].pc = "wait"]
  /\ UNCHANGED <<fan, running, gen, loop, hand, tasks, restarted>>

\* wg.Wait: the last Done wakes the waiters.
StopWait(s) ==
  /\ Up
  /\ stop[s].pc = "wait"
  /\ Alive = {}
  /\ stop' = [stop EXCEPT ![s].pc = "woken"]
  /\ UNCHANGED <<cancelled, fan, running, gen, loop, hand, tasks, restarted>>

\* A waiter that finds the WaitGroup in use again when it wakes up panics.
StopReturn(s) ==
  /\ stop[s].pc = "woken" /\ ~panicked
  /\ IF Alive = {}
     THEN stop' = [stop EXCEPT ![s].pc = "returned"] /\ UNCHANGED panicked
     ELSE panicked' = TRUE /\ UNCHANGED stop
  /\ UNCHANGED <<cancelled, fan, running, gen, loop, hand, tasks, restarted>>

\* The caller cancels the context it passed to StartWorkers.
CancelContext ==
  /\ Up
  /\ gen > 0
  /\ cancelled' = cancelled \cup Members(gen)
  /\ UNCHANGED <<fan, running, gen, loop, hand, tasks, stop, restarted>>

\* SignalAsync enqueues a task in the same way.
StartWorkflowAsync ==
  /\ Up
  /\ nextID + 1 \in Task
  /\ nextID' = nextID + 1
  /\ queue' = Append(queue, nextID + 1)
  /\ UNCHANGED <<cancelled, fan, runner, loop, hand, leased, handled>>

-----------------------------------------------------------------------------
(* The loop of a worker goroutine.                                         *)

\* Mutant: a lapsed lease is deleted and its task is not requeued.
DequeueDropsLapsed(x) ==
  /\ Up
  /\ loop[x] = "dequeue"
  /\ queue # <<>>
  /\ \E lapsed \in SUBSET leased :
       /\ hand' = [hand EXCEPT ![x] = Head(queue)]
       /\ queue' = Tail(queue)
       /\ leased' = (leased \ lapsed) \cup {Head(queue)}
  /\ loop' = [loop EXCEPT ![x] = "begin"]
  /\ UNCHANGED <<cancelled, fan, runner, nextID, handled>>

\* The first of the tasks that are ready, behind which those of the lapsed
\* leases are put, in any order.  The context is looked at before the queue,
\* so it may be cancelled by now.
Dequeue(x) ==
  /\ Up
  /\ loop[x] = "dequeue"
  /\ \E lapsed \in SUBSET leased :
       \E order \in Bijection(1 .. Cardinality(lapsed), lapsed) :
         LET ready == queue \o order IN
         /\ ready # <<>>
         /\ hand' = [hand EXCEPT ![x] = Head(ready)]
         /\ queue' = Tail(ready)
         /\ leased' = (leased \ lapsed) \cup {Head(ready)}
  /\ loop' = [loop EXCEPT ![x] = "begin"]
  /\ UNCHANGED <<cancelled, fan, runner, nextID, handled>>

DequeueCancelled(x) ==
  /\ Up
  /\ loop[x] = "dequeue" /\ x \in cancelled
  /\ loop' = [loop EXCEPT ![x] = "off"]
  /\ UNCHANGED <<cancelled, fan, runner, hand, tasks>>

\* executeSteps, which looks at the context before it calls the step.
BeginStep(x) ==
  /\ Up
  /\ loop[x] = "begin"
  /\ loop' = [loop EXCEPT ![x] = "step"]
  /\ IF x \in cancelled
     THEN fan' = [fan EXCEPT ![x].firstErr = "ctx"]
     ELSE ParallelStep(x) \/ ParallelMapStep(x)
  /\ UNCHANGED <<cancelled, runner, hand, tasks>>

Children(x) ==
  /\ Up
  /\ \E b \in Branch : Goroutine(x, b)
  /\ UNCHANGED <<cancelled, runner, loop, hand, tasks>>

JoinStep(x) ==
  /\ Up
  /\ Join(x)
  /\ UNCHANGED <<cancelled, runner, loop, hand, tasks>>

\* An error that is Canceled or DeadlineExceeded, whoever's, ends the
\* goroutine; others are logged.
EndTask(x) ==
  /\ loop' = [loop EXCEPT ![x] = IF fan[x].firstErr \in {"own", "ctx"} THEN "off" ELSE "dequeue"]
  /\ fan' = [fan EXCEPT ![x].firstErr = "none"]

\* Mutant: only a task that succeeded is acknowledged.
AckSuccess(x) ==
  /\ Up
  /\ loop[x] = "step" /\ ~fan[x].forked
  /\ IF fan[x].firstErr = "none"
     THEN handled' = handled \cup {hand[x]} /\ leased' = leased \ {hand[x]}
     ELSE UNCHANGED <<handled, leased>>
  /\ hand' = [hand EXCEPT ![x] = 0]
  /\ EndTask(x)
  /\ UNCHANGED <<cancelled, runner, nextID, queue>>

\* Mutant: the task is forgotten before it is acknowledged.
AckForgotten(x) ==
  /\ Up
  /\ loop[x] = "step" /\ ~fan[x].forked
  /\ hand' = [hand EXCEPT ![x] = 0]
  /\ handled' = handled \cup {hand'[x]}
  /\ leased' = leased \ {hand'[x]}
  /\ EndTask(x)
  /\ UNCHANGED <<cancelled, runner, nextID, queue>>

\* handleErr acknowledges the task in any case, there is one attempt.  The
\* queue deletes a lease that another goroutine has by now, for it has the
\* same name, and has nothing to delete when the task was requeued.
Ack(x) ==
  /\ Up
  /\ loop[x] = "step" /\ ~fan[x].forked
  /\ handled' = handled \cup {hand[x]}
  /\ leased' = leased \ {hand[x]}
  /\ hand' = [hand EXCEPT ![x] = 0]
  /\ EndTask(x)
  /\ UNCHANGED <<cancelled, runner, nextID, queue>>

Loop(x) ==
  /\ loop[x] # "off"
  /\ \/ Dequeue(x) \/ DequeueCancelled(x) \/ BeginStep(x)
     \/ Children(x) \/ JoinStep(x) \/ Ack(x)

StopProceeds(s) == StopCancel(s) \/ StopWait(s) \/ StopReturn(s)

Next ==
  \/ StartWorkers \/ CancelContext \/ StartWorkflowAsync
  \/ \E s \in Stopper : Stop(s) \/ StopProceeds(s)
  \/ \E x \in Exec : Loop(x)

Spec == Init /\ [][Next]_vars

\* Goroutines are scheduled, and the child steps return.  Every step of a Stop
\* or a loop changes the variables of its subscript.
FairSpec ==
  /\ Spec
  /\ \A s \in Stopper : WF_<<stop, panicked>>(StopProceeds(s))
  /\ \A x \in Exec : WF_<<loop[x], fan[x]>>(Loop(x))

-----------------------------------------------------------------------------
TypeOK ==
  /\ cancelled \subseteq Exec
  /\ fan \in [Exec -> Fan]
  /\ running \in BOOLEAN /\ restarted \in BOOLEAN /\ panicked \in BOOLEAN
  /\ gen \in {0} \cup Gen
  /\ loop \in [Exec -> {"off", "dequeue", "begin", "step"}]
  /\ hand \in [Exec -> Task \cup {0}]
  /\ nextID \in {0} \cup Task
  /\ queue \in Seq(Task)
  /\ leased \subseteq Task /\ handled \subseteq Task
  /\ stop \in [Stopper -> [pc : {"idle", "cancel", "wait", "woken", "returned"}, gen : {0} \cup Gen]]

\* When Stop has returned, nothing of what it stopped is left: no goroutine of
\* that generation or of an earlier one, no child step that one had forked,
\* and no task in their hands.
StopMeansStopped ==
  \A s \in Stopper :
    stop[s].pc = "returned" =>
      \A x \in Exec : x[1] <= stop[s].gen => loop[x] = "off" /\ hand[x] = 0 /\ Finished(x)

\* A Stop that is overtaken by StartWorkers does not end the new goroutines:
\* while the runner runs, no step of a Stop cancels their context.
NewWorkersSpared ==
  [][running /\ running' /\ stop' # stop =>
       Members(gen) \cap cancelled' = Members(gen) \cap cancelled]_vars

\* Leases that lapse and acknowledgements that come late, all under one name,
\* lose no task: one that was not yet run to its end waits, or is leased and
\* in the hands of a goroutine.
TaskKept ==
  \A t \in 1 .. nextID :
    \/ t \in handled
    \/ \E i \in DOMAIN queue : queue[i] = t
    \/ t \in leased /\ \E x \in Exec : hand[x] = t

\* Stop returns, unless StartWorkers brought new goroutines to wait for.
StopReturns ==
  \A s \in Stopper : stop[s].pc = "cancel" ~> stop[s].pc = "returned" \/ restarted

\* The workers catch up: again and again every task enqueued so far has been
\* run to its end, unless no worker is left.
TaskHandled ==
  []<>(1 .. nextID \subseteq handled \/ Alive = {} \/ panicked)
=============================================================================
