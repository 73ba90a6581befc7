--------------------------- MODULE PostgresQueue ----------------------------
(***************************************************************************)
(* The task queue in a PostgreSQL table, postgres/internal/taskqueue/      *)
(* postgres_queue.go, with a worker's use of it (pkg/worker/worker.go).    *)
(* Dequeue claims and deletes a row in one transaction, so it is one       *)
(* action.  NotBefore is part of the payload only and delays nothing.      *)
(***************************************************************************)
EXTENDS Integers, Sequences, SequencesExt

CONSTANTS Worker,        \* workers, each with one task at a time
          NoTask,        \* not a task
          MaxTasks,      \* bound on the tasks submitted
          MaxAttempts    \* worker.Config.MaxAttempts

VARIABLES submitted,     \* tasks handed to Enqueue so far; they are numbered
          rows,          \* queue_tasks in the order of created_at
          held,          \* the task each worker is processing
          processed      \* history: tasks whose last attempt is over

vars == <<submitted, rows, held, processed>>

-----------------------------------------------------------------------------
Init ==
  /\ submitted = 0
  /\ rows = <<>>
  /\ held = [w \in Worker |-> NoTask]
  /\ processed = {}

\* No caller sets Task.ID and the id column is the primary key, so a second
\* row is refused while one is in the table: the caller gets an error.
Enqueue ==
  /\ submitted < MaxTasks
  /\ rows = <<>>
  /\ submitted' = submitted + 1
  /\ rows' = Append(rows, submitted + 1)
  /\ UNCHANGED <<held, processed>>

Dequeue(w) ==
  /\ held[w] = NoTask
  /\ rows # <<>>
  /\ held' = [held EXCEPT ![w] = Head(rows)]
  /\ rows' = Tail(rows)
  /\ UNCHANGED <<submitted, processed>>

\* The handler succeeded, or this was its last attempt.
Ack(w) ==
  /\ held[w] # NoTask
  /\ processed' = processed \cup {held[w]}
  /\ held' = [held EXCEPT ![w] = NoTask]
  /\ UNCHANGED <<submitted, rows>>

\* The handler failed and may be retried: the task's Attempts, never stored,
\* is 0.  Nack does nothing and reports success, so the worker does not fall
\* back to enqueueing the task again.
Nack(w) ==
  /\ held[w] # NoTask
  /\ MaxAttempts > 1
  /\ held' = [held EXCEPT ![w] = NoTask]
  /\ UNCHANGED <<submitted, rows, processed>>

\* The worker dies with its task.
Crash(w) ==
  /\ held[w] # NoTask
  /\ held' = [held EXCEPT ![w] = NoTask]
  /\ UNCHANGED <<submitted, rows, processed>>

Next ==
  \/ Enqueue
  \/ \E w \in Worker : Dequeue(w) \/ Ack(w) \/ Nack(w) \/ Crash(w)

Spec == Init /\ [][Next]_vars

-----------------------------------------------------------------------------
\* At-least-once delivery: a task that was accepted is in the table, with a
\* worker, or processed, also when a worker returned it or died with it.
NoTaskLost ==
  \A t \in 1 .. submitted :
    t \in ToSet(rows) \cup processed \/ \E w \in Worker : held[w] = t
=============================================================================
