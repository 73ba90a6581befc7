--------------------------- MODULE DatabaseQueue ----------------------------
(***************************************************************************)
(* The task queues in an SQLite table, internal/taskqueue/sqlite_queue.go, *)
(* and in a MongoDB collection, mongo/internal/taskqueue/mongo_queue.go.   *)
(* A row is also a document here.  Every method is one statement, or one   *)
(* command on one document, which the database executes atomically, so     *)
(* each is one action.  The two differ in which tasks a worker may claim   *)
(* and in the order of equals.  Dequeue orders by the absolute not_before, *)
(* so time is a clock here, with the horizon MaxTime.                      *)
(***************************************************************************)
EXTENDS Integers, FiniteSets

CONSTANTS Backend,         \* the databases considered: "sqlite", "mongo"
          Owner, NoOwner,  \* WorkerIDs; leased_by = ''
          Body,            \* type, names and payload; opaque to the queue
          TTL,             \* leaseTTL
          MaxWait,         \* the longest delay a caller asks for
          MaxAttempts,     \* the largest attempt count passed to Nack
          MaxTasks,        \* bound on the rows ever inserted
          MaxTime          \* bound on the clock

ASSUME QueueAssumption ==
  /\ Backend \subseteq {"sqlite", "mongo"}
  /\ NoOwner \notin Owner
  /\ TTL \in Nat \ {0}
  /\ MaxWait \in Nat /\ MaxAttempts \in Nat /\ MaxTasks \in Nat /\ MaxTime \in Nat

VARIABLES db,              \* the database in use, fixed from the start
          lastID,          \* the AUTOINCREMENT counter; random ids are as good
          tasks,           \* the rows, by id
          now

vars == <<db, lastID, tasks, now>>

Row == [body : Body, enqueued_at : Nat, not_before : Nat, attempts : Nat,
        leased_by : Owner \cup {NoOwner}, lease_expires_at : Nat]

-----------------------------------------------------------------------------
Init ==
  /\ db \in Backend
  /\ lastID = 0
  /\ tasks = [id \in {} |-> NoOwner]
  /\ now = 1

\* Mutant: the id of the new row comes from a counter that is not advanced.
EnqueueSameID(body, wait, attempts) ==
  /\ tasks' = [id \in DOMAIN tasks \cup {lastID + 1} |->
                 IF id = lastID + 1
                 THEN [body |-> body, enqueued_at |-> now, not_before |-> now + wait,
                       attempts |-> attempts, leased_by |-> NoOwner, lease_expires_at |-> 0]
                 ELSE tasks[id]]
  /\ UNCHANGED <<db, lastID, now>>

\* A zero NotBefore is stored as the time of the call: wait = 0.
Enqueue(body, wait, attempts) ==
  /\ lastID' = lastID + 1
  /\ tasks' = [id \in DOMAIN tasks \cup {lastID + 1} |->
                 IF id = lastID + 1
                 THEN [body |-> body, enqueued_at |-> now, not_before |-> now + wait,
                       attempts |-> attempts, leased_by |-> NoOwner, lease_expires_at |-> 0]
                 ELSE tasks[id]]
  /\ UNCHANGED <<db, now>>

\* Mutant: the expiry is compared the wrong way round.
ClaimableWhileLive(id, w) ==
  /\ tasks[id].not_before <= now
  /\ tasks[id].leased_by = NoOwner \/ tasks[id].lease_expires_at > now

\* MongoDB also lets a worker claim what it has leased itself.
Claimable(id, w) ==
  /\ tasks[id].not_before <= now
  /\ \/ tasks[id].leased_by = NoOwner
     \/ tasks[id].lease_expires_at <= now
     \/ db = "mongo" /\ tasks[id].leased_by = w

\* SQLite sorts by not_before and id; MongoDB by not_before and created_at,
\* with equals in any order.
NotAfter(i, j) ==
  \/ tasks[i].not_before < tasks[j].not_before
  \/ /\ tasks[i].not_before = tasks[j].not_before
     /\ IF db = "sqlite" THEN i <= j ELSE tasks[i].enqueued_at <= tasks[j].enqueued_at

\* A row whose payload does not decode is claimed all the same; its worker
\* gets an error and never answers.  With no claimable row the call polls.
Dequeue(id, w) ==
  /\ id \in DOMAIN tasks /\ Claimable(id, w)
  /\ \A other \in DOMAIN tasks : Claimable(other, w) => NotAfter(id, other)
  /\ tasks' = [tasks EXCEPT ![id].leased_by = w, ![id].lease_expires_at = now + TTL]
  /\ UNCHANGED <<db, lastID, now>>

Holds(id, w) == id \in DOMAIN tasks /\ tasks[id].leased_by = w

\* The statements of RenewLease, Ack and Nack affect no row unless the
\* caller is the row's leased_by; they do not look at lease_expires_at.
RenewLease(id, w) ==
  /\ Holds(id, w)
  /\ tasks' = [tasks EXCEPT ![id].lease_expires_at = now + TTL]
  /\ UNCHANGED <<db, lastID, now>>

Ack(id, w) ==
  /\ Holds(id, w)
  /\ tasks' = [u \in DOMAIN tasks \ {id} |-> tasks[u]]
  /\ UNCHANGED <<db, lastID, now>>

Nack(id, w, wait, attempts) ==
  /\ Holds(id, w)
  /\ tasks' = [tasks EXCEPT ![id].leased_by = NoOwner,
                            ![id].lease_expires_at = 0,
                            ![id].not_before = now + wait,
                            ![id].attempts = attempts]
  /\ UNCHANGED <<db, lastID, now>>

Tick ==
  /\ now < MaxTime
  /\ now' = now + 1
  /\ UNCHANGED <<db, lastID, tasks>>

Next ==
  \/ Tick
  \/ \E body \in Body, wait \in 0 .. MaxWait :
       lastID < MaxTasks /\ Enqueue(body, wait, 0)
  \/ \E id \in DOMAIN tasks, w \in Owner :
       \/ Dequeue(id, w)
       \/ RenewLease(id, w)
       \/ Ack(id, w)
       \/ \E wait \in 0 .. MaxWait, attempts \in 1 .. MaxAttempts :
            Nack(id, w, wait, attempts)

Spec == Init /\ [][Next]_vars

-----------------------------------------------------------------------------
TypeOK ==
  /\ db \in Backend
  /\ lastID \in 0 .. MaxTasks
  /\ now \in 1 .. (MaxTime + 1)
  /\ DOMAIN tasks \subseteq 1 .. lastID
  /\ \A id \in DOMAIN tasks : tasks[id] \in Row

\* The table keeps the promises of LeaseQueue: a row is held by its
\* leased_by, also past lease_expires_at, until another worker claims it.
\* Giving a worker a task that it still has leased renews the lease.  No task
\* is enqueued again, since every Enqueue makes a row of its own.
HolderOf == [id \in DOMAIN tasks |-> tasks[id].leased_by]

LiveLeases == {id \in DOMAIN tasks : /\ tasks[id].leased_by # NoOwner
                                     /\ tasks[id].lease_expires_at > now}

Promise == INSTANCE LeaseQueue WITH TaskId <- 1 .. MaxTasks,
                                    issued <- 1 .. lastID,
                                    again <- {},
                                    holder <- HolderOf,
                                    live <- LiveLeases

KeepsPromise == Promise!Spec
=============================================================================
