----------------------------- MODULE RedisQueue -----------------------------
(***************************************************************************)
(* The task queue in Redis, redis/internal/taskqueue/redis_queue.go: two   *)
(* sorted sets and three hashes.  Enqueue is a transaction and Dequeue,    *)
(* RenewLease and Ack are scripts, so each is one action.  Nack reads the  *)
(* payload, writes it back with the new attempts, and then runs a script:  *)
(* three actions, between which anything may happen.  A worker handles one *)
(* task at a time, as Worker.ProcessOne does: it takes a task, may renew   *)
(* the lease, and then calls Ack or Nack once.  When Nack returns an error *)
(* it calls Ack, ignoring its answer, and enqueues the task again, under   *)
(* the same id (handleErr of pkg/worker/worker.go).  Of a payload only     *)
(* whether there is one is modelled: no operation looks at its contents.   *)
(***************************************************************************)
EXTENDS Integers, FiniteSets, Functions

CONSTANTS Owner, NoOwner,  \* workers; nobody
          TTL,             \* leaseTTL
          Batch,           \* expired tasks taken back by one Dequeue (100)
          MaxWait,         \* the longest delay a caller asks for
          MaxTasks,        \* bound on the tasks ever enqueued
          MaxTime          \* bound on the clock

ASSUME QueueAssumption ==
  /\ NoOwner \notin Owner
  /\ TTL \in Nat \ {0} /\ Batch \in Nat \ {0}
  /\ MaxWait \in Nat /\ MaxTasks \in Nat /\ MaxTime \in Nat

VARIABLES issued,          \* history: ids generated so far
          again,           \* history: ids enqueued a second time
          acked,           \* history: ids removed by Ack
          ready,           \* tasks:ready, id -> time it becomes runnable
          inflight,        \* tasks:inflight, id -> expiry of the lease
          payload,         \* tasks:payload, the ids that have one
          notBefore,       \* tasks:notbefore, id -> time
          owner,           \* tasks:owner, id -> worker
          worker,          \* what each worker is doing, and with which task
          now

vars == <<issued, again, acked, ready, inflight, payload, notBefore, owner, worker, now>>

Id == 1 .. MaxTasks

Put(f, k, v) == [x \in DOMAIN f \cup {k} |-> IF x = k THEN v ELSE f[x]]

Without(f, S) == Restrict(f, DOMAIN f \ S)

Empty == [id \in {} |-> 0]

IdleWorker == [pc |-> "idle", id |-> 0, at |-> 0]

Done(w) == worker' = [worker EXCEPT ![w] = IdleWorker]

-----------------------------------------------------------------------------
Init ==
  /\ issued = {} /\ again = {} /\ acked = {}
  /\ ready = Empty /\ inflight = Empty
  /\ payload = {} /\ notBefore = Empty /\ owner = Empty
  /\ worker = [w \in Owner |-> IdleWorker]
  /\ now = 1

\* Mutant: a zero NotBefore is stored as it is, as a time before the epoch.
SubmitZeroTime(id, wait) ==
  LET at == IF wait = 0 THEN -1 ELSE now + wait IN
  /\ id \notin issued
  /\ issued' = issued \cup {id}
  /\ payload' = payload \cup {id}
  /\ notBefore' = Put(notBefore, id, at)
  /\ ready' = Put(ready, id, at)
  /\ UNCHANGED <<again, acked, inflight, owner, worker, now>>

\* The transaction of Enqueue, whatever the keys hold for the id.
Enqueue(id, at) ==
  /\ payload' = payload \cup {id}
  /\ notBefore' = Put(notBefore, id, at)
  /\ ready' = Put(ready, id, at)
  /\ UNCHANGED <<inflight, owner, now>>

\* A task without an id gets a random one, and so one nobody used before.
Submit(id, wait) ==
  /\ id \notin issued
  /\ issued' = issued \cup {id}
  /\ Enqueue(id, now + wait)
  /\ UNCHANGED <<again, acked, worker>>

\* ZRANGEBYSCORE z -inf now LIMIT 0 n: the n members of lowest score that
\* are due; the ids being random, so is the order among equal scores.
IsRange(S, z, n) ==
  LET due == {id \in DOMAIN z : z[id] <= now} IN
  /\ S \subseteq due
  /\ Cardinality(S) <= n
  /\ Cardinality(S) = n \/ S = due
  /\ \A id \in S, other \in due \ S : z[id] <= z[other]

\* tasks:ready after the expired tasks are put back, with their time if it
\* is known.
Pool(expired) ==
  [x \in DOMAIN ready \cup expired |->
     IF x \notin expired THEN ready[x]
     ELSE IF x \in DOMAIN notBefore THEN notBefore[x] ELSE now]

\* Mutant: the owner of an expired task stays in the owner hash.
DequeueKeepsOwner(id, w) ==
  \E expired \in SUBSET DOMAIN inflight :
    /\ worker[w].pc = "idle"
    /\ IsRange(expired, inflight, Batch)
    /\ IsRange({id}, Pool(expired), 1)
    /\ ready' = Without(Pool(expired), {id})
    /\ inflight' = Put(Without(inflight, expired), id, now + TTL)
    /\ owner' = Put(owner, id, w)
    /\ worker' = IF id \in payload
                 THEN [worker EXCEPT ![w].pc = "busy", ![w].id = id] ELSE worker
    /\ UNCHANGED <<issued, again, acked, payload, notBefore, now>>

\* The script leases the id also if it has no payload; the call then takes
\* the answer for an empty one, and polls.
Dequeue(id, w) ==
  \E expired \in SUBSET DOMAIN inflight :
    /\ worker[w].pc = "idle"
    /\ IsRange(expired, inflight, Batch)
    /\ IsRange({id}, Pool(expired), 1)
    /\ ready' = Without(Pool(expired), {id})
    /\ inflight' = Put(Without(inflight, expired), id, now + TTL)
    /\ owner' = Put(Without(owner, expired), id, w)
    /\ worker' = IF id \in payload
                 THEN [worker EXCEPT ![w].pc = "busy", ![w].id = id] ELSE worker
    /\ UNCHANGED <<issued, again, acked, payload, notBefore, now>>

\* Nothing is due, and the call polls, although something may have expired.
DequeueNothing ==
  \E expired \in SUBSET DOMAIN inflight :
    /\ IsRange(expired, inflight, Batch)
    /\ IsRange({}, Pool(expired), 1)
    /\ ready' = Pool(expired)
    /\ inflight' = Without(inflight, expired)
    /\ owner' = Without(owner, expired)
    /\ UNCHANGED <<issued, again, acked, payload, notBefore, worker, now>>

\* The scripts of RenewLease, Ack and Nack do nothing for anyone else.
Holds(id, w) == id \in DOMAIN owner /\ owner[id] = w

RenewLease(w) ==
  /\ worker[w].pc = "busy" /\ Holds(worker[w].id, w)
  /\ inflight' = Put(inflight, worker[w].id, now + TTL)
  /\ UNCHANGED <<issued, again, acked, ready, payload, notBefore, owner, worker, now>>

\* The script of Ack, which leaves tasks:ready alone.
AckScript(id, w) ==
  /\ \/ /\ Holds(id, w)
        /\ inflight' = Without(inflight, {id})
        /\ owner' = Without(owner, {id})
        /\ payload' = payload \ {id}
        /\ notBefore' = Without(notBefore, {id})
        /\ acked' = acked \cup {id}
     \/ /\ ~Holds(id, w)
        /\ UNCHANGED <<inflight, owner, payload, notBefore, acked>>
  /\ UNCHANGED <<issued, again, ready, now>>

Ack(w) ==
  /\ worker[w].pc = "busy"
  /\ AckScript(worker[w].id, w)
  /\ Done(w)

Goes(w, pc) == worker' = [worker EXCEPT ![w].pc = pc]

\* HGET of the payload: if it is missing the call is over.  Here and below
\* the round trip may also fail, and the worker then falls back.
NackRead(w, wait) ==
  LET goes(pc) == worker' = [worker EXCEPT ![w].pc = pc, ![w].at = now + wait] IN
  /\ worker[w].pc = "busy"
  /\ \/ worker[w].id \in payload /\ goes("write")
     \/ worker[w].id \notin payload /\ Done(w)
     \/ goes("ack")
  /\ UNCHANGED <<issued, again, acked, ready, inflight, payload, notBefore, owner, now>>

NackWrite(w) ==
  /\ worker[w].pc = "write"
  /\ payload' = payload \cup {worker[w].id}
  /\ Goes(w, "move") \/ Goes(w, "ack")
  /\ UNCHANGED <<issued, again, acked, ready, inflight, notBefore, owner, now>>

\* Mutant: the script makes the task ready whoever holds it.
NackMoveUnchecked(w) ==
  LET id == worker[w].id IN
  /\ worker[w].pc = "move"
  /\ inflight' = Without(inflight, {id})
  /\ owner' = Without(owner, {id})
  /\ notBefore' = Put(notBefore, id, worker[w].at)
  /\ ready' = Put(ready, id, worker[w].at)
  /\ Done(w)
  /\ UNCHANGED <<issued, again, acked, payload, now>>

\* Mutant: the script leaves the old time of the task in notBefore.
NackMoveForgetsTime(w) ==
  LET id == worker[w].id IN
  /\ worker[w].pc = "move"
  /\ Holds(id, w)
  /\ inflight' = Without(inflight, {id})
  /\ owner' = Without(owner, {id})
  /\ ready' = Put(ready, id, worker[w].at)
  /\ Done(w)
  /\ UNCHANGED <<issued, again, acked, payload, notBefore, now>>

\* The script does nothing to a task that has no owner, which is no error,
\* or another one, which is.
NackMove(w) ==
  LET id == worker[w].id IN
  /\ worker[w].pc = "move"
  /\ \/ /\ Holds(id, w)
        /\ inflight' = Without(inflight, {id})
        /\ owner' = Without(owner, {id})
        /\ notBefore' = Put(notBefore, id, worker[w].at)
        /\ ready' = Put(ready, id, worker[w].at)
        /\ Done(w) \/ Goes(w, "ack")
     \/ /\ id \notin DOMAIN owner /\ Done(w)
        /\ UNCHANGED <<ready, inflight, notBefore, owner>>
     \/ /\ Goes(w, "ack")
        /\ UNCHANGED <<ready, inflight, notBefore, owner>>
  /\ UNCHANGED <<issued, again, acked, payload, now>>

FallbackAck(w) ==
  /\ worker[w].pc = "ack"
  /\ \/ AckScript(worker[w].id, w)
     \/ UNCHANGED <<issued, again, acked, ready, inflight, payload, notBefore, owner, now>>
  /\ Goes(w, "enqueue")

FallbackEnqueue(w) ==
  LET id == worker[w].id IN
  /\ worker[w].pc = "enqueue"
  /\ Enqueue(id, worker[w].at)
  /\ again' = again \cup {id}
  /\ Done(w)
  /\ UNCHANGED <<issued, acked>>

\* The worker dies, with a task or in the middle of Nack or of the fallback;
\* or its Ack, or the last call of the fallback, fails, which it ignores.
Crash(w) ==
  /\ worker[w].pc # "idle"
  /\ Done(w)
  /\ UNCHANGED <<issued, again, acked, ready, inflight, payload, notBefore, owner, now>>

Tick ==
  /\ now < MaxTime
  /\ now' = now + 1
  /\ UNCHANGED <<issued, again, acked, ready, inflight, payload, notBefore, owner, worker>>

Answers(w) ==
  \/ RenewLease(w) \/ Ack(w) \/ NackWrite(w) \/ NackMove(w)
  \/ FallbackAck(w) \/ FallbackEnqueue(w) \/ Crash(w)
  \/ \E wait \in 0 .. MaxWait : NackRead(w, wait)

Next ==
  \/ Tick \/ DequeueNothing
  \/ \E id \in Id, wait \in 0 .. MaxWait : Submit(id, wait)
  \/ \E id \in issued, w \in Owner : Dequeue(id, w)
  \/ \E w \in Owner : Answers(w)

Spec == Init /\ [][Next]_vars

-----------------------------------------------------------------------------
TypeOK ==
  /\ issued \subseteq Id
  /\ again \subseteq issued /\ acked \subseteq issued
  /\ ready \in [DOMAIN ready -> Nat]
  /\ inflight \in [DOMAIN inflight -> Nat]
  /\ notBefore \in [DOMAIN notBefore -> Nat]
  /\ owner \in [DOMAIN owner -> Owner]
  /\ DOMAIN ready \cup DOMAIN inflight \cup payload \subseteq issued
  /\ worker \in [Owner -> [pc : {"idle", "busy", "write", "move", "ack", "enqueue"},
                           id : 0 .. MaxTasks, at : Nat]]
  /\ now \in Nat

\* No task is lost before its Ack: it is ready or leased, and can be delivered
\* again, having a payload and a time.  And the five keys agree although no
\* operation but Enqueue writes them all: the leased tasks are those with an
\* owner, and, of tasks enqueued once, one is ready or leased and not both,
\* and nothing is left of one that is neither but maybe a payload.  So also
\* when a worker dies, loses its lease or falls back in the middle of Nack.
Recoverable ==
  /\ issued \ acked \subseteq (DOMAIN ready \cup DOMAIN inflight) \cap DOMAIN notBefore
  /\ DOMAIN notBefore \subseteq payload
  /\ DOMAIN owner = DOMAIN inflight
  /\ DOMAIN ready \cap DOMAIN inflight \subseteq again
  /\ DOMAIN notBefore \ again = (DOMAIN ready \cup DOMAIN inflight) \ again

\* A task that was enqueued once is leased only when its time has come, and
\* its time is the same in both keys that have one: when a lease runs out,
\* the script of Dequeue puts the task back with the delay that Enqueue or
\* the last Nack asked for.
NeverEarly ==
  /\ \A id \in DOMAIN inflight \ again : notBefore[id] <= now
  /\ \A id \in DOMAIN ready \ again : ready[id] = notBefore[id]

\* The keys keep the promises of LeaseQueue, to tasks that are enqueued once.
HolderOf == [id \in (DOMAIN ready \cup DOMAIN inflight) \ again |->
               IF id \in DOMAIN owner THEN owner[id] ELSE NoOwner]

LiveLeases == {id \in DOMAIN inflight \ again : inflight[id] > now}

Promise == INSTANCE LeaseQueue WITH TaskId <- Id,
                                    holder <- HolderOf,
                                    live <- LiveLeases

KeepsPromise == Promise!Spec
=============================================================================
