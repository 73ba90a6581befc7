--------------------------- MODULE InMemoryQueue ----------------------------
(***************************************************************************)
(* The in-process task queue, internal/taskqueue/inmemory_queue.go.        *)
(*                                                                         *)
(* Every method holds q.mu from its first read to its last write, so each  *)
(* is one action.  Points in time are kept as the time that remains until  *)
(* them: a task's "wait" is NotBefore - now and a lease's "left" is        *)
(* expiry - now, both stopping at 0, which is where every comparison in    *)
(* the code (NotBefore.After(now), expiry.After(now)) turns false.  Tick   *)
(* is the clock.  Time so has no horizon and behaviours go on for ever.    *)
(*                                                                         *)
(* What a task asks for and its attempts are opaque to the queue and left  *)
(* out.  The callers are whoever has work to hand out, and workers, which  *)
(* may share a name and have several tasks.  Of a worker, what bears on    *)
(* the queue is here: one whose lease was given to another may still       *)
(* answer, and if it does so with Nack, the refusal makes it enqueue a     *)
(* copy of the task (handleErr of pkg/worker/worker.go).                   *)
(***************************************************************************)
EXTENDS Integers, Sequences, FiniteSets, Functions

CONSTANTS Owner,        \* worker identities
          NoOwner,      \* not a worker
          TTL,          \* leaseTTL, in ticks
          MaxWait,      \* the longest delay a caller asks for, in ticks
          MaxTasks,     \* bound on the number of ids ever given out
          MaxEntries,   \* bound on what is in q.ready and q.inflight
          MaxLate       \* bound on the late workers that are followed

ASSUME QueueAssumption ==
  /\ NoOwner \notin Owner
  /\ TTL \in Nat \ {0}
  /\ MaxWait \in Nat /\ MaxTasks \in Nat /\ MaxEntries \in Nat /\ MaxLate \in Nat

VARIABLES nextID,       \* q.nextID
          ready,        \* q.ready
          inflight,     \* q.inflight, a function on the leased task ids
          late,         \* the workers that lost a lease and have yet to answer
          acked,        \* history: ids removed by Ack
          again         \* history: ids enqueued a second time

vars == <<nextID, ready, inflight, late, acked, again>>

NoID == 0               \* Task.ID == ""

Task == [id : Nat, wait : Nat]

LeasedTask == [task : Task, owner : Owner, left : Nat]

\* What is next: to answer, or the Ack or the Enqueue of the fallback.
Late == [owner : Owner, id : Nat, pc : {"answer", "ack", "enqueue"}]

Ids(s) == {s[i].id : i \in DOMAIN s}

Dec(n) == IF n = 0 THEN 0 ELSE n - 1

Remove(f, k) == [x \in DOMAIN f \ {k} |-> f[x]]

\* s without its i-th element.
Without(s, i) == [j \in 1 .. Len(s) - 1 |-> IF j < i THEN s[j] ELSE s[j + 1]]

-----------------------------------------------------------------------------
Init ==
  /\ nextID = 0
  /\ ready = <<>>
  /\ inflight = [id \in {} |-> NoOwner]
  /\ late = {}
  /\ acked = {}
  /\ again = {}

\* Mutant: a task enqueued without an id keeps the empty one.
EnqueueWithoutID(t) ==
  /\ nextID' = nextID + 1
  /\ ready' = Append(ready, t)
  /\ UNCHANGED <<inflight, acked>>

Enqueue(t) ==
  /\ IF t.id = NoID
     THEN /\ nextID' = nextID + 1
          /\ ready' = Append(ready, [t EXCEPT !.id = nextID + 1])
     ELSE /\ ready' = Append(ready, t)
          /\ UNCHANGED nextID
  /\ UNCHANGED <<inflight, acked>>

\* Mutant: a lease is taken back one tick before it runs out.
ExpiredEarly == {id \in DOMAIN inflight : inflight[id].left <= 1}

Expired == {id \in DOMAIN inflight : inflight[id].left = 0}

\* Mutant: what a lapsed lease gives back goes to the head of the queue.
RequeuedFirst(order) ==
  [i \in DOMAIN order |-> inflight[order[i]].task] \o ready

\* The tasks of q.ready after the expired leases are taken back.  The code
\* ranges over a Go map, which visits the keys in any order.
Requeued(order) ==
  ready \o [i \in DOMAIN order |-> inflight[order[i]].task]

\* Mutant: the head of the queue is taken whatever its NotBefore.
IsHead(s, idx) == idx = 1

IsFirstRunnable(s, idx) ==
  /\ s[idx].wait = 0
  /\ \A j \in 1 .. idx - 1 : s[j].wait # 0

\* The workers that lose a lease when t is delivered: those whose lease ran
\* out and is taken back, and one whose lease of the same id is replaced.
\* They will answer, or never do.
Losing(t) ==
  LET losers == {[owner |-> inflight[id].owner, id |-> id, pc |-> "answer"] :
                   id \in Expired \cup (DOMAIN inflight \cap {t.id})} IN
  late' = IF Cardinality(late \cup losers) <= MaxLate THEN late \cup losers ELSE late

\* Mutant: an expired task is requeued but its lease is not deleted.
DequeueKeepsExpired(w) ==
  \E order \in Bijection(1 .. Cardinality(Expired), Expired) :
    LET pool == Requeued(order) IN
    \E idx \in DOMAIN pool :
      LET t == pool[idx] IN
      /\ IsFirstRunnable(pool, idx)
      /\ ready' = Without(pool, idx)
      /\ inflight' = [id \in DOMAIN inflight \cup {t.id} |->
                        IF id = t.id THEN [task |-> t, owner |-> w, left |-> TTL]
                        ELSE inflight[id]]
      /\ Losing(t)
      /\ UNCHANGED <<nextID, acked, again>>

\* When nothing is runnable the call sleeps and looks again, having taken
\* nothing back (an expired task is runnable), so that changes nothing.
Dequeue(w) ==
  \E order \in Bijection(1 .. Cardinality(Expired), Expired) :
    LET pool == Requeued(order) IN
    \E idx \in DOMAIN pool :
      LET t == pool[idx] IN
      /\ IsFirstRunnable(pool, idx)
      /\ ready' = Without(pool, idx)
      /\ inflight' = [id \in (DOMAIN inflight \ Expired) \cup {t.id} |->
                        IF id = t.id THEN [task |-> t, owner |-> w, left |-> TTL]
                        ELSE inflight[id]]
      /\ Losing(t)
      /\ UNCHANGED <<nextID, acked, again>>

\* Whether the caller holds the lease.  Nobody looks at the expiry: a lease
\* that ran out is as good as a live one until Dequeue takes the task back.
Holds(id, w) == id \in DOMAIN inflight /\ inflight[id].owner = w

\* RenewLease, Ack and Nack change nothing for a caller without the lease.
RenewLease(id, w) ==
  /\ Holds(id, w)
  /\ inflight' = [inflight EXCEPT ![id].left = TTL]
  /\ UNCHANGED <<nextID, ready, late, acked, again>>

Ack(id, w) ==
  /\ inflight' = IF Holds(id, w) THEN Remove(inflight, id) ELSE inflight
  /\ acked' = IF Holds(id, w) THEN acked \cup {id} ELSE acked
  /\ UNCHANGED <<nextID, ready>>

Nack(id, w, wait) ==
  /\ Holds(id, w)
  /\ inflight' = Remove(inflight, id)
  /\ ready' = Append(ready, [inflight[id].task EXCEPT !.wait = wait])
  /\ UNCHANGED <<nextID, late, acked, again>>

Tick ==
  /\ ready' = [i \in DOMAIN ready |-> [ready[i] EXCEPT !.wait = Dec(@)]]
  /\ inflight' = [id \in DOMAIN inflight |-> [inflight[id] EXCEPT !.left = Dec(@)]]
  /\ UNCHANGED <<nextID, late, acked, again>>

-----------------------------------------------------------------------------
(* The callers of the queue.                                               *)

\* The Enqueue methods of Worker and of the engines pass no id.
Submit(wait) ==
  /\ nextID < MaxTasks
  /\ Enqueue([id |-> NoID, wait |-> wait])
  /\ UNCHANGED <<late, again>>

Answers(id, w) ==
  \/ RenewLease(id, w)
  \/ Ack(id, w) /\ UNCHANGED <<late, again>>
  \/ \E wait \in 0 .. MaxWait : Nack(id, w, wait)

Goes(c, pc) == late' = (late \ {c}) \cup {[c EXCEPT !.pc = pc]}

\* Ack and Nack for a lease that was taken back: nothing happens unless the
\* task was given to another worker; then both return an error, which the
\* caller of Ack passes on.
AnswersLate(c) ==
  /\ c.pc = "answer" /\ ~Holds(c.id, c.owner)
  /\ late' = late \ {c}
  /\ UNCHANGED <<nextID, ready, inflight, acked, again>>

\* The caller of Nack falls back.
NackRefused(c) ==
  /\ c.pc = "answer" /\ ~Holds(c.id, c.owner) /\ c.id \in DOMAIN inflight
  /\ Goes(c, "ack")
  /\ UNCHANGED <<nextID, ready, inflight, acked, again>>

\* The Ack that makes room for the copy does something only if a worker of
\* the same name has received the task in the meantime.
FallbackAck(c) ==
  /\ c.pc = "ack"
  /\ Ack(c.id, c.owner)
  /\ Goes(c, "enqueue")
  /\ UNCHANGED again

\* The copy keeps the id.
FallbackEnqueue(c, wait) ==
  /\ c.pc = "enqueue"
  /\ Len(ready) + Cardinality(DOMAIN inflight) < MaxEntries
  /\ Enqueue([id |-> c.id, wait |-> wait])
  /\ late' = late \ {c}
  /\ again' = again \cup {c.id}

Retries(c) ==
  \/ AnswersLate(c) \/ NackRefused(c) \/ FallbackAck(c)
  \/ \E wait \in 0 .. MaxWait : FallbackEnqueue(c, wait)

Next ==
  \/ Tick
  \/ \E wait \in 0 .. MaxWait : Submit(wait)
  \/ \E w \in Owner : Dequeue(w)
  \/ \E id \in 1 .. nextID, w \in Owner : Answers(id, w)
  \/ \E c \in late : Retries(c)

Spec == Init /\ [][Next]_vars

\* The clock advances, and some worker keeps polling Dequeue.
FairSpec == Spec /\ WF_vars(Tick) /\ WF_vars(\E w \in Owner : Dequeue(w))

-----------------------------------------------------------------------------
TypeOK ==
  /\ nextID \in 0 .. MaxTasks
  /\ ready \in Seq(Task)
  /\ DOMAIN inflight \subseteq 1 .. nextID
  /\ \A id \in DOMAIN inflight : inflight[id] \in LeasedTask
  /\ late \subseteq Late /\ \A c \in late : c.id \in 1 .. nextID
  /\ acked \subseteq 1 .. nextID
  /\ again \subseteq 1 .. nextID

\* No task is lost: every id given out by Enqueue and not yet removed by Ack
\* is in q.ready or in q.inflight, filed under its own id, whatever leases
\* expire, are renewed, returned or replaced meanwhile.  And none comes to be
\* there twice, or again after its Ack, by what the queue does: only a task
\* that a worker enqueued a second time does.
NoTaskLostOrDuplicated ==
  /\ \A id \in DOMAIN inflight : inflight[id].task.id = id
  /\ (1 .. nextID) \ acked \subseteq Ids(ready) \cup DOMAIN inflight
  /\ Ids(ready) \cup DOMAIN inflight \subseteq (1 .. nextID) \ (acked \ again)
  /\ Ids(ready) \cap DOMAIN inflight \subseteq again
  /\ \A i, j \in DOMAIN ready : ready[i].id = ready[j].id => i = j \/ ready[i].id \in again

\* A task is never in a worker's hands before its NotBefore, also not after
\* it was rescheduled by Nack or came back from an expired lease.  (Hence what
\* Dequeue takes back is runnable.)
NeverEarly == \A id \in DOMAIN inflight : inflight[id].task.wait = 0

\* The queue keeps the promises of LeaseQueue: a task is in the queue while
\* it is in q.ready or q.inflight, it is held by the owner of its inflight
\* entry, and its lease is live until its expiry.  Nothing is promised for a
\* task that was enqueued again.
HolderOf == [id \in (Ids(ready) \cup DOMAIN inflight) \ again |->
               IF id \in DOMAIN inflight THEN inflight[id].owner ELSE NoOwner]

LiveLeases == {id \in DOMAIN inflight \ again : inflight[id].left > 0}

Promise == INSTANCE LeaseQueue WITH TaskId <- 1 .. MaxTasks,
                                    issued <- 1 .. nextID,
                                    holder <- HolderOf,
                                    live <- LiveLeases

KeepsPromise == Promise!Spec

\* No task starves: as long as some worker keeps polling, a task waiting in
\* q.ready is handed to a worker, however many other tasks are enqueued,
\* returned with Nack, or taken back from workers that never answer.
EveryTaskDelivered ==
  \A id \in 1 .. MaxTasks : id \in Ids(ready) ~> id \in DOMAIN inflight
=============================================================================
