-------------------------- MODULE RedisQueueProofs --------------------------
(***************************************************************************)
(* Proofs about RedisQueue: the five keys agree, no task is lost, and      *)
(* together they implement LeaseQueue, for any numbers of workers and      *)
(* tasks, any size of the batch and any horizon.                           *)
(***************************************************************************)
EXTENDS RedisQueue, TLAPS

WorkerState == [pc : {"idle", "busy", "write", "move", "ack", "enqueue"},
                id : 0 .. MaxTasks, at : Nat]

\* The part of TypeOK about the keys.
KeysTyped ==
  /\ issued \subseteq Id
  /\ again \subseteq issued /\ acked \subseteq issued
  /\ ready \in [DOMAIN ready -> Nat]
  /\ inflight \in [DOMAIN inflight -> Nat]
  /\ notBefore \in [DOMAIN notBefore -> Nat]
  /\ owner \in [DOMAIN owner -> Owner]
  /\ DOMAIN ready \cup DOMAIN inflight \cup payload \subseteq issued
  /\ now \in Nat

\* A worker has only tasks that were enqueued.  When its Nack comes to the
\* script and it still has the lease, then the payload it wrote is there,
\* since only the holder of the lease removes one.
WorkerInv ==
  /\ worker \in [Owner -> WorkerState]
  /\ \A w \in Owner :
       /\ worker[w].pc # "idle" => worker[w].id \in issued
       /\ worker[w].pc = "move" /\ Holds(worker[w].id, w) => worker[w].id \in payload

\* The inductive invariant.
Inv == KeysTyped /\ Recoverable /\ WorkerInv

\* A step gives v no lease, and takes no payload of a task that v has leased.
Kept(v) == \A id : Holds(id, v)' => Holds(id, v) /\ (id \in payload => id \in payload')

\* A step of no worker.
LEMMA WorkersSame ==
  ASSUME WorkerInv, worker' = worker, issued \subseteq issued', \A v \in Owner : Kept(v)
  PROVE  WorkerInv'
<1>1. ASSUME NEW v \in Owner
      PROVE  /\ worker'[v].pc # "idle" => worker'[v].id \in issued'
             /\ (worker[v].pc = "move" /\ Holds(worker[v].id, v))' => worker'[v].id \in payload'
  BY DEF WorkerInv, Kept, Holds
<1>2. worker' \in [Owner -> WorkerState]
  BY DEF WorkerInv
<1> QED
  BY <1>1, <1>2 DEF WorkerInv, Holds

\* A worker gets into a state s with a task that was enqueued.
LEMMA WorkerStep ==
  ASSUME WorkerInv, NEW w \in Owner, NEW s \in WorkerState,
         s.pc # "idle" => s.id \in issued,
         s.pc = "move" => s.id \in payload',
         worker' = [worker EXCEPT ![w] = s], issued' = issued,
         \A v \in Owner \ {w} : Kept(v)
  PROVE  WorkerInv'
<1>1. worker \in [Owner -> WorkerState]
  BY DEF WorkerInv
<1>2. worker' \in [Owner -> WorkerState] /\ worker'[w] = s
      /\ \A v \in Owner \ {w} : worker'[v] = worker[v]
  BY <1>1
<1>3. ASSUME NEW v \in Owner
      PROVE  /\ worker'[v].pc # "idle" => worker'[v].id \in issued'
             /\ (worker[v].pc = "move" /\ Holds(worker[v].id, v))' => worker'[v].id \in payload'
  <2>1. CASE v = w
    BY <1>2, <2>1
  <2>2. CASE v # w
    BY <1>2, <2>2 DEF WorkerInv, Kept, Holds
  <2> QED
    BY <2>1, <2>2
<1> QED
  BY <1>2, <1>3 DEF WorkerInv, Holds

\* A worker that returns, or is started again.
LEMMA DoneInv ==
  ASSUME WorkerInv, NEW w \in Owner, Done(w), issued' = issued,
         \A v \in Owner \ {w} : Kept(v)
  PROVE  WorkerInv'
<1>1. IdleWorker \in WorkerState /\ IdleWorker.pc = "idle"
  BY QueueAssumption DEF IdleWorker, WorkerState
<1>2. worker' = [worker EXCEPT ![w] = IdleWorker]
  BY DEF Done
<1> HIDE DEF IdleWorker
<1> QED
  BY <1>1, <1>2, WorkerStep

\* A worker that goes on with the task it has.
LEMMA GoesInv ==
  ASSUME WorkerInv, NEW w \in Owner, worker[w].pc # "idle",
         NEW pc \in {"move", "ack", "enqueue"}, pc = "move" => worker[w].id \in payload',
         Goes(w, pc), issued' = issued, \A v \in Owner \ {w} : Kept(v)
  PROVE  WorkerInv'
<1>1. worker \in [Owner -> WorkerState] /\ worker[w].id \in issued
  BY DEF WorkerInv
<1>2. PICK s : s = [worker[w] EXCEPT !.pc = pc]
  OBVIOUS
<1>3. s \in WorkerState /\ s.id = worker[w].id /\ s.pc = pc
  BY <1>1, <1>2 DEF WorkerState
<1>4. worker' = [worker EXCEPT ![w] = s]
  BY <1>1, <1>2 DEF Goes
<1> QED
  BY <1>1, <1>3, <1>4, WorkerStep

\* A step that leaves the keys alone.
LEMMA KeysSame ==
  ASSUME Inv, UNCHANGED <<issued, again, acked, ready, inflight, payload, notBefore, owner>>,
         now' \in Nat
  PROVE  KeysTyped' /\ Recoverable' /\ \A v \in Owner : Kept(v)
<1>1. KeysTyped'
  BY DEF Inv, KeysTyped
<1>2. Recoverable'
  BY DEF Inv, Recoverable
<1> QED
  BY <1>1, <1>2 DEF Kept, Holds

-----------------------------------------------------------------------------
\* The transaction of Enqueue, of a new task or of one that now counts as
\* enqueued again.
LEMMA EnqueueKeys ==
  ASSUME Inv, NEW id \in Id, NEW at \in Nat, Enqueue(id, at),
         issued' = issued \cup {id}, acked' = acked,
         again' = IF id \in issued THEN again \cup {id} ELSE again
  PROVE  KeysTyped' /\ Recoverable' /\ \A v \in Owner : Kept(v)
<1>1. /\ ready \in [DOMAIN ready -> Nat] /\ notBefore \in [DOMAIN notBefore -> Nat]
  BY DEF Inv, KeysTyped
<1>2. /\ DOMAIN ready' = DOMAIN ready \cup {id}
      /\ DOMAIN notBefore' = DOMAIN notBefore \cup {id}
      /\ ready' \in [DOMAIN ready' -> Nat]
      /\ notBefore' \in [DOMAIN notBefore' -> Nat]
  BY <1>1 DEF Enqueue, Put
<1>3. UNCHANGED <<inflight, owner, now>> /\ payload' = payload \cup {id}
  BY DEF Enqueue
<1>4. KeysTyped'
  BY <1>2, <1>3 DEF Inv, KeysTyped
<1>5. id \in issued \/ id \notin DOMAIN inflight
  BY DEF Inv, KeysTyped
<1>6. Recoverable'
  BY <1>2, <1>3, <1>5 DEF Inv, Recoverable
<1> QED
  BY <1>3, <1>4, <1>6 DEF Kept, Holds

\* A new task is enqueued.
LEMMA SubmitInv ==
  ASSUME Inv, NEW id \in Id, NEW wait \in 0 .. MaxWait, Submit(id, wait)
  PROVE  Inv'
<1>1. now + wait \in Nat
  BY QueueAssumption DEF Inv, KeysTyped
<1>2. KeysTyped' /\ Recoverable' /\ \A v \in Owner : Kept(v)
  BY <1>1, EnqueueKeys DEF Submit
<1>3. WorkerInv'
  BY <1>2, WorkersSame DEF Inv, Submit
<1> QED
  BY <1>2, <1>3 DEF Inv

\* The last step of the fallback, under the id of a task that may be ready
\* or leased to somebody else.
LEMMA FallbackEnqueueInv ==
  ASSUME Inv, NEW w \in Owner, FallbackEnqueue(w)
  PROVE  Inv'
<1>1. worker[w] \in WorkerState /\ worker[w].id \in issued
  BY DEF Inv, WorkerInv, FallbackEnqueue
<1>2. PICK id, at : id = worker[w].id /\ at = worker[w].at
  OBVIOUS
<1>3. id \in Id /\ at \in Nat /\ id \in issued
  BY <1>1, <1>2 DEF Inv, KeysTyped, WorkerState
<1>4. KeysTyped' /\ Recoverable' /\ \A v \in Owner : Kept(v)
  <2>1. Enqueue(id, at) /\ acked' = acked
    BY <1>2 DEF FallbackEnqueue
  <2>2. issued' = issued \cup {id}
    BY <1>3 DEF FallbackEnqueue
  <2>3. again' = IF id \in issued THEN again \cup {id} ELSE again
    BY <1>2, <1>3 DEF FallbackEnqueue
  <2> QED
    BY <1>3, <2>1, <2>2, <2>3, EnqueueKeys
<1>5. WorkerInv'
  BY <1>4, DoneInv DEF Inv, FallbackEnqueue
<1> QED
  BY <1>4, <1>5 DEF Inv

-----------------------------------------------------------------------------
\* The pool from which the script of Dequeue takes a task.
LEMMA PoolFacts ==
  ASSUME Inv, NEW expired \in SUBSET DOMAIN inflight
  PROVE  /\ DOMAIN Pool(expired) = DOMAIN ready \cup expired
         /\ Pool(expired) \in [DOMAIN ready \cup expired -> Nat]
BY DEF Inv, KeysTyped, Pool

\* What the script of Dequeue takes back and hands out: the expired tasks
\* are leased and have lapsed, and the task delivered is one of them or ready.
LEMMA DequeueFacts ==
  ASSUME Inv, NEW id \in issued, NEW w \in Owner, Dequeue(id, w)
  PROVE  \E expired \in SUBSET DOMAIN inflight :
           /\ \A x \in expired : inflight[x] <= now
           /\ id \in DOMAIN ready \cup expired
           /\ Pool(expired)[id] <= now
           /\ DOMAIN ready' = (DOMAIN ready \cup expired) \ {id}
           /\ ready' \in [DOMAIN ready' -> Nat]
           /\ \A x \in DOMAIN ready' : ready'[x] = Pool(expired)[x]
           /\ DOMAIN inflight' = (DOMAIN inflight \ expired) \cup {id}
           /\ inflight' \in [DOMAIN inflight' -> Nat]
           /\ inflight'[id] = now + TTL
           /\ \A x \in DOMAIN inflight' \ {id} : inflight'[x] = inflight[x]
           /\ DOMAIN owner' = (DOMAIN owner \ expired) \cup {id}
           /\ owner' \in [DOMAIN owner' -> Owner]
           /\ owner'[id] = w
           /\ \A x \in DOMAIN owner' \ {id} : owner'[x] = owner[x]
<1>1. PICK expired \in SUBSET DOMAIN inflight :
        /\ IsRange(expired, inflight, Batch)
        /\ IsRange({id}, Pool(expired), 1)
        /\ ready' = Without(Pool(expired), {id})
        /\ inflight' = Put(Without(inflight, expired), id, now + TTL)
        /\ owner' = Put(Without(owner, expired), id, w)
  BY DEF Dequeue
<1>2. /\ inflight \in [DOMAIN inflight -> Nat] /\ owner \in [DOMAIN owner -> Owner]
      /\ now + TTL \in Nat
  BY QueueAssumption DEF Inv, KeysTyped
<1>3. /\ DOMAIN Pool(expired) = DOMAIN ready \cup expired
      /\ Pool(expired) \in [DOMAIN ready \cup expired -> Nat]
  BY PoolFacts
<1>4. \A x \in expired : inflight[x] <= now
  BY <1>1 DEF IsRange
<1>5. id \in DOMAIN ready \cup expired /\ Pool(expired)[id] <= now
  BY <1>1, <1>3 DEF IsRange
<1>6. /\ DOMAIN ready' = (DOMAIN ready \cup expired) \ {id}
      /\ ready' \in [DOMAIN ready' -> Nat]
      /\ \A x \in DOMAIN ready' : ready'[x] = Pool(expired)[x]
  BY <1>1, <1>3 DEF Without, Restrict
<1>7. /\ DOMAIN inflight' = (DOMAIN inflight \ expired) \cup {id}
      /\ inflight' \in [DOMAIN inflight' -> Nat]
      /\ inflight'[id] = now + TTL
      /\ \A x \in DOMAIN inflight' \ {id} : inflight'[x] = inflight[x]
  <2> DEFINE kept == Without(inflight, expired)
  <2>1. /\ DOMAIN kept = DOMAIN inflight \ expired /\ kept \in [DOMAIN kept -> Nat]
        /\ \A x \in DOMAIN kept : kept[x] = inflight[x]
    BY <1>2 DEF kept, Without, Restrict
  <2> HIDE DEF kept
  <2>2. inflight' = Put(kept, id, now + TTL)
    BY <1>1 DEF kept
  <2>3. QED
    BY <1>2, <2>1, <2>2 DEF Put
<1>8. /\ DOMAIN owner' = (DOMAIN owner \ expired) \cup {id}
      /\ owner' \in [DOMAIN owner' -> Owner]
      /\ owner'[id] = w
      /\ \A x \in DOMAIN owner' \ {id} : owner'[x] = owner[x]
  <2> DEFINE kept == Without(owner, expired)
  <2>1. /\ DOMAIN kept = DOMAIN owner \ expired /\ kept \in [DOMAIN kept -> Owner]
        /\ \A x \in DOMAIN kept : kept[x] = owner[x]
    BY <1>2 DEF kept, Without, Restrict
  <2> HIDE DEF kept
  <2>2. owner' = Put(kept, id, w)
    BY <1>1 DEF kept
  <2>3. QED
    BY <2>1, <2>2 DEF Put
<1>9. WITNESS expired \in SUBSET DOMAIN inflight
<1>10. QED
  BY <1>4, <1>5, <1>6, <1>7, <1>8

\* The script of Dequeue moves every expired task back, whole, before it
\* hands one out.
LEMMA DequeueInv ==
  ASSUME Inv, NEW id \in issued, NEW w \in Owner, Dequeue(id, w)
  PROVE  Inv'
<1>1. PICK expired \in SUBSET DOMAIN inflight :
        /\ id \in DOMAIN ready \cup expired
        /\ DOMAIN ready' = (DOMAIN ready \cup expired) \ {id}
        /\ ready' \in [DOMAIN ready' -> Nat]
        /\ DOMAIN inflight' = (DOMAIN inflight \ expired) \cup {id}
        /\ inflight' \in [DOMAIN inflight' -> Nat]
        /\ DOMAIN owner' = (DOMAIN owner \ expired) \cup {id}
        /\ owner' \in [DOMAIN owner' -> Owner]
        /\ owner'[id] = w
        /\ \A x \in DOMAIN owner' \ {id} : owner'[x] = owner[x]
  BY DequeueFacts
<1>2. UNCHANGED <<issued, again, acked, payload, notBefore, now>>
  BY DEF Dequeue
<1>3. \A v \in Owner \ {w} : Kept(v)
  BY <1>1, <1>2 DEF Kept, Holds
<1>4. WorkerInv'
  <2>1. worker \in [Owner -> WorkerState] /\ worker[w].pc = "idle" /\ id \in 0 .. MaxTasks
    BY QueueAssumption DEF Inv, KeysTyped, WorkerInv, Id, Dequeue
  <2>2. CASE worker' = worker
    <3>1. PICK s : s = worker[w]
      OBVIOUS
    <3>2. worker' = [worker EXCEPT ![w] = s] /\ s \in WorkerState /\ s.pc = "idle"
      BY <2>1, <2>2, <3>1
    <3> QED
      BY <1>2, <1>3, <3>2, WorkerStep DEF Inv
  <2>3. CASE worker' = [worker EXCEPT ![w].pc = "busy", ![w].id = id]
    <3>1. PICK s : s = [worker[w] EXCEPT !.pc = "busy", !.id = id]
      OBVIOUS
    <3>2. s \in WorkerState /\ s.id = id /\ s.pc = "busy"
      BY <2>1, <3>1 DEF WorkerState
    <3>3. worker' = [worker EXCEPT ![w] = s]
      BY <2>1, <2>3, <3>1
    <3> QED
      BY <1>2, <1>3, <3>2, <3>3, WorkerStep DEF Inv
  <2> QED
    BY <2>2, <2>3 DEF Dequeue
<1>5. Recoverable'
  BY <1>1, <1>2 DEF Inv, Recoverable
<1>6. KeysTyped'
  BY <1>1, <1>2 DEF Inv, KeysTyped
<1> QED
  BY <1>4, <1>5, <1>6 DEF Inv

\* The script when it hands out nothing.
LEMMA NothingFacts ==
  ASSUME Inv, DequeueNothing
  PROVE  \E expired \in SUBSET DOMAIN inflight :
           /\ \A x \in expired : inflight[x] <= now
           /\ DOMAIN ready' = DOMAIN ready \cup expired
           /\ ready' \in [DOMAIN ready' -> Nat]
           /\ ready' = Pool(expired)
           /\ DOMAIN inflight' = DOMAIN inflight \ expired
           /\ inflight' \in [DOMAIN inflight' -> Nat]
           /\ \A x \in DOMAIN inflight' : inflight'[x] = inflight[x]
           /\ DOMAIN owner' = DOMAIN owner \ expired
           /\ owner' \in [DOMAIN owner' -> Owner]
           /\ \A x \in DOMAIN owner' : owner'[x] = owner[x]
<1>1. PICK expired \in SUBSET DOMAIN inflight :
        /\ IsRange(expired, inflight, Batch)
        /\ ready' = Pool(expired)
        /\ inflight' = Without(inflight, expired)
        /\ owner' = Without(owner, expired)
  BY DEF DequeueNothing
<1>2. inflight \in [DOMAIN inflight -> Nat] /\ owner \in [DOMAIN owner -> Owner]
  BY DEF Inv, KeysTyped
<1>3. \A x \in expired : inflight[x] <= now
  BY <1>1 DEF IsRange
<1>4. DOMAIN ready' = DOMAIN ready \cup expired /\ ready' \in [DOMAIN ready' -> Nat]
  BY <1>1, PoolFacts
<1>5. /\ DOMAIN inflight' = DOMAIN inflight \ expired
      /\ inflight' \in [DOMAIN inflight' -> Nat]
      /\ \A x \in DOMAIN inflight' : inflight'[x] = inflight[x]
  BY <1>1, <1>2 DEF Without, Restrict
<1>6. /\ DOMAIN owner' = DOMAIN owner \ expired
      /\ owner' \in [DOMAIN owner' -> Owner]
      /\ \A x \in DOMAIN owner' : owner'[x] = owner[x]
  BY <1>1, <1>2 DEF Without, Restrict
<1>7. WITNESS expired \in SUBSET DOMAIN inflight
<1>8. QED
  BY <1>1, <1>3, <1>4, <1>5, <1>6

\* The expired tasks are moved back whole also when nothing is due.
LEMMA DequeueNothingInv ==
  ASSUME Inv, DequeueNothing
  PROVE  Inv'
<1>1. PICK expired \in SUBSET DOMAIN inflight :
        /\ DOMAIN ready' = DOMAIN ready \cup expired
        /\ ready' \in [DOMAIN ready' -> Nat]
        /\ DOMAIN inflight' = DOMAIN inflight \ expired
        /\ inflight' \in [DOMAIN inflight' -> Nat]
        /\ DOMAIN owner' = DOMAIN owner \ expired
        /\ owner' \in [DOMAIN owner' -> Owner]
        /\ \A x \in DOMAIN owner' : owner'[x] = owner[x]
  BY NothingFacts
<1>2. UNCHANGED <<issued, again, acked, payload, notBefore, worker, now>>
  BY DEF DequeueNothing
<1>3. \A v \in Owner : Kept(v)
  BY <1>1, <1>2 DEF Kept, Holds
<1>4. WorkerInv'
  BY <1>2, <1>3, WorkersSame DEF Inv
<1>5. Recoverable'
  BY <1>1, <1>2 DEF Inv, Recoverable
<1>6. KeysTyped'
  BY <1>1, <1>2 DEF Inv, KeysTyped
<1> QED
  BY <1>4, <1>5, <1>6 DEF Inv

-----------------------------------------------------------------------------
\* A renewal that the owner check lets through is of a leased task.
LEMMA RenewLeaseInv ==
  ASSUME Inv, NEW w \in Owner, RenewLease(w)
  PROVE  Inv'
<1>1. now + TTL \in Nat /\ worker[w].id \in DOMAIN inflight
  BY QueueAssumption DEF Inv, KeysTyped, Recoverable, RenewLease, Holds
<1>2. DOMAIN inflight' = DOMAIN inflight /\ inflight' \in [DOMAIN inflight' -> Nat]
  BY <1>1 DEF Inv, KeysTyped, RenewLease, Put
<1>3. UNCHANGED <<issued, again, acked, ready, payload, notBefore, owner, worker, now>>
  BY DEF RenewLease
<1>4. KeysTyped' /\ Recoverable'
  BY <1>2, <1>3 DEF Inv, KeysTyped, Recoverable
<1>5. \A v \in Owner : Kept(v)
  BY <1>3 DEF Kept, Holds
<1> QED
  BY <1>3, <1>4, <1>5, WorkersSame DEF Inv

\* Ack of the owner removes the task from every key but the ready set, which
\* does not have it unless it was enqueued again; of anyone else, from none.
LEMMA AckKeys ==
  ASSUME Inv, NEW w \in Owner, NEW id, AckScript(id, w)
  PROVE  /\ KeysTyped' /\ Recoverable' /\ issued' = issued
         /\ \A v \in Owner \ {w} : Kept(v)
<1>1. UNCHANGED <<issued, again, ready, now>>
  BY DEF AckScript
<1>2. CASE UNCHANGED <<inflight, owner, payload, notBefore, acked>>
  BY <1>1, <1>2, KeysSame DEF Inv, KeysTyped
<1>3. CASE /\ Holds(id, w)
           /\ inflight' = Without(inflight, {id})
           /\ owner' = Without(owner, {id})
           /\ payload' = payload \ {id}
           /\ notBefore' = Without(notBefore, {id})
           /\ acked' = acked \cup {id}
  <2>1. /\ DOMAIN inflight' = DOMAIN inflight \ {id}
        /\ DOMAIN owner' = DOMAIN owner \ {id}
        /\ DOMAIN notBefore' = DOMAIN notBefore \ {id}
        /\ inflight' \in [DOMAIN inflight' -> Nat] /\ owner' \in [DOMAIN owner' -> Owner]
        /\ notBefore' \in [DOMAIN notBefore' -> Nat]
        /\ \A x \in DOMAIN owner' : owner'[x] = owner[x]
    BY <1>3 DEF Inv, KeysTyped, Without, Restrict
  <2>2. id \in DOMAIN inflight /\ owner[id] = w
    BY <1>3 DEF Inv, Recoverable, Holds
  <2>3. KeysTyped'
    BY <1>1, <1>3, <2>1, <2>2 DEF Inv, KeysTyped
  <2>4. Recoverable'
    <3>1. id \in again \/ id \notin DOMAIN ready
      BY <2>2 DEF Inv, Recoverable
    <3>2. /\ (issued \ acked \subseteq (DOMAIN ready \cup DOMAIN inflight) \cap DOMAIN notBefore)'
          /\ (DOMAIN notBefore \subseteq payload)'
      BY <1>1, <1>3, <2>1 DEF Inv, Recoverable
    <3>3. (DOMAIN notBefore \ again = (DOMAIN ready \cup DOMAIN inflight) \ again)'
      BY <1>1, <2>1, <3>1 DEF Inv, Recoverable
    <3> QED
      BY <1>1, <2>1, <3>2, <3>3 DEF Inv, Recoverable
  <2>5. \A v \in Owner \ {w} : Kept(v)
    BY <1>3, <2>1, <2>2 DEF Kept, Holds
  <2> QED
    BY <1>1, <2>3, <2>4, <2>5
<1>4. QED
  BY <1>2, <1>3 DEF AckScript

\* A worker is done with its task.
LEMMA AckInv ==
  ASSUME Inv, NEW w \in Owner, Ack(w)
  PROVE  Inv'
<1>1. /\ KeysTyped' /\ Recoverable' /\ issued' = issued
      /\ \A v \in Owner \ {w} : Kept(v)
  BY AckKeys DEF Ack
<1>2. WorkerInv'
  BY <1>1, DoneInv DEF Inv, Ack
<1> QED
  BY <1>1, <1>2 DEF Inv

\* The Ack of the fallback, which may be refused.
LEMMA FallbackAckInv ==
  ASSUME Inv, NEW w \in Owner, FallbackAck(w)
  PROVE  Inv'
<1>1. now \in Nat /\ worker[w].pc # "idle" /\ Goes(w, "enqueue")
  BY DEF Inv, KeysTyped, FallbackAck
<1>2. /\ KeysTyped' /\ Recoverable' /\ issued' = issued
      /\ \A v \in Owner \ {w} : Kept(v)
  BY <1>1, AckKeys, KeysSame DEF FallbackAck
<1>3. WorkerInv'
  BY <1>1, <1>2, GoesInv DEF Inv
<1> QED
  BY <1>2, <1>3 DEF Inv

\* The first request of Nack only reads.
LEMMA NackReadInv ==
  ASSUME Inv, NEW w \in Owner, NEW wait \in 0 .. MaxWait, NackRead(w, wait)
  PROVE  Inv'
<1>1. UNCHANGED <<issued, again, acked, ready, inflight, payload, notBefore, owner, now>>
      /\ now \in Nat
  BY DEF NackRead, Inv, KeysTyped
<1>2. KeysTyped' /\ Recoverable' /\ \A v \in Owner : Kept(v)
  BY <1>1, KeysSame
<1>3. ASSUME NEW pc \in {"write", "ack"},
             worker' = [worker EXCEPT ![w].pc = pc, ![w].at = now + wait]
      PROVE  WorkerInv'
  <2>1. worker \in [Owner -> WorkerState] /\ now + wait \in Nat
    BY QueueAssumption DEF Inv, KeysTyped, WorkerInv
  <2>2. PICK s : s = [worker[w] EXCEPT !.pc = pc, !.at = now + wait]
    OBVIOUS
  <2>3. s \in WorkerState /\ s.id = worker[w].id /\ s.pc = pc
    BY <2>1, <2>2 DEF WorkerState
  <2>4. worker' = [worker EXCEPT ![w] = s]
    BY <1>3, <2>1, <2>2
  <2>5. worker[w].id \in issued
    BY DEF NackRead, Inv, WorkerInv
  <2> QED
    BY <1>1, <1>2, <1>3, <2>3, <2>4, <2>5, WorkerStep DEF Inv
<1>4. WorkerInv'
  BY <1>1, <1>2, <1>3, DoneInv DEF NackRead, Inv
<1> QED
  BY <1>2, <1>4 DEF Inv

\* The second request may write the payload of a task that is gone meanwhile:
\* no other key has it, and none will unless it is enqueued again.
LEMMA NackWriteInv ==
  ASSUME Inv, NEW w \in Owner, NackWrite(w)
  PROVE  Inv'
<1>1. UNCHANGED <<issued, again, acked, ready, inflight, notBefore, owner, now>>
      /\ payload' = payload \cup {worker[w].id}
  BY DEF NackWrite
<1>2. worker[w].id \in issued /\ worker[w].pc # "idle"
  BY DEF NackWrite, Inv, WorkerInv
<1>3. KeysTyped'
  BY <1>1, <1>2 DEF Inv, KeysTyped
<1>4. Recoverable'
  BY <1>1 DEF Inv, Recoverable
<1>5. \A v \in Owner : Kept(v)
  BY <1>1 DEF Kept, Holds
<1>6. Goes(w, "move") \/ Goes(w, "ack")
  BY DEF NackWrite
<1>7. WorkerInv'
  BY <1>1, <1>2, <1>5, <1>6, GoesInv DEF Inv
<1> QED
  BY <1>3, <1>4, <1>7 DEF Inv

\* What the script of Nack does to the keys for the owner of the task.
LEMMA NackFacts ==
  ASSUME Inv, NEW w \in Owner, NackMove(w), ready' # ready \/ inflight' # inflight
  PROVE  \E id \in DOMAIN inflight, at \in Nat :
           /\ id = worker[w].id /\ id \in issued /\ owner[id] = w
           /\ DOMAIN inflight' = DOMAIN inflight \ {id}
           /\ inflight' \in [DOMAIN inflight' -> Nat]
           /\ \A x \in DOMAIN inflight' : inflight'[x] = inflight[x]
           /\ DOMAIN owner' = DOMAIN owner \ {id}
           /\ owner' \in [DOMAIN owner' -> Owner]
           /\ \A x \in DOMAIN owner' : owner'[x] = owner[x]
           /\ ready' = Put(ready, id, at) /\ notBefore' = Put(notBefore, id, at)
           /\ id \in payload
<1>1. /\ Holds(worker[w].id, w)
      /\ inflight' = Without(inflight, {worker[w].id})
      /\ owner' = Without(owner, {worker[w].id})
      /\ notBefore' = Put(notBefore, worker[w].id, worker[w].at)
      /\ ready' = Put(ready, worker[w].id, worker[w].at)
  BY DEF NackMove
<1>2. worker[w] \in WorkerState
  BY DEF Inv, WorkerInv
<1>3. PICK id \in DOMAIN inflight, at \in Nat : id = worker[w].id /\ at = worker[w].at
  BY <1>1, <1>2 DEF WorkerState, Inv, Recoverable, Holds
<1>4. owner[id] = w
  BY <1>1, <1>3 DEF Inv, Recoverable, Holds
<1>5. id \in issued /\ id \in payload
  BY <1>1, <1>3 DEF Inv, WorkerInv, NackMove
<1>6. /\ DOMAIN inflight' = DOMAIN inflight \ {id}
      /\ inflight' \in [DOMAIN inflight' -> Nat]
      /\ \A x \in DOMAIN inflight' : inflight'[x] = inflight[x]
      /\ DOMAIN owner' = DOMAIN owner \ {id}
      /\ owner' \in [DOMAIN owner' -> Owner]
      /\ \A x \in DOMAIN owner' : owner'[x] = owner[x]
  BY <1>1, <1>3 DEF Inv, KeysTyped, Without, Restrict
<1>7. WITNESS id \in DOMAIN inflight, at \in Nat
<1>8. QED
  BY <1>1, <1>3, <1>4, <1>5, <1>6

\* The script of Nack moves a task of its owner from one set to the other.
LEMMA NackMoveInv ==
  ASSUME Inv, NEW w \in Owner, NackMove(w)
  PROVE  Inv'
<1>1. UNCHANGED <<issued, again, acked, payload, now>> /\ now \in Nat
      /\ worker[w].pc # "idle" /\ (Done(w) \/ Goes(w, "ack"))
  BY DEF NackMove, Inv, KeysTyped
<1>2. KeysTyped' /\ Recoverable' /\ \A v \in Owner : Kept(v)
  <2>1. CASE UNCHANGED <<ready, inflight, notBefore, owner>>
    BY <1>1, <2>1, KeysSame
  <2>2. CASE ready' # ready \/ inflight' # inflight
    <3>1. PICK id \in DOMAIN inflight, at \in Nat :
            /\ id = worker[w].id /\ id \in issued /\ owner[id] = w
            /\ DOMAIN inflight' = DOMAIN inflight \ {id}
            /\ inflight' \in [DOMAIN inflight' -> Nat]
            /\ \A x \in DOMAIN inflight' : inflight'[x] = inflight[x]
            /\ DOMAIN owner' = DOMAIN owner \ {id}
            /\ owner' \in [DOMAIN owner' -> Owner]
            /\ \A x \in DOMAIN owner' : owner'[x] = owner[x]
            /\ ready' = Put(ready, id, at) /\ notBefore' = Put(notBefore, id, at)
            /\ id \in payload
      BY <2>2, NackFacts
    <3>2. /\ DOMAIN ready' = DOMAIN ready \cup {id}
          /\ DOMAIN notBefore' = DOMAIN notBefore \cup {id}
          /\ ready' \in [DOMAIN ready' -> Nat] /\ notBefore' \in [DOMAIN notBefore' -> Nat]
      BY <3>1 DEF Inv, KeysTyped, Put
    <3>3. KeysTyped'
      BY <1>1, <3>1, <3>2 DEF Inv, KeysTyped
    <3>4. Recoverable'
      BY <1>1, <3>1, <3>2 DEF Inv, Recoverable
    <3> QED
      BY <1>1, <3>1, <3>3, <3>4 DEF Kept, Holds
  <2>3. \/ UNCHANGED <<ready, inflight, notBefore, owner>>
        \/ ready' # ready \/ inflight' # inflight
    <3>1. ASSUME Holds(worker[w].id, w), inflight' = Without(inflight, {worker[w].id})
          PROVE  inflight' # inflight
      BY <3>1 DEF Holds, Without, Restrict, Inv, Recoverable
    <3> QED
      BY <3>1 DEF NackMove
  <2> QED
    BY <2>1, <2>2, <2>3
<1>3. WorkerInv'
  BY <1>1, <1>2, DoneInv, GoesInv DEF Inv
<1> QED
  BY <1>2, <1>3 DEF Inv

\* A worker that dies leaves the keys as they are.
LEMMA CrashInv ==
  ASSUME Inv, NEW w \in Owner, Crash(w)
  PROVE  Inv'
<1>1. UNCHANGED <<issued, again, acked, ready, inflight, payload, notBefore, owner, now>>
      /\ Done(w) /\ now \in Nat
  BY DEF Crash, Inv, KeysTyped
<1>2. KeysTyped' /\ Recoverable' /\ \A v \in Owner : Kept(v)
  BY <1>1, KeysSame
<1>3. WorkerInv'
  BY <1>1, <1>2, DoneInv DEF Inv
<1> QED
  BY <1>2, <1>3 DEF Inv

\* The clock.
LEMMA TickInv ==
  ASSUME Inv, Tick \/ UNCHANGED vars
  PROVE  Inv'
<1>1. UNCHANGED <<issued, again, acked, ready, inflight, payload, notBefore, owner, worker>>
      /\ now' \in Nat
  BY DEF Tick, vars, Inv, KeysTyped
<1>2. KeysTyped' /\ Recoverable' /\ \A v \in Owner : Kept(v)
  BY <1>1, KeysSame
<1> QED
  BY <1>1, <1>2, WorkersSame DEF Inv

\* The keys agree, and the workers with them, in every reachable state.
THEOREM QueueInvariant == Spec => []Inv
<1>1. Init => Inv
  <2>1. SUFFICES ASSUME Init PROVE Inv
    OBVIOUS
  <2>2. IdleWorker \in WorkerState /\ IdleWorker.pc = "idle"
    BY QueueAssumption DEF IdleWorker, WorkerState
  <2>3. WorkerInv
    BY <2>1, <2>2 DEF Init, WorkerInv
  <2>4. KeysTyped
    BY <2>1 DEF Init, KeysTyped, Empty
  <2>5. Recoverable
    BY <2>1 DEF Init, Recoverable, Empty
  <2>6. QED
    BY <2>3, <2>4, <2>5 DEF Inv
<1>2. Inv /\ [Next]_vars => Inv'
  <2>1. SUFFICES ASSUME Inv, [Next]_vars PROVE Inv'
    OBVIOUS
  <2>2. CASE Tick \/ UNCHANGED vars
    BY <2>1, <2>2, TickInv
  <2>3. CASE DequeueNothing
    BY <2>1, <2>3, DequeueNothingInv
  <2>4. ASSUME NEW id \in Id, NEW wait \in 0 .. MaxWait, Submit(id, wait)
        PROVE  Inv'
    BY <2>1, <2>4, SubmitInv
  <2>5. ASSUME NEW id \in issued, NEW w \in Owner, Dequeue(id, w)
        PROVE  Inv'
    BY <2>1, <2>5, DequeueInv
  <2>6. ASSUME NEW w \in Owner, Answers(w)
        PROVE  Inv'
    BY <2>1, <2>6, RenewLeaseInv, AckInv, NackReadInv, NackWriteInv, NackMoveInv,
       FallbackAckInv, FallbackEnqueueInv, CrashInv DEF Answers
  <2>7. QED
    BY <2>1, <2>2, <2>3, <2>4, <2>5, <2>6 DEF Next
<1>3. QED
  BY <1>1, <1>2, PTL DEF Spec

\* The keys are well typed, and have only ids that Enqueue generated.
THEOREM TypeCorrect == Spec => []TypeOK
<1>1. Inv => TypeOK
  BY DEF Inv, KeysTyped, WorkerInv, WorkerState, TypeOK
<1> QED
  BY <1>1, QueueInvariant, PTL

\* No task is lost before its Ack, and the five keys agree on every task that
\* was enqueued once (Recoverable), although Nack is three requests between
\* which its worker may die, lose the lease, or be overtaken by an Ack, and
\* although a refused Nack is followed by an Enqueue under the same id.
THEOREM TasksRecoverable == Spec => []Recoverable
BY QueueInvariant, PTL DEF Inv

-----------------------------------------------------------------------------
\* Of tasks enqueued once, the pool of the script of Dequeue has the times
\* that are kept in notBefore.
LEMMA PoolTimes ==
  ASSUME Inv, NeverEarly, NEW expired \in SUBSET DOMAIN inflight
  PROVE  \A x \in (DOMAIN ready \cup expired) \ again : Pool(expired)[x] = notBefore[x]
BY DEF Pool, NeverEarly, Inv, Recoverable

\* A step that puts a time of a task into both keys, or of one that counts as
\* enqueued again, keeps the times of the others.
LEMMA PutTimes ==
  ASSUME Inv, NeverEarly, NEW id, NEW at, ready' = Put(ready, id, at),
         notBefore' = Put(notBefore, id, at), now' = now, again \subseteq again',
         DOMAIN inflight' \subseteq DOMAIN inflight,
         id \in DOMAIN inflight' => id \in again'
  PROVE  NeverEarly'
<1>1. /\ DOMAIN ready' = DOMAIN ready \cup {id} /\ ready'[id] = at
      /\ \A x \in DOMAIN ready \ {id} : ready'[x] = ready[x]
  BY DEF Put
<1>2. notBefore'[id] = at /\ \A x \in DOMAIN notBefore \ {id} : notBefore'[x] = notBefore[x]
  BY DEF Put
<1>3. (DOMAIN inflight \cup DOMAIN ready) \ again \subseteq DOMAIN notBefore
  BY DEF Inv, Recoverable
<1>4. \A x \in DOMAIN inflight' \ again' : notBefore'[x] <= now'
  BY <1>2, <1>3 DEF NeverEarly
<1>5. \A x \in DOMAIN ready' \ again' : ready'[x] = notBefore'[x]
  BY <1>1, <1>2, <1>3 DEF NeverEarly
<1> QED
  BY <1>4, <1>5 DEF NeverEarly

\* A task that is removed by Ack is no longer in the keys that have times,
\* unless it was enqueued again.
LEMMA AckTimes ==
  ASSUME Inv, NeverEarly, NEW w \in Owner, NEW id, AckScript(id, w)
  PROVE  NeverEarly'
<1>1. UNCHANGED <<again, ready, now>>
  BY DEF AckScript
<1>2. CASE UNCHANGED <<inflight, notBefore>>
  BY <1>1, <1>2 DEF NeverEarly
<1>3. CASE /\ Holds(id, w) /\ inflight' = Without(inflight, {id})
           /\ notBefore' = Without(notBefore, {id})
  <2>1. /\ DOMAIN inflight' = DOMAIN inflight \ {id}
        /\ \A x \in DOMAIN notBefore \ {id} : notBefore'[x] = notBefore[x]
    BY <1>3 DEF Without, Restrict
  <2>2. id \in again \/ id \notin DOMAIN ready
    BY <1>3 DEF Inv, Recoverable, Holds
  <2>3. (DOMAIN inflight \cup DOMAIN ready) \ again \subseteq DOMAIN notBefore
    BY DEF Inv, Recoverable
  <2> QED
    BY <1>1, <2>1, <2>2, <2>3 DEF NeverEarly
<1> QED
  BY <1>2, <1>3 DEF AckScript

\* No task that is enqueued once is delivered before its time, and its delay
\* outlives the lease of whoever gets it (NeverEarly), for any numbers of
\* workers and tasks and any delays, with leases that expire and workers that
\* die in the middle of Nack.
THEOREM DelaysKept == Spec => []NeverEarly
<1>1. Init => NeverEarly
  BY DEF Init, NeverEarly, Empty
<1>2. Inv /\ NeverEarly /\ [Next]_vars => NeverEarly'
  <2> SUFFICES ASSUME Inv, NeverEarly, [Next]_vars PROVE NeverEarly'
    OBVIOUS
  <2>1. CASE Tick
    <3>1. now \in Nat /\ now' = now + 1 /\ UNCHANGED <<again, ready, inflight, notBefore>>
      BY <2>1 DEF Tick, Inv, KeysTyped
    <3>2. \A id \in DOMAIN inflight \ again : notBefore[id] \in Nat
      BY DEF Inv, KeysTyped, Recoverable
    <3>3. \A id \in DOMAIN inflight \ again : notBefore[id] <= now + 1
      BY <3>1, <3>2 DEF NeverEarly
    <3> QED
      BY <3>1, <3>3 DEF NeverEarly
  <2>2. ASSUME NEW id \in Id, NEW wait \in 0 .. MaxWait, Submit(id, wait) PROVE NeverEarly'
    <3>1. PICK at : at = now + wait
      OBVIOUS
    <3>2. /\ ready' = Put(ready, id, at) /\ notBefore' = Put(notBefore, id, at)
          /\ UNCHANGED <<inflight, now, again>> /\ id \notin issued
      BY <2>2, <3>1 DEF Submit, Enqueue
    <3>3. id \notin DOMAIN inflight
      BY <3>2 DEF Inv, KeysTyped
    <3> QED
      BY <3>2, <3>3, PutTimes
  <2>3. ASSUME NEW id \in issued, NEW w \in Owner, Dequeue(id, w) PROVE NeverEarly'
    <3>1. UNCHANGED <<again, notBefore, now>>
      BY <2>3 DEF Dequeue
    <3>2. PICK expired \in SUBSET DOMAIN inflight :
            /\ id \in DOMAIN ready \cup expired
            /\ Pool(expired)[id] <= now
            /\ DOMAIN ready' = (DOMAIN ready \cup expired) \ {id}
            /\ \A x \in DOMAIN ready' : ready'[x] = Pool(expired)[x]
            /\ DOMAIN inflight' = (DOMAIN inflight \ expired) \cup {id}
      BY <2>3, DequeueFacts
    <3>3. \A x \in (DOMAIN ready \cup expired) \ again : Pool(expired)[x] = notBefore[x]
      BY PoolTimes
    <3> QED
      BY <3>1, <3>2, <3>3 DEF NeverEarly
  <2>4. CASE DequeueNothing
    <3>1. UNCHANGED <<again, notBefore, now>>
      BY <2>4 DEF DequeueNothing
    <3>2. PICK expired \in SUBSET DOMAIN inflight :
            /\ DOMAIN ready' = DOMAIN ready \cup expired
            /\ ready' = Pool(expired)
            /\ DOMAIN inflight' = DOMAIN inflight \ expired
      BY <2>4, NothingFacts
    <3>3. \A x \in (DOMAIN ready \cup expired) \ again : Pool(expired)[x] = notBefore[x]
      BY PoolTimes
    <3> QED
      BY <3>1, <3>2, <3>3 DEF NeverEarly
  <2>5. ASSUME NEW w \in Owner, RenewLease(w) PROVE NeverEarly'
    <3>1. UNCHANGED <<again, ready, notBefore, now>> /\ worker[w].id \in DOMAIN inflight
      BY <2>5 DEF RenewLease, Holds, Inv, Recoverable
    <3>2. DOMAIN inflight' = DOMAIN inflight
      BY <2>5, <3>1 DEF RenewLease, Put
    <3> QED
      BY <3>1, <3>2 DEF NeverEarly
  <2>6. CASE UNCHANGED <<again, ready, inflight, notBefore, now>>
    BY <2>6 DEF NeverEarly
  <2>7. ASSUME NEW w \in Owner, NackMove(w) PROVE NeverEarly'
    <3>1. CASE ready' # ready \/ inflight' # inflight
      <4>1. PICK id \in DOMAIN inflight, at \in Nat :
              /\ DOMAIN inflight' = DOMAIN inflight \ {id}
              /\ ready' = Put(ready, id, at) /\ notBefore' = Put(notBefore, id, at)
        BY <2>7, <3>1, NackFacts
      <4>2. UNCHANGED <<again, now>>
        BY <2>7 DEF NackMove
      <4> QED
        BY <4>1, <4>2, PutTimes
    <3>2. CASE UNCHANGED <<ready, inflight>>
      <4>1. CASE Holds(worker[w].id, w) /\ inflight' = Without(inflight, {worker[w].id})
        <5>1. worker[w].id \in DOMAIN inflight /\ worker[w].id \notin DOMAIN inflight'
          BY <4>1 DEF Holds, Without, Restrict, Inv, Recoverable
        <5> QED
          BY <3>2, <5>1
      <4> QED
        BY <2>6, <2>7, <3>2, <4>1 DEF NackMove
    <3> QED
      BY <3>1, <3>2
  <2>8. ASSUME NEW w \in Owner, Ack(w) \/ FallbackAck(w) PROVE NeverEarly'
    BY <2>6, <2>8, AckTimes DEF Ack, FallbackAck
  <2>9. ASSUME NEW w \in Owner, FallbackEnqueue(w) PROVE NeverEarly'
    <3>1. PICK id, at : id = worker[w].id /\ at = worker[w].at
      OBVIOUS
    <3>2. /\ ready' = Put(ready, id, at) /\ notBefore' = Put(notBefore, id, at)
          /\ UNCHANGED <<inflight, now>> /\ again' = again \cup {id}
      BY <2>9, <3>1 DEF FallbackEnqueue, Enqueue
    <3> QED
      BY <3>2, PutTimes
  <2>10. CASE \/ UNCHANGED vars
              \/ \E w \in Owner : \/ NackWrite(w) \/ Crash(w)
                                  \/ \E wait \in 0 .. MaxWait : NackRead(w, wait)
    BY <2>6, <2>10 DEF vars, NackWrite, Crash, NackRead
  <2> QED
    BY <2>1, <2>2, <2>3, <2>4, <2>5, <2>7, <2>8, <2>9, <2>10 DEF Next, Answers
<1> QED
  BY <1>1, <1>2, QueueInvariant, PTL DEF Spec

-----------------------------------------------------------------------------
\* What the two sets and the owner hash say of the tasks in the queue.
LEMMA HolderFacts ==
  ASSUME Inv
  PROVE  /\ DOMAIN HolderOf = (DOMAIN ready \cup DOMAIN inflight) \ again
         /\ \A id \in DOMAIN inflight \ again : HolderOf[id] = owner[id] /\ owner[id] # NoOwner
         /\ \A id \in DOMAIN ready \ again : HolderOf[id] = NoOwner
BY QueueAssumption DEF Inv, KeysTyped, Recoverable, HolderOf

\* A new task is an Enqueue of the promise.
LEMMA SubmitIsEnqueue ==
  ASSUME Inv, NEW id \in Id, NEW wait \in 0 .. MaxWait, Submit(id, wait)
  PROVE  Promise!Enqueue(id)
<1>1. id \notin issued /\ issued' = issued \cup {id}
      /\ UNCHANGED <<again, inflight, owner, now>>
  BY DEF Submit, Enqueue
<1>2. DOMAIN ready' = DOMAIN ready \cup {id}
  BY DEF Submit, Enqueue, Put
<1>3. id \notin DOMAIN inflight /\ DOMAIN owner = DOMAIN inflight /\ id \notin again
  BY <1>1 DEF Inv, KeysTyped, Recoverable
<1>4. HolderOf' = [u \in DOMAIN HolderOf \cup {id} |->
                     IF u = id THEN NoOwner ELSE HolderOf[u]]
  BY <1>1, <1>2, <1>3 DEF HolderOf
<1>5. LiveLeases' = LiveLeases
  BY <1>1 DEF LiveLeases
<1>6. QED
  BY <1>1, <1>4, <1>5 DEF Promise!Enqueue

\* The end of the fallback is an EnqueueAgain of the promise.
LEMMA FallbackIsAgain ==
  ASSUME Inv, NEW w \in Owner, FallbackEnqueue(w)
  PROVE  Promise!EnqueueAgain(worker[w].id)
<1>1. PICK id : id = worker[w].id
  OBVIOUS
<1>2. id \in issued /\ again' = again \cup {id} /\ UNCHANGED <<issued, inflight, owner, now>>
  BY <1>1 DEF FallbackEnqueue, Enqueue, Inv, WorkerInv
<1>3. DOMAIN ready' = DOMAIN ready \cup {id}
  BY <1>1 DEF FallbackEnqueue, Enqueue, Put
<1>4. HolderOf' = [u \in DOMAIN HolderOf \ {id} |-> HolderOf[u]]
  BY <1>2, <1>3 DEF HolderOf
<1>5. LiveLeases' = LiveLeases \ {id}
  BY <1>2 DEF LiveLeases
<1> QED
  BY <1>1, <1>2, <1>4, <1>5 DEF Promise!EnqueueAgain

\* The script of Dequeue is a Dequeue of the promise, which takes back the
\* tasks the script found expired; or it only takes them back, when it hands
\* out one that was enqueued again.
LEMMA DequeueIsDequeue ==
  ASSUME Inv, NEW id \in issued, NEW w \in Owner, Dequeue(id, w)
  PROVE  Promise!Dequeue(id, w) \/ Promise!TakeBack
<1>1. PICK expired \in SUBSET DOMAIN inflight :
        /\ \A x \in expired : inflight[x] <= now
        /\ id \in DOMAIN ready \cup expired
        /\ DOMAIN ready' = (DOMAIN ready \cup expired) \ {id}
        /\ DOMAIN inflight' = (DOMAIN inflight \ expired) \cup {id}
        /\ inflight'[id] = now + TTL
        /\ \A x \in DOMAIN inflight' \ {id} : inflight'[x] = inflight[x]
        /\ DOMAIN owner' = (DOMAIN owner \ expired) \cup {id}
        /\ owner'[id] = w
        /\ \A x \in DOMAIN owner' \ {id} : owner'[x] = owner[x]
  BY DequeueFacts
<1>2. UNCHANGED <<issued, again, now>>
  BY DEF Dequeue
<1>3. /\ now \in Nat /\ TTL \in Nat \ {0} /\ \A x \in DOMAIN inflight : inflight[x] \in Nat
      /\ DOMAIN ready \cap DOMAIN inflight \subseteq again /\ DOMAIN owner = DOMAIN inflight
  BY QueueAssumption DEF Inv, KeysTyped, Recoverable
<1>4. \A x \in expired : x \notin LiveLeases
  BY <1>1, <1>3 DEF LiveLeases
<1>5. PICK back : back = expired \ again
  OBVIOUS
<1>6. back \in SUBSET Promise!Lapsed
  BY <1>4, <1>5, HolderFacts DEF Promise!Lapsed
<1>7. CASE id \notin again
  <2>1. id \notin LiveLeases
    BY <1>1, <1>3, <1>4, <1>7 DEF LiveLeases
  <2>2. LiveLeases' = LiveLeases \cup {id}
    BY <1>1, <1>2, <1>3, <1>4, <1>7 DEF LiveLeases
  <2>3. HolderOf' = [u \in DOMAIN HolderOf |-> IF u = id THEN w
                                               ELSE IF u \in back THEN NoOwner
                                               ELSE HolderOf[u]]
    BY <1>1, <1>2, <1>3, <1>5, <1>7 DEF HolderOf
  <2>4. id \in DOMAIN HolderOf \ LiveLeases
    BY <1>1, <1>7, <2>1, HolderFacts
  <2> QED
    BY <1>2, <1>6, <2>2, <2>3, <2>4 DEF Promise!Dequeue
<1>8. CASE id \in again
  <2>1. LiveLeases' = LiveLeases
    BY <1>1, <1>2, <1>3, <1>4, <1>8 DEF LiveLeases
  <2>2. HolderOf' = [u \in DOMAIN HolderOf |-> IF u \in back THEN NoOwner ELSE HolderOf[u]]
    BY <1>1, <1>2, <1>3, <1>5, <1>8 DEF HolderOf
  <2> QED
    BY <1>2, <1>6, <2>1, <2>2 DEF Promise!TakeBack
<1> QED
  BY <1>7, <1>8

\* So it is when the script hands out nothing.
LEMMA NothingIsTakeBack ==
  ASSUME Inv, DequeueNothing
  PROVE  Promise!TakeBack
<1>1. PICK expired \in SUBSET DOMAIN inflight :
        /\ \A x \in expired : inflight[x] <= now
        /\ DOMAIN ready' = DOMAIN ready \cup expired
        /\ DOMAIN inflight' = DOMAIN inflight \ expired
        /\ \A x \in DOMAIN inflight' : inflight'[x] = inflight[x]
        /\ DOMAIN owner' = DOMAIN owner \ expired
        /\ \A x \in DOMAIN owner' : owner'[x] = owner[x]
  BY NothingFacts
<1>2. UNCHANGED <<issued, again, now>>
  BY DEF DequeueNothing
<1>3. /\ now \in Nat /\ \A x \in DOMAIN inflight : inflight[x] \in Nat
      /\ DOMAIN ready \cap DOMAIN inflight \subseteq again /\ DOMAIN owner = DOMAIN inflight
  BY DEF Inv, KeysTyped, Recoverable
<1>4. \A x \in expired : x \notin LiveLeases
  BY <1>1, <1>3 DEF LiveLeases
<1>5. PICK back : back = expired \ again
  OBVIOUS
<1>6. back \in SUBSET Promise!Lapsed
  BY <1>4, <1>5, HolderFacts DEF Promise!Lapsed
<1>7. LiveLeases' = LiveLeases
  BY <1>1, <1>2, <1>4 DEF LiveLeases
<1>8. HolderOf' = [u \in DOMAIN HolderOf |-> IF u \in back THEN NoOwner ELSE HolderOf[u]]
  BY <1>1, <1>2, <1>3, <1>5 DEF HolderOf
<1> QED
  BY <1>2, <1>6, <1>7, <1>8 DEF Promise!TakeBack

\* A renewal by the owner is a RenewLease of the promise.
LEMMA RenewIsRenew ==
  ASSUME Inv, NEW w \in Owner, RenewLease(w)
  PROVE  Promise!RenewLease(worker[w].id, w) \/ UNCHANGED Promise!vars
<1>1. PICK id : id = worker[w].id
  OBVIOUS
<1>2. id \in DOMAIN inflight /\ owner[id] = w
  BY <1>1 DEF RenewLease, Holds, Inv, Recoverable
<1>3. UNCHANGED <<issued, again, ready, owner, now>> /\ inflight' = Put(inflight, id, now + TTL)
  BY <1>1 DEF RenewLease
<1>4. /\ DOMAIN inflight' = DOMAIN inflight /\ inflight'[id] > now
      /\ \A x \in DOMAIN inflight \ {id} : inflight'[x] = inflight[x]
  BY <1>2, <1>3, QueueAssumption DEF Inv, KeysTyped, Put
<1>5. HolderOf' = HolderOf
  BY <1>3, <1>4 DEF HolderOf
<1>6. CASE id \in again
  <2>1. LiveLeases' = LiveLeases
    BY <1>3, <1>4, <1>6 DEF LiveLeases
  <2> QED
    BY <1>3, <1>5, <2>1 DEF Promise!vars
<1>7. CASE id \notin again
  <2>1. LiveLeases' = LiveLeases \cup {id}
    BY <1>2, <1>3, <1>4, <1>7 DEF LiveLeases
  <2> QED
    BY <1>1, <1>2, <1>3, <1>5, <1>7, <2>1, HolderFacts DEF Promise!RenewLease
<1> QED
  BY <1>6, <1>7

\* Ack is an Ack of the promise, or changes nothing that it speaks of.
LEMMA AckIsAck ==
  ASSUME Inv, NEW w \in Owner, NEW id, AckScript(id, w)
  PROVE  Promise!Ack(id, w) \/ UNCHANGED Promise!vars
<1>1. UNCHANGED <<issued, again, ready, now>>
  BY DEF AckScript
<1>2. CASE UNCHANGED <<inflight, owner>>
  BY <1>1, <1>2 DEF Promise!vars, HolderOf, LiveLeases
<1>3. CASE /\ Holds(id, w)
           /\ inflight' = Without(inflight, {id})
           /\ owner' = Without(owner, {id})
  <2>1. /\ id \in DOMAIN inflight /\ owner[id] = w /\ DOMAIN owner = DOMAIN inflight
        /\ id \notin DOMAIN ready \/ id \in again
    BY <1>3 DEF Holds, Inv, Recoverable
  <2>2. /\ DOMAIN inflight' = DOMAIN inflight \ {id} /\ DOMAIN owner' = DOMAIN owner \ {id}
        /\ \A x \in DOMAIN inflight' : inflight'[x] = inflight[x]
        /\ \A x \in DOMAIN owner' : owner'[x] = owner[x]
    BY <1>3 DEF Without, Restrict
  <2>3. LiveLeases' = LiveLeases \ {id}
    BY <1>1, <2>2 DEF LiveLeases
  <2>4. CASE id \notin again
    <3>1. HolderOf' = [u \in DOMAIN HolderOf \ {id} |-> HolderOf[u]]
      BY <1>1, <2>1, <2>2, <2>4 DEF HolderOf
    <3> QED
      BY <1>1, <2>1, <2>3, <2>4, <3>1, HolderFacts DEF Promise!Ack
  <2>5. CASE id \in again
    <3>1. HolderOf' = HolderOf
      BY <1>1, <2>1, <2>2, <2>5 DEF HolderOf
    <3>2. LiveLeases' = LiveLeases
      BY <2>3, <2>5 DEF LiveLeases
    <3> QED
      BY <1>1, <3>1, <3>2 DEF Promise!vars
  <2> QED
    BY <2>4, <2>5
<1>4. QED
  BY <1>2, <1>3 DEF AckScript

\* The script of Nack is a Nack of the promise, or changes nothing.
LEMMA NackIsNack ==
  ASSUME Inv, NEW w \in Owner, NackMove(w)
  PROVE  Promise!Nack(worker[w].id, w) \/ UNCHANGED Promise!vars
<1>1. UNCHANGED <<issued, again, now>>
  BY DEF NackMove
<1>2. CASE UNCHANGED <<ready, inflight, owner>>
  BY <1>1, <1>2 DEF Promise!vars, HolderOf, LiveLeases
<1>3. CASE /\ Holds(worker[w].id, w)
           /\ inflight' = Without(inflight, {worker[w].id})
           /\ owner' = Without(owner, {worker[w].id})
           /\ ready' = Put(ready, worker[w].id, worker[w].at)
  <2>1. PICK id : id = worker[w].id
    OBVIOUS
  <2>2. id \in DOMAIN inflight /\ owner[id] = w /\ DOMAIN owner = DOMAIN inflight
    BY <1>3, <2>1 DEF Holds, Inv, Recoverable
  <2>3. /\ DOMAIN inflight' = DOMAIN inflight \ {id} /\ DOMAIN owner' = DOMAIN owner \ {id}
        /\ \A x \in DOMAIN inflight' : inflight'[x] = inflight[x]
        /\ \A x \in DOMAIN owner' : owner'[x] = owner[x]
        /\ DOMAIN ready' = DOMAIN ready \cup {id}
    BY <1>3, <2>1 DEF Without, Restrict, Put
  <2>4. LiveLeases' = LiveLeases \ {id}
    BY <1>1, <2>3 DEF LiveLeases
  <2>5. CASE id \notin again
    <3>1. HolderOf' = [HolderOf EXCEPT ![id] = NoOwner]
      BY <1>1, <2>2, <2>3, <2>5 DEF HolderOf
    <3> QED
      BY <1>1, <2>1, <2>2, <2>4, <2>5, <3>1, HolderFacts DEF Promise!Nack
  <2>6. CASE id \in again
    <3>1. HolderOf' = HolderOf
      BY <1>1, <2>2, <2>3, <2>6 DEF HolderOf
    <3>2. LiveLeases' = LiveLeases
      BY <2>4, <2>6 DEF LiveLeases
    <3> QED
      BY <1>1, <3>1, <3>2 DEF Promise!vars
  <2> QED
    BY <2>5, <2>6
<1>4. QED
  BY <1>2, <1>3 DEF NackMove

\* The first two requests of Nack, a failed Ack and the death of a worker
\* change nothing that the promise speaks of.
LEMMA LocalIsStutter ==
  ASSUME UNCHANGED <<issued, again, ready, inflight, owner, now>>
  PROVE  UNCHANGED Promise!vars
BY DEF Promise!vars, HolderOf, LiveLeases

\* A tick of the clock lets leases run out.
LEMMA TickIsLapse ==
  ASSUME Inv, Tick
  PROVE  Promise!Lapse
<1>1. now \in Nat /\ now' = now + 1 /\ UNCHANGED <<issued, again, ready, inflight, owner>>
  BY DEF Tick, Inv, KeysTyped
<1>2. \A id \in DOMAIN inflight : inflight[id] \in Nat
  BY DEF Inv, KeysTyped
<1>3. LiveLeases' \subseteq LiveLeases /\ HolderOf' = HolderOf
  BY <1>1, <1>2 DEF LiveLeases, HolderOf
<1>4. QED
  BY <1>1, <1>3 DEF Promise!Lapse

\* The Redis queue implements the lease queue: for tasks that are enqueued
\* once, deliveries, leases, renewals, Acks and Nacks are what it allows.
THEOREM Refinement == Spec => KeepsPromise
<1>1. Init => Promise!Init
  BY DEF Init, Promise!Init, HolderOf, LiveLeases, Empty
<1>2. Inv /\ [Next]_vars => [Promise!Next]_(Promise!vars)
  <2>1. SUFFICES ASSUME Inv, [Next]_vars PROVE [Promise!Next]_(Promise!vars)
    OBVIOUS
  <2>2. CASE UNCHANGED <<issued, again, ready, inflight, owner, now>>
    BY <2>2, LocalIsStutter
  <2>3. CASE Tick
    BY <2>1, <2>3, TickIsLapse DEF Promise!Next
  <2>4. ASSUME NEW id \in Id, NEW wait \in 0 .. MaxWait, Submit(id, wait)
        PROVE  Promise!Next
    BY <2>1, <2>4, SubmitIsEnqueue DEF Promise!Next
  <2>5. ASSUME NEW id \in issued, NEW w \in Owner, Dequeue(id, w)
        PROVE  Promise!Next
    <3>1. id \in Id
      BY <2>1 DEF Inv, KeysTyped
    <3>2. QED
      BY <2>1, <2>5, <3>1, DequeueIsDequeue DEF Promise!Next
  <2>6. CASE DequeueNothing
    BY <2>1, <2>6, NothingIsTakeBack DEF Promise!Next
  <2>7. ASSUME NEW w \in Owner, Answers(w)
        PROVE  Promise!Next \/ UNCHANGED Promise!vars
    <3>1. worker[w].pc # "idle" => worker[w].id \in Id
      BY <2>1 DEF Inv, KeysTyped, WorkerInv
    <3>2. CASE RenewLease(w)
      BY <2>1, <3>1, <3>2, RenewIsRenew DEF Promise!Next, RenewLease
    <3>3. CASE Ack(w) \/ FallbackAck(w)
      <4>1. PICK id : id = worker[w].id
        OBVIOUS
      <4>2. id \in Id
        BY <3>1, <3>3, <4>1 DEF Ack, FallbackAck
      <4>3. \/ AckScript(id, w)
            \/ UNCHANGED <<issued, again, ready, inflight, owner, now>>
        BY <3>3, <4>1 DEF Ack, FallbackAck
      <4> QED
        BY <2>1, <4>2, <4>3, AckIsAck, LocalIsStutter DEF Promise!Next
    <3>4. CASE NackMove(w)
      BY <2>1, <3>1, <3>4, NackIsNack DEF Promise!Next, NackMove
    <3>5. CASE FallbackEnqueue(w)
      BY <2>1, <3>1, <3>5, FallbackIsAgain DEF Promise!Next, FallbackEnqueue
    <3>6. CASE NackWrite(w) \/ Crash(w) \/ \E wait \in 0 .. MaxWait : NackRead(w, wait)
      BY <3>6, LocalIsStutter DEF NackWrite, Crash, NackRead
    <3> QED
      BY <2>7, <3>2, <3>3, <3>4, <3>5, <3>6 DEF Answers
  <2>8. QED
    BY <2>1, <2>2, <2>3, <2>4, <2>5, <2>6, <2>7 DEF Next, vars
<1>3. QED
  BY <1>1, <1>2, QueueInvariant, PTL DEF Spec, KeepsPromise, Promise!Spec
=============================================================================
