------------------------ MODULE DatabaseQueueProofs -------------------------
(***************************************************************************)
(* Proofs about DatabaseQueue: its invariant, and that it implements       *)
(* LeaseQueue, for any numbers of workers and rows and any horizon.        *)
(***************************************************************************)
EXTENDS DatabaseQueue, TLAPS

\* The row a statement changes is well formed again.
LEMMA RowFacts ==
  ASSUME TypeOK, NEW id \in DOMAIN tasks, NEW w \in Owner \cup {NoOwner},
         NEW e \in Nat, NEW n \in Nat, NEW a \in Nat
  PROVE  /\ [tasks[id] EXCEPT !.leased_by = w, !.lease_expires_at = e] \in Row
         /\ [tasks[id] EXCEPT !.lease_expires_at = e] \in Row
         /\ [tasks[id] EXCEPT !.leased_by = w, !.lease_expires_at = e,
                              !.not_before = n, !.attempts = a] \in Row
<1>1. tasks[id] \in Row
  BY DEF TypeOK
<1>2. QED
  BY <1>1 DEF Row

\* An insertion keeps the table well typed.
LEMMA EnqueueType ==
  ASSUME TypeOK, NEW body \in Body, NEW wait \in 0 .. MaxWait,
         lastID < MaxTasks, Enqueue(body, wait, 0)
  PROVE  TypeOK'
<1> DEFINE new == [body |-> body, enqueued_at |-> now, not_before |-> now + wait,
                   attempts |-> 0, leased_by |-> NoOwner, lease_expires_at |-> 0]
<1>1. lastID \in Nat /\ now \in Nat /\ wait \in Nat /\ lastID' = lastID + 1
  BY QueueAssumption DEF TypeOK, Enqueue
<1>2. new \in Row
  BY <1>1 DEF Row
<1>3. /\ DOMAIN tasks' = DOMAIN tasks \cup {lastID + 1}
      /\ \A id \in DOMAIN tasks' : tasks'[id] = new \/ (id \in DOMAIN tasks /\ tasks'[id] = tasks[id])
  BY DEF Enqueue
<1> HIDE DEF new
<1>4. DOMAIN tasks' \subseteq 1 .. lastID'
  BY <1>1, <1>3 DEF TypeOK
<1>5. \A id \in DOMAIN tasks' : tasks'[id] \in Row
  BY <1>2, <1>3 DEF TypeOK
<1>6. lastID' \in 0 .. MaxTasks /\ now' \in 1 .. (MaxTime + 1) /\ db' \in Backend
  BY <1>1, QueueAssumption DEF TypeOK, Enqueue
<1>7. QED
  BY <1>4, <1>5, <1>6 DEF TypeOK

\* So does replacing one row.
LEMMA OneRow ==
  ASSUME TypeOK, NEW id \in DOMAIN tasks, NEW r \in Row,
         tasks' = [tasks EXCEPT ![id] = r], UNCHANGED <<db, lastID, now>>
  PROVE  TypeOK'
<1>1. DOMAIN tasks' = DOMAIN tasks
  OBVIOUS
<1>2. \A u \in DOMAIN tasks : tasks'[u] \in Row
  BY DEF TypeOK
<1>3. QED
  BY <1>1, <1>2 DEF TypeOK

\* The statements that update or delete one row.
LEMMA StatementType ==
  ASSUME TypeOK, NEW id \in DOMAIN tasks, NEW w \in Owner,
         Dequeue(id, w) \/ RenewLease(id, w) \/ Ack(id, w)
  PROVE  TypeOK'
<1>1. now + TTL \in Nat
  BY QueueAssumption DEF TypeOK
<1>2. CASE Ack(id, w)
  BY <1>2 DEF Ack, TypeOK
<1>3. CASE Dequeue(id, w)
  <2>1. tasks' = [tasks EXCEPT ![id] = [tasks[id] EXCEPT !.leased_by = w, !.lease_expires_at = now + TTL]]
    BY <1>3 DEF Dequeue
  <2>2. QED
    BY <1>1, <1>3, <2>1, RowFacts, OneRow DEF Dequeue
<1>4. CASE RenewLease(id, w)
  <2>1. tasks' = [tasks EXCEPT ![id] = [tasks[id] EXCEPT !.lease_expires_at = now + TTL]]
    BY <1>4 DEF RenewLease
  <2>2. QED
    BY <1>1, <1>4, <2>1, RowFacts, OneRow DEF RenewLease
<1>5. QED
  BY <1>2, <1>3, <1>4

\* Returning a row.
LEMMA NackType ==
  ASSUME TypeOK, NEW id \in DOMAIN tasks, NEW w \in Owner,
         NEW wait \in 0 .. MaxWait, NEW attempts \in 1 .. MaxAttempts,
         Nack(id, w, wait, attempts)
  PROVE  TypeOK'
<1>1. now + wait \in Nat /\ attempts \in Nat /\ 0 \in Nat
  BY QueueAssumption DEF TypeOK
<1>2. tasks' = [tasks EXCEPT ![id] = [tasks[id] EXCEPT !.leased_by = NoOwner,
                  !.lease_expires_at = 0, !.not_before = now + wait, !.attempts = attempts]]
  BY DEF Nack
<1>3. [tasks[id] EXCEPT !.leased_by = NoOwner, !.lease_expires_at = 0,
                        !.not_before = now + wait, !.attempts = attempts] \in Row
  BY <1>1, RowFacts
<1>4. UNCHANGED <<db, lastID, now>>
  BY DEF Nack
<1>5. QED
  BY <1>2, <1>3, <1>4, OneRow

\* The table stays well typed, its ids in the range handed out so far.
THEOREM TypeCorrect == Spec => []TypeOK
<1>1. Init => TypeOK
  BY QueueAssumption DEF Init, TypeOK
<1>2. TypeOK /\ [Next]_vars => TypeOK'
  <2>1. SUFFICES ASSUME TypeOK, [Next]_vars PROVE TypeOK'
    OBVIOUS
  <2>2. CASE UNCHANGED vars
    BY <2>1, <2>2 DEF vars, TypeOK
  <2>3. CASE Tick
    BY <2>1, <2>3, QueueAssumption DEF Tick, TypeOK
  <2>4. ASSUME NEW body \in Body, NEW wait \in 0 .. MaxWait,
               lastID < MaxTasks /\ Enqueue(body, wait, 0)
        PROVE  TypeOK'
    BY <2>1, <2>4, EnqueueType
  <2>5. ASSUME NEW id \in DOMAIN tasks, NEW w \in Owner,
               Dequeue(id, w) \/ RenewLease(id, w) \/ Ack(id, w)
        PROVE  TypeOK'
    BY <2>1, <2>5, StatementType
  <2>6. ASSUME NEW id \in DOMAIN tasks, NEW w \in Owner, NEW wait \in 0 .. MaxWait,
               NEW attempts \in 1 .. MaxAttempts, Nack(id, w, wait, attempts)
        PROVE  TypeOK'
    BY <2>1, <2>6, NackType
  <2>7. QED
    BY <2>1, <2>2, <2>3, <2>4, <2>5, <2>6 DEF Next
<1>3. QED
  BY <1>1, <1>2, PTL DEF Spec

-----------------------------------------------------------------------------
\* An insertion is an Enqueue of the promise.
LEMMA EnqueueIsEnqueue ==
  ASSUME TypeOK, NEW body \in Body, NEW wait \in 0 .. MaxWait,
         lastID < MaxTasks, Enqueue(body, wait, 0)
  PROVE  Promise!Enqueue(lastID + 1)
<1>1. lastID \in Nat /\ DOMAIN tasks \subseteq 1 .. lastID
  BY QueueAssumption DEF TypeOK
<1>2. (1 .. lastID)' = (1 .. lastID) \cup {lastID + 1} /\ lastID + 1 \notin 1 .. lastID
  BY <1>1 DEF Enqueue
<1>3. DOMAIN tasks' = DOMAIN tasks \cup {lastID + 1}
  BY DEF Enqueue
<1>4. /\ \A u \in DOMAIN tasks : tasks'[u] = tasks[u]
      /\ tasks'[lastID + 1].leased_by = NoOwner
  BY <1>1, <1>2 DEF Enqueue
<1>5. HolderOf' = [u \in DOMAIN HolderOf \cup {lastID + 1} |->
                     IF u = lastID + 1 THEN NoOwner ELSE HolderOf[u]]
  BY <1>3, <1>4 DEF HolderOf
<1>6. LiveLeases' = LiveLeases
  BY <1>3, <1>4 DEF LiveLeases, Enqueue
<1>7. QED
  BY <1>2, <1>5, <1>6 DEF Promise!Enqueue

\* Claiming a row is a Dequeue of the promise that takes nothing else back;
\* claiming a row that the worker still has leased is a RenewLease.
LEMMA DequeueIsDequeue ==
  ASSUME TypeOK, NEW id \in DOMAIN tasks, NEW w \in Owner, Dequeue(id, w)
  PROVE  Promise!Dequeue(id, w) \/ Promise!RenewLease(id, w)
<1>1. tasks[id] \in Row /\ now \in Nat /\ TTL \in Nat \ {0}
  BY QueueAssumption DEF TypeOK
<1>2. (id \notin LiveLeases \/ tasks[id].leased_by = w) /\ w # NoOwner
  BY <1>1, QueueAssumption DEF Dequeue, Claimable, LiveLeases, Row
<1>3. /\ DOMAIN tasks' = DOMAIN tasks /\ now' = now /\ lastID' = lastID
      /\ \A u \in DOMAIN tasks \ {id} : tasks'[u] = tasks[u]
  BY DEF Dequeue
<1>4. tasks'[id].leased_by = w /\ tasks'[id].lease_expires_at > now
  <2>1. tasks'[id] = [tasks[id] EXCEPT !.leased_by = w, !.lease_expires_at = now + TTL]
    BY DEF Dequeue
  <2>2. tasks'[id].leased_by = w /\ tasks'[id].lease_expires_at = now + TTL
    BY <1>1, <2>1 DEF Row
  <2>3. QED
    BY <1>1, <2>2
<1>5. HolderOf' = [u \in DOMAIN HolderOf |-> IF u = id THEN w
                                             ELSE IF u \in {} THEN NoOwner ELSE HolderOf[u]]
  BY <1>3, <1>4 DEF HolderOf
<1>6. LiveLeases' = LiveLeases \cup {id}
  BY <1>2, <1>3, <1>4 DEF LiveLeases
<1>7. DOMAIN HolderOf = DOMAIN tasks /\ {} \in SUBSET Promise!Lapsed
  BY DEF HolderOf
<1>8. CASE id \notin LiveLeases
  BY <1>3, <1>5, <1>6, <1>7, <1>8 DEF Promise!Dequeue
<1>9. CASE tasks[id].leased_by = w
  <2>1. HolderOf' = HolderOf /\ HolderOf[id] = w
    BY <1>3, <1>4, <1>9 DEF HolderOf
  <2>2. QED
    BY <1>3, <1>6, <1>7, <2>1 DEF Promise!RenewLease
<1>10. QED
  BY <1>2, <1>8, <1>9

\* Extending a lease is a RenewLease of the promise.
LEMMA RenewIsRenew ==
  ASSUME TypeOK, NEW id \in DOMAIN tasks, NEW w \in Owner, RenewLease(id, w)
  PROVE  Promise!RenewLease(id, w)
<1>1. tasks[id] \in Row /\ now \in Nat /\ TTL \in Nat \ {0}
  BY QueueAssumption DEF TypeOK
<1>2. /\ DOMAIN tasks' = DOMAIN tasks /\ now' = now /\ lastID' = lastID
      /\ \A u \in DOMAIN tasks \ {id} : tasks'[u] = tasks[u]
      /\ tasks[id].leased_by = w
  BY DEF RenewLease, Holds
<1>3. tasks'[id].leased_by = w /\ tasks'[id].lease_expires_at > now /\ w # NoOwner
  BY <1>1, <1>2, QueueAssumption DEF RenewLease, Row
<1>4. HolderOf' = HolderOf /\ DOMAIN HolderOf = DOMAIN tasks /\ HolderOf[id] = w
  BY <1>2, <1>3 DEF HolderOf
<1>5. LiveLeases' = LiveLeases \cup {id}
  BY <1>2, <1>3 DEF LiveLeases
<1>6. QED
  BY <1>2, <1>4, <1>5 DEF Promise!RenewLease

\* Deleting a row is an Ack of the promise.
LEMMA AckIsAck ==
  ASSUME TypeOK, NEW id \in DOMAIN tasks, NEW w \in Owner, Ack(id, w)
  PROVE  Promise!Ack(id, w)
<1>1. /\ DOMAIN tasks' = DOMAIN tasks \ {id} /\ now' = now /\ lastID' = lastID
      /\ \A u \in DOMAIN tasks \ {id} : tasks'[u] = tasks[u]
      /\ tasks[id].leased_by = w
  BY DEF Ack, Holds
<1>2. DOMAIN HolderOf = DOMAIN tasks /\ HolderOf[id] = w
  BY <1>1 DEF HolderOf
<1>3. HolderOf' = [u \in DOMAIN HolderOf \ {id} |-> HolderOf[u]]
  BY <1>1 DEF HolderOf
<1>4. LiveLeases' = LiveLeases \ {id}
  BY <1>1 DEF LiveLeases
<1>5. QED
  BY <1>1, <1>2, <1>3, <1>4 DEF Promise!Ack

\* Returning a row is a Nack of the promise.
LEMMA NackIsNack ==
  ASSUME TypeOK, NEW id \in DOMAIN tasks, NEW w \in Owner, NEW wait, NEW attempts,
         Nack(id, w, wait, attempts)
  PROVE  Promise!Nack(id, w)
<1>1. tasks[id] \in Row
  BY DEF TypeOK
<1>2. /\ DOMAIN tasks' = DOMAIN tasks /\ now' = now /\ lastID' = lastID
      /\ \A u \in DOMAIN tasks \ {id} : tasks'[u] = tasks[u]
      /\ tasks[id].leased_by = w
  BY DEF Nack, Holds
<1>3. tasks'[id].leased_by = NoOwner
  BY <1>1 DEF Nack, Row
<1>4. DOMAIN HolderOf = DOMAIN tasks /\ HolderOf[id] = w
  BY <1>2 DEF HolderOf
<1>5. HolderOf' = [HolderOf EXCEPT ![id] = NoOwner]
  BY <1>2, <1>3 DEF HolderOf
<1>6. LiveLeases' = LiveLeases \ {id}
  BY <1>2, <1>3 DEF LiveLeases
<1>7. QED
  BY <1>2, <1>4, <1>5, <1>6 DEF Promise!Nack

\* A tick of the clock lets leases run out.
LEMMA TickIsLapse ==
  ASSUME TypeOK, Tick
  PROVE  Promise!Lapse
<1>1. now \in Nat /\ now' = now + 1 /\ tasks' = tasks /\ lastID' = lastID
  BY DEF Tick, TypeOK
<1>2. \A id \in DOMAIN tasks : tasks[id].lease_expires_at \in Nat
  BY DEF TypeOK, Row
<1>3. LiveLeases' \subseteq LiveLeases /\ HolderOf' = HolderOf
  BY <1>1, <1>2 DEF LiveLeases, HolderOf
<1>4. QED
  BY <1>1, <1>3 DEF Promise!Lapse

\* The SQLite and the MongoDB queue implement the lease queue.
THEOREM Refinement == Spec => KeepsPromise
<1>1. Init => Promise!Init
  <2>1. SUFFICES ASSUME Init PROVE Promise!Init
    OBVIOUS
  <2>2. 1 .. lastID = {} /\ DOMAIN tasks = {}
    BY <2>1 DEF Init
  <2>3. HolderOf = [t \in {} |-> NoOwner] /\ LiveLeases = {}
    BY <2>2 DEF HolderOf, LiveLeases
  <2>4. QED
    BY <2>2, <2>3 DEF Promise!Init
<1>2. TypeOK /\ [Next]_vars => [Promise!Next]_(Promise!vars)
  <2>1. SUFFICES ASSUME TypeOK, [Next]_vars PROVE [Promise!Next]_(Promise!vars)
    OBVIOUS
  <2>2. CASE UNCHANGED vars
    BY <2>2 DEF vars, Promise!vars, HolderOf, LiveLeases
  <2>3. CASE Tick
    BY <2>1, <2>3, TickIsLapse DEF Promise!Next
  <2>4. ASSUME NEW body \in Body, NEW wait \in 0 .. MaxWait,
               lastID < MaxTasks /\ Enqueue(body, wait, 0)
        PROVE  Promise!Next
    <3>1. lastID + 1 \in 1 .. MaxTasks
      BY <2>1, <2>4, QueueAssumption DEF TypeOK
    <3>2. QED
      BY <2>1, <2>4, <3>1, EnqueueIsEnqueue DEF Promise!Next
  <2>5. ASSUME NEW id \in DOMAIN tasks, NEW w \in Owner,
               \/ Dequeue(id, w) \/ RenewLease(id, w) \/ Ack(id, w)
               \/ \E wait \in 0 .. MaxWait, attempts \in 1 .. MaxAttempts :
                    Nack(id, w, wait, attempts)
        PROVE  Promise!Next
    <3>1. id \in 1 .. MaxTasks
      BY <2>1, QueueAssumption DEF TypeOK
    <3>2. \/ Promise!Dequeue(id, w) \/ Promise!RenewLease(id, w)
          \/ Promise!Ack(id, w) \/ Promise!Nack(id, w)
      BY <2>1, <2>5, DequeueIsDequeue, RenewIsRenew, AckIsAck, NackIsNack
    <3>3. QED
      BY <3>1, <3>2 DEF Promise!Next
  <2>6. QED
    BY <2>1, <2>2, <2>3, <2>4, <2>5 DEF Next
<1>3. QED
  BY <1>1, <1>2, TypeCorrect, PTL DEF Spec, KeepsPromise, Promise!Spec
=============================================================================
