------------------------ MODULE InMemoryQueueProofs -------------------------
(***************************************************************************)
(* Proofs about InMemoryQueue for any set of workers, any lease time and   *)
(* any numbers of tasks, copies and late workers.                          *)
(***************************************************************************)
EXTENDS InMemoryQueue, FiniteSetTheorems, SequenceTheorems, TLAPS

Inv == TypeOK /\ NoTaskLostOrDuplicated /\ NeverEarly

\* The ids in the list s are distinct, those of S aside.
Distinct(s, S) ==
  \A i, j \in DOMAIN s : s[i].id = s[j].id => i = j \/ s[i].id \in S

-----------------------------------------------------------------------------
(* Facts about the operators the queue is built from.                      *)

\* Appending a task adds its id and keeps the ids distinct if that is a new
\* one, or one that need not be distinct.
LEMMA AppendIds ==
  ASSUME NEW s \in Seq(Task), NEW t \in Task, NEW S
  PROVE  /\ Append(s, t) \in Seq(Task)
         /\ Ids(Append(s, t)) = Ids(s) \cup {t.id}
         /\ Distinct(s, S) /\ (t.id \notin Ids(s) \/ t.id \in S) => Distinct(Append(s, t), S)
<1> DEFINE u == Append(s, t)
<1>1. /\ u \in Seq(Task) /\ Len(u) = Len(s) + 1 /\ DOMAIN u = 1 .. Len(s) + 1
      /\ DOMAIN s = 1 .. Len(s) /\ Len(s) \in Nat
      /\ \A i \in 1 .. Len(s) : u[i] = s[i]
      /\ u[Len(s) + 1] = t
  OBVIOUS
<1> HIDE DEF u
<1>2. Ids(u) = Ids(s) \cup {t.id}
  BY <1>1 DEF Ids
<1>3. ASSUME Distinct(s, S), t.id \notin Ids(s) \/ t.id \in S
      PROVE  Distinct(u, S)
  <2> SUFFICES ASSUME NEW i \in DOMAIN u, NEW j \in DOMAIN u, u[i].id = u[j].id, i # j
               PROVE  u[i].id \in S
    BY DEF Distinct
  <2>1. CASE i \in DOMAIN s /\ j \in DOMAIN s
    BY <1>1, <1>3, <2>1 DEF Distinct
  <2>2. CASE i = Len(s) + 1 /\ j \in DOMAIN s
    BY <1>1, <1>3, <2>2 DEF Ids
  <2>3. CASE j = Len(s) + 1 /\ i \in DOMAIN s
    BY <1>1, <1>3, <2>3 DEF Ids
  <2> QED BY <1>1, <2>1, <2>2, <2>3
<1> QED BY <1>1, <1>2, <1>3 DEF u

\* Taking out the i-th element keeps the others, in order.
LEMMA WithoutIds ==
  ASSUME NEW s \in Seq(Task), NEW k \in DOMAIN s, NEW S
  PROVE  /\ Without(s, k) \in Seq(Task)
         /\ Ids(Without(s, k)) \cup {s[k].id} = Ids(s)
         /\ Distinct(s, S) => /\ Distinct(Without(s, k), S)
                              /\ s[k].id \notin Ids(Without(s, k)) \ S
<1> DEFINE u == Without(s, k)
<1>1. /\ DOMAIN s = 1 .. Len(s) /\ Len(s) \in Nat /\ k \in 1 .. Len(s)
      /\ \A i \in 1 .. Len(s) : s[i] \in Task
  OBVIOUS
<1>2. /\ DOMAIN u = 1 .. Len(s) - 1
      /\ \A j \in 1 .. Len(s) - 1 : u[j] = IF j < k THEN s[j] ELSE s[j + 1]
  BY DEF Without
<1>3. u \in Seq(Task)
  <2>1. \A j \in 1 .. Len(s) - 1 : u[j] \in Task
    BY <1>1, <1>2
  <2>2. u = [j \in 1 .. Len(s) - 1 |-> u[j]]
    BY DEF Without
  <2>3. Len(s) - 1 \in Nat
    BY <1>1
  <2> HIDE DEF u
  <2> QED BY <2>1, <2>2, <2>3, IsASeq
<1> DEFINE from(j) == IF j < k THEN j ELSE j + 1
<1>4. \A j \in DOMAIN u : /\ from(j) \in DOMAIN s /\ from(j) # k
                          /\ u[j] = s[from(j)]
  BY <1>1, <1>2
<1>5. \A i, j \in DOMAIN u : i # j => from(i) # from(j)
  BY <1>1, <1>2
<1>6. \A i \in DOMAIN s : i # k => \E j \in DOMAIN u : from(j) = i
  <2> SUFFICES ASSUME NEW i \in DOMAIN s, i # k
               PROVE  \E j \in DOMAIN u : from(j) = i
    OBVIOUS
  <2>1. CASE i < k
    <3>1. i \in DOMAIN u /\ from(i) = i
      BY <1>1, <1>2, <2>1
    <3> QED BY <3>1
  <2>2. CASE i > k
    <3>1. i - 1 \in DOMAIN u /\ from(i - 1) = i
      BY <1>1, <1>2, <2>2
    <3> QED BY <3>1
  <2> QED BY <1>1, <2>1, <2>2
<1> HIDE DEF u, from
<1>7. ASSUME Distinct(s, S) PROVE Distinct(u, S)
  <2> SUFFICES ASSUME NEW i \in DOMAIN u, NEW j \in DOMAIN u, u[i].id = u[j].id, i # j
               PROVE  u[i].id \in S
    BY DEF Distinct
  <2>1. /\ from(i) \in DOMAIN s /\ from(j) \in DOMAIN s /\ from(i) # from(j)
        /\ u[i] = s[from(i)] /\ u[j] = s[from(j)]
    BY <1>4, <1>5
  <2> QED BY <1>7, <2>1 DEF Distinct
<1>8. Ids(u) \cup {s[k].id} = Ids(s)
  <2>1. ASSUME NEW j \in DOMAIN u PROVE u[j].id \in Ids(s)
    BY <1>4 DEF Ids
  <2>2. ASSUME NEW i \in DOMAIN s, i # k PROVE s[i].id \in Ids(u)
    BY <1>4, <1>6, <2>2 DEF Ids
  <2> QED BY <2>1, <2>2 DEF Ids
<1>9. ASSUME Distinct(s, S), s[k].id \in Ids(u) PROVE s[k].id \in S
  <2>1. PICK j \in DOMAIN u : u[j].id = s[k].id
    BY <1>9 DEF Ids
  <2>2. from(j) \in DOMAIN s /\ from(j) # k /\ s[from(j)].id = s[k].id
    BY <1>4, <2>1
  <2> QED BY <1>9, <2>2 DEF Distinct
<1> QED BY <1>3, <1>7, <1>8, <1>9 DEF u

\* The pool Dequeue chooses from: what was ready, then the expired tasks.
LEMMA RequeuedIds ==
  ASSUME Inv, NEW order \in Bijection(1 .. Cardinality(Expired), Expired)
  PROVE  /\ Requeued(order) \in Seq(Task)
         /\ Distinct(Requeued(order), again)
         /\ Ids(Requeued(order)) = Ids(ready) \cup Expired
<1> DEFINE n == Cardinality(Expired)
           back == [i \in DOMAIN order |-> inflight[order[i]].task]
           u == ready \o back
<1>1. n \in Nat
  <2>1. nextID \in Nat /\ Expired \subseteq 1 .. nextID
    BY DEF Inv, TypeOK, Expired
  <2>2. IsFiniteSet(1 .. nextID)
    BY <2>1, FS_Interval
  <2>3. IsFiniteSet(Expired)
    BY <2>1, <2>2, FS_Subset
  <2> QED BY <2>3, FS_CardinalityType
<1>2. /\ DOMAIN order = 1 .. n
      /\ \A i \in 1 .. n : order[i] \in Expired
      /\ \A i, j \in 1 .. n : i # j => order[i] # order[j]
      /\ \A id \in Expired : \E i \in 1 .. n : order[i] = id
  <2> HIDE DEF n
  <2>1. order \in Bijection(1 .. n, Expired)
    BY DEF n
  <2> QED BY <2>1 DEF Bijection, Injection, Surjection, IsInjective
<1> HIDE DEF n
<1>3. /\ DOMAIN back = 1 .. n
      /\ \A i \in 1 .. n : /\ back[i] = inflight[order[i]].task
                           /\ back[i] \in Task /\ back[i].id = order[i]
  BY <1>2 DEF Inv, TypeOK, NoTaskLostOrDuplicated, Expired, LeasedTask
<1>4. back \in Seq(Task) /\ Len(back) = n
  <2>1. back = [i \in 1 .. n |-> back[i]]
    BY <1>3
  <2> HIDE DEF back
  <2>2. back \in Seq(Task)
    BY <1>1, <1>3, <2>1, IsASeq
  <2> QED BY <1>1, <1>3, <2>2
<1>5. /\ ready \in Seq(Task) /\ DOMAIN ready = 1 .. Len(ready) /\ Len(ready) \in Nat
      /\ Distinct(ready, again) /\ Ids(ready) \cap DOMAIN inflight \subseteq again
  BY DEF Inv, TypeOK, NoTaskLostOrDuplicated, Distinct
<1>6. /\ u \in Seq(Task) /\ DOMAIN u = 1 .. Len(ready) + n
      /\ \A i \in 1 .. Len(ready) : u[i] = ready[i]
      /\ \A i \in 1 .. n : u[Len(ready) + i] = back[i]
  <2> HIDE DEF back
  <2> QED BY <1>1, <1>4, <1>5
<1>7. \A i \in 1 .. Len(ready) + n :
         \/ i \in 1 .. Len(ready) /\ u[i] = ready[i] /\ u[i].id \in Ids(ready)
         \/ /\ i - Len(ready) \in 1 .. n
            /\ u[i].id = order[i - Len(ready)] /\ u[i].id \in Expired
  <2> SUFFICES ASSUME NEW i \in 1 .. Len(ready) + n, i \notin 1 .. Len(ready)
               PROVE  /\ i - Len(ready) \in 1 .. n
                      /\ u[i].id = order[i - Len(ready)] /\ u[i].id \in Expired
    BY <1>5, <1>6 DEF Ids
  <2>1. i - Len(ready) \in 1 .. n /\ i = Len(ready) + (i - Len(ready))
    BY <1>1, <1>5
  <2>2. u[i] = back[i - Len(ready)]
    BY <1>6, <2>1
  <2>3. /\ back[i - Len(ready)].id = order[i - Len(ready)]
        /\ order[i - Len(ready)] \in Expired
    BY <1>2, <1>3, <2>1
  <2> QED BY <2>1, <2>2, <2>3
<1>8. Expired \subseteq DOMAIN inflight
  BY DEF Expired
<1> HIDE DEF u, back
<1>9. Distinct(u, again)
  <2> SUFFICES ASSUME NEW i \in DOMAIN u, NEW j \in DOMAIN u, u[i].id = u[j].id, i # j
               PROVE  u[i].id \in again
    BY DEF Distinct
  <2>1. CASE i \in 1 .. Len(ready) /\ j \in 1 .. Len(ready)
    BY <1>5, <1>6, <2>1 DEF Distinct
  <2>2. CASE u[i].id \in Ids(ready) /\ u[i].id \in Expired
    BY <1>5, <1>8, <2>2
  <2>3. CASE /\ i - Len(ready) \in 1 .. n /\ u[i].id = order[i - Len(ready)]
             /\ j - Len(ready) \in 1 .. n /\ u[j].id = order[j - Len(ready)]
    <3>1. i - Len(ready) # j - Len(ready)
      BY <1>1, <1>5, <1>6
    <3> QED BY <1>2, <2>3, <3>1
  <2> QED BY <1>6, <1>7, <2>1, <2>2, <2>3
<1>10. Ids(u) = Ids(ready) \cup Expired
  <2>1. Ids(u) \subseteq Ids(ready) \cup Expired
    BY <1>6, <1>7 DEF Ids
  <2>2. ASSUME NEW i \in DOMAIN ready PROVE ready[i].id \in Ids(u)
    <3>1. i \in DOMAIN u /\ u[i] = ready[i]
      BY <1>1, <1>5, <1>6
    <3> QED BY <3>1 DEF Ids
  <2>3. ASSUME NEW id \in Expired PROVE id \in Ids(u)
    <3>1. PICK i \in 1 .. n : order[i] = id
      BY <1>2
    <3>2. Len(ready) + i \in DOMAIN u /\ u[Len(ready) + i].id = id
      BY <1>1, <1>3, <1>5, <1>6, <3>1
    <3> QED BY <3>2 DEF Ids
  <2> QED BY <2>1, <2>2, <2>3 DEF Ids
<1> QED BY <1>6, <1>9, <1>10 DEF u, back, Requeued

-----------------------------------------------------------------------------
(* The invariant, one lemma per operation of the queue.                    *)

\* What the invariant says of the tasks in the queue.
LEMMA Facts ==
  ASSUME Inv
  PROVE  /\ nextID \in Nat /\ nextID <= MaxTasks
         /\ ready \in Seq(Task) /\ Distinct(ready, again)
         /\ \A id \in DOMAIN inflight : inflight[id] \in LeasedTask /\ inflight[id].task.id = id
         /\ (1 .. nextID) \ acked \subseteq Ids(ready) \cup DOMAIN inflight
         /\ Ids(ready) \cup DOMAIN inflight \subseteq (1 .. nextID) \ (acked \ again)
         /\ Ids(ready) \cap DOMAIN inflight \subseteq again
BY QueueAssumption DEF Inv, TypeOK, NoTaskLostOrDuplicated, Distinct

\* The other way round, of the state after a step.
LEMMA Collect ==
  ASSUME nextID' \in 0 .. MaxTasks,
         ready' \in Seq(Task), Distinct(ready', again'),
         \A id \in DOMAIN inflight' : /\ inflight'[id] \in LeasedTask
                                      /\ inflight'[id].task.id = id
                                      /\ inflight'[id].task.wait = 0,
         late' \subseteq Late, \A c \in late' : c.id \in 1 .. nextID',
         acked' \subseteq 1 .. nextID', again' \subseteq 1 .. nextID',
         (1 .. nextID') \ acked' \subseteq Ids(ready') \cup DOMAIN inflight',
         Ids(ready') \cup DOMAIN inflight' \subseteq (1 .. nextID') \ (acked' \ again'),
         Ids(ready') \cap DOMAIN inflight' \subseteq again'
  PROVE  Inv'
<1>1. DOMAIN inflight' \subseteq 1 .. nextID'
  OBVIOUS
<1>2. TypeOK'
  BY <1>1 DEF TypeOK
<1>3. NoTaskLostOrDuplicated'
  BY DEF NoTaskLostOrDuplicated, Distinct, Ids
<1>4. NeverEarly'
  BY DEF NeverEarly
<1> QED BY <1>2, <1>3, <1>4 DEF Inv

\* Enqueue (inmemory_queue.go) keeps the invariant for a task without an id:
\* the new one is in no list yet.
LEMMA SubmitInv ==
  ASSUME Inv, NEW wait \in 0 .. MaxWait, Submit(wait)
  PROVE  Inv'
<1> DEFINE t == [id |-> nextID + 1, wait |-> wait]
<1>1. /\ nextID \in Nat /\ nextID < MaxTasks /\ nextID' = nextID + 1
      /\ ready' = Append(ready, t)
      /\ UNCHANGED <<inflight, late, acked, again>>
  BY DEF Inv, TypeOK, Submit, Enqueue, NoID
<1>2. t \in Task /\ t.id = nextID + 1
  BY <1>1, QueueAssumption DEF Task
<1> HIDE DEF t
<1>3. nextID + 1 \notin Ids(ready) \cup DOMAIN inflight \cup acked \cup again
  BY <1>1, Facts DEF Inv, TypeOK
<1>4. /\ ready' \in Seq(Task) /\ Ids(ready') = Ids(ready) \cup {nextID + 1}
      /\ Distinct(ready', again)
  <2>1. nextID + 1 \notin Ids(ready)
    BY <1>3
  <2> QED BY <1>1, <1>2, <2>1, Facts, AppendIds
<1>5. 1 .. nextID' = (1 .. nextID) \cup {nextID + 1} /\ nextID' \in 0 .. MaxTasks
  BY <1>1, QueueAssumption
<1>6. /\ (1 .. nextID') \ acked' \subseteq Ids(ready') \cup DOMAIN inflight'
      /\ Ids(ready') \cup DOMAIN inflight' \subseteq (1 .. nextID') \ (acked' \ again')
      /\ Ids(ready') \cap DOMAIN inflight' \subseteq again'
  BY <1>1, <1>3, <1>4, <1>5, Facts
<1>7. /\ late' \subseteq Late /\ \A c \in late' : c.id \in 1 .. nextID'
      /\ acked' \subseteq 1 .. nextID' /\ again' \subseteq 1 .. nextID'
  BY <1>1, <1>5 DEF Inv, TypeOK
<1>8. \A id \in DOMAIN inflight' : /\ inflight'[id] \in LeasedTask
                                   /\ inflight'[id].task.id = id /\ inflight'[id].task.wait = 0
  BY <1>1, Facts DEF Inv, NeverEarly
<1> QED BY <1>1, <1>4, <1>5, <1>6, <1>7, <1>8, Collect

\* What Dequeue does: it takes back the expired leases and gives a task d that
\* is due to w.
LEMMA DequeueFacts ==
  ASSUME Inv, NEW w \in Owner, Dequeue(w)
  PROVE  \E d \in Ids(ready) \cup Expired :
           /\ ready' \in Seq(Task) /\ Distinct(ready', again)
           /\ Ids(ready') \cup {d} = Ids(ready) \cup Expired
           /\ d \notin Ids(ready') \ again
           /\ DOMAIN inflight' = (DOMAIN inflight \ Expired) \cup {d}
           /\ inflight'[d] \in LeasedTask /\ inflight'[d].owner = w /\ inflight'[d].left = TTL
           /\ inflight'[d].task.id = d /\ inflight'[d].task.wait = 0
           /\ \A id \in DOMAIN inflight \ Expired : id # d => inflight'[id] = inflight[id]
           /\ late' \subseteq Late /\ \A c \in late' : c.id \in 1 .. nextID
           /\ UNCHANGED <<nextID, acked, again>>
<1>1. PICK order \in Bijection(1 .. Cardinality(Expired), Expired) :
        \E idx \in DOMAIN Requeued(order) :
          LET t == Requeued(order)[idx] IN
          /\ IsFirstRunnable(Requeued(order), idx)
          /\ ready' = Without(Requeued(order), idx)
          /\ inflight' = [id \in (DOMAIN inflight \ Expired) \cup {t.id} |->
                            IF id = t.id
                            THEN [task |-> t, owner |-> w, left |-> TTL]
                            ELSE inflight[id]]
          /\ Losing(t)
          /\ UNCHANGED <<nextID, acked, again>>
  BY DEF Dequeue
<1> DEFINE pool == Requeued(order)
<1>2. /\ pool \in Seq(Task) /\ Distinct(pool, again)
      /\ Ids(pool) = Ids(ready) \cup Expired
  BY RequeuedIds
<1> HIDE DEF pool
<1>3. PICK idx \in DOMAIN pool :
          /\ IsFirstRunnable(pool, idx)
          /\ ready' = Without(pool, idx)
          /\ inflight' = [id \in (DOMAIN inflight \ Expired) \cup {pool[idx].id} |->
                            IF id = pool[idx].id
                            THEN [task |-> pool[idx], owner |-> w, left |-> TTL]
                            ELSE inflight[id]]
          /\ Losing(pool[idx])
          /\ UNCHANGED <<nextID, acked, again>>
  BY <1>1 DEF pool
<1> DEFINE t == pool[idx]
<1>4. t \in Task /\ t.wait = 0 /\ t.id \in Ids(ready) \cup Expired
  BY <1>2, <1>3 DEF IsFirstRunnable, Ids
<1>5. /\ ready' \in Seq(Task) /\ Distinct(ready', again)
      /\ Ids(ready') \cup {t.id} = Ids(ready) \cup Expired
      /\ t.id \notin Ids(ready') \ again
  BY <1>2, <1>3, WithoutIds
<1>6. /\ Losing(t)
      /\ inflight' = [id \in (DOMAIN inflight \ Expired) \cup {t.id} |->
                        IF id = t.id THEN [task |-> t, owner |-> w, left |-> TTL]
                        ELSE inflight[id]]
  BY <1>3
<1> HIDE DEF t
<1>7. /\ DOMAIN inflight' = (DOMAIN inflight \ Expired) \cup {t.id}
      /\ inflight'[t.id] = [task |-> t, owner |-> w, left |-> TTL]
      /\ \A id \in DOMAIN inflight \ Expired : id # t.id => inflight'[id] = inflight[id]
  BY <1>6
<1>8. inflight'[t.id] \in LeasedTask
  BY <1>4, <1>7, QueueAssumption DEF LeasedTask
<1>9. late' \subseteq Late /\ \A c \in late' : c.id \in 1 .. nextID
  <2> DEFINE lost == Expired \cup (DOMAIN inflight \cap {t.id})
             losers == {[owner |-> inflight[id].owner, id |-> id, pc |-> "answer"] : id \in lost}
  <2>1. late' \subseteq late \cup losers
    BY <1>6, Zenon DEF Losing
  <2>2. \A id \in lost : inflight[id].owner \in Owner /\ id \in 1 .. nextID /\ id \in Nat
    BY Facts DEF Expired, Inv, TypeOK, LeasedTask
  <2>3. \A c \in losers : c \in Late /\ c.id \in 1 .. nextID
    BY <2>2 DEF Late
  <2> HIDE DEF losers
  <2> QED BY <2>1, <2>3 DEF Inv, TypeOK
<1>10. /\ inflight'[t.id].owner = w /\ inflight'[t.id].left = TTL
       /\ inflight'[t.id].task.id = t.id /\ inflight'[t.id].task.wait = 0
  BY <1>4, <1>7
<1>11. UNCHANGED <<nextID, acked, again>>
  BY <1>3
<1> WITNESS t.id \in Ids(ready) \cup Expired
<1> QED BY <1>5, <1>7, <1>8, <1>9, <1>10, <1>11

\* Dequeue keeps the invariant: expired leases go back to the list, and the
\* task it leases leaves it, if it is there once.
LEMMA DequeueInv ==
  ASSUME Inv, NEW w \in Owner, Dequeue(w)
  PROVE  Inv'
<1>1. PICK d \in Ids(ready) \cup Expired :
           /\ ready' \in Seq(Task) /\ Distinct(ready', again)
           /\ Ids(ready') \cup {d} = Ids(ready) \cup Expired
           /\ d \notin Ids(ready') \ again
           /\ DOMAIN inflight' = (DOMAIN inflight \ Expired) \cup {d}
           /\ inflight'[d] \in LeasedTask /\ inflight'[d].task.id = d
           /\ inflight'[d].task.wait = 0
           /\ \A id \in DOMAIN inflight \ Expired : id # d => inflight'[id] = inflight[id]
           /\ late' \subseteq Late /\ \A c \in late' : c.id \in 1 .. nextID
           /\ UNCHANGED <<nextID, acked, again>>
  BY DequeueFacts
<1>2. Expired \subseteq DOMAIN inflight
  BY DEF Expired
<1>3. (1 .. nextID) \ acked \subseteq Ids(ready') \cup DOMAIN inflight'
  BY <1>1, <1>2, Facts
<1>4. Ids(ready') \cup DOMAIN inflight' \subseteq (1 .. nextID) \ (acked \ again)
  BY <1>1, <1>2, Facts
<1>5. Ids(ready') \cap DOMAIN inflight' \subseteq again
  BY <1>1, <1>2, Facts
<1>6. \A id \in DOMAIN inflight' : /\ inflight'[id] \in LeasedTask
                                   /\ inflight'[id].task.id = id /\ inflight'[id].task.wait = 0
  BY <1>1, Facts DEF Inv, NeverEarly
<1>7. /\ nextID' \in 0 .. MaxTasks /\ acked' \subseteq 1 .. nextID' /\ again' \subseteq 1 .. nextID'
  BY <1>1 DEF Inv, TypeOK
<1> QED BY <1>1, <1>3, <1>4, <1>5, <1>6, <1>7, Collect

\* RenewLease keeps the invariant: it changes one expiry.
LEMMA RenewLeaseInv ==
  ASSUME Inv, NEW id \in 1 .. nextID, NEW w \in Owner, RenewLease(id, w)
  PROVE  Inv'
<1>1. /\ id \in DOMAIN inflight /\ inflight' = [inflight EXCEPT ![id].left = TTL]
      /\ UNCHANGED <<nextID, ready, late, acked, again>>
  BY DEF RenewLease, Holds
<1>2. /\ DOMAIN inflight' = DOMAIN inflight
      /\ \A i \in DOMAIN inflight : /\ inflight'[i] \in LeasedTask
                                    /\ inflight'[i].task = inflight[i].task
  BY <1>1, Facts, QueueAssumption DEF LeasedTask
<1>3. \A i \in DOMAIN inflight' : /\ inflight'[i] \in LeasedTask
                                  /\ inflight'[i].task.id = i /\ inflight'[i].task.wait = 0
  BY <1>2, Facts DEF Inv, NeverEarly
<1>4. /\ nextID' \in 0 .. MaxTasks /\ late' \subseteq Late
      /\ \A c \in late' : c.id \in 1 .. nextID'
      /\ acked' \subseteq 1 .. nextID' /\ again' \subseteq 1 .. nextID'
  BY <1>1 DEF Inv, TypeOK
<1> QED BY <1>1, <1>2, <1>3, <1>4, Facts, Collect

\* Ack keeps the invariant: the task leaves the lease map for good.
LEMMA AckInv ==
  ASSUME Inv, NEW id \in 1 .. nextID, NEW w, Ack(id, w), UNCHANGED again,
         late' \subseteq Late, \A c \in late' : c.id \in 1 .. nextID
  PROVE  Inv'
<1>1. /\ UNCHANGED <<nextID, ready, again>>
      /\ \/ /\ DOMAIN inflight' = DOMAIN inflight \ {id} /\ acked' = acked \cup {id}
            /\ id \in DOMAIN inflight
         \/ DOMAIN inflight' = DOMAIN inflight /\ acked' = acked
      /\ \A i \in DOMAIN inflight' : inflight'[i] = inflight[i]
  BY DEF Ack, Remove, Holds
<1>2. /\ (1 .. nextID') \ acked' \subseteq Ids(ready') \cup DOMAIN inflight'
      /\ Ids(ready') \cap DOMAIN inflight' \subseteq again'
  BY <1>1, Facts
<1>3. Ids(ready') \cup DOMAIN inflight' \subseteq (1 .. nextID') \ (acked' \ again')
  BY <1>1, Facts
<1>4. \A i \in DOMAIN inflight' : /\ inflight'[i] \in LeasedTask
                                  /\ inflight'[i].task.id = i /\ inflight'[i].task.wait = 0
  BY <1>1, Facts DEF Inv, NeverEarly
<1>5. /\ nextID' \in 0 .. MaxTasks /\ acked' \subseteq 1 .. nextID'
      /\ again' \subseteq 1 .. nextID'
  BY <1>1 DEF Inv, TypeOK
<1> QED BY <1>1, <1>2, <1>3, <1>4, <1>5, Facts, Collect

\* What Nack does: the task moves from the lease map to the list.
LEMMA NackFacts ==
  ASSUME Inv, NEW id \in 1 .. nextID, NEW w \in Owner, NEW wait \in 0 .. MaxWait,
         Nack(id, w, wait)
  PROVE  /\ id \in DOMAIN inflight /\ inflight[id].owner = w
         /\ DOMAIN inflight' = DOMAIN inflight \ {id}
         /\ \A i \in DOMAIN inflight' : inflight'[i] = inflight[i]
         /\ ready' \in Seq(Task) /\ Ids(ready') = Ids(ready) \cup {id}
         /\ Distinct(ready', again)
         /\ UNCHANGED <<nextID, late, acked, again>>
<1> DEFINE t == [inflight[id].task EXCEPT !.wait = wait]
<1>1. /\ id \in DOMAIN inflight /\ inflight[id].owner = w
      /\ DOMAIN inflight' = DOMAIN inflight \ {id}
      /\ \A i \in DOMAIN inflight' : inflight'[i] = inflight[i]
      /\ ready' = Append(ready, t)
      /\ UNCHANGED <<nextID, late, acked, again>>
  BY DEF Nack, Remove, Holds
<1>2. t \in Task /\ t.id = id
  <2>1. inflight[id].task \in Task /\ inflight[id].task.id = id /\ wait \in Nat
    BY <1>1, Facts, QueueAssumption DEF LeasedTask
  <2> QED BY <2>1 DEF Task
<1> HIDE DEF t
<1>3. id \notin Ids(ready) \/ id \in again
  BY <1>1, Facts
<1>4. /\ ready' \in Seq(Task) /\ Ids(ready') = Ids(ready) \cup {id}
      /\ Distinct(ready', again)
  BY <1>1, <1>2, <1>3, Facts, AppendIds
<1> QED BY <1>1, <1>4

\* Nack keeps the invariant.
LEMMA NackInv ==
  ASSUME Inv, NEW id \in 1 .. nextID, NEW w \in Owner, NEW wait \in 0 .. MaxWait,
         Nack(id, w, wait)
  PROVE  Inv'
<1>1. /\ (1 .. nextID') \ acked' \subseteq Ids(ready') \cup DOMAIN inflight'
      /\ Ids(ready') \cap DOMAIN inflight' \subseteq again'
  BY NackFacts, Facts
<1>2. Ids(ready') \cup DOMAIN inflight' \subseteq (1 .. nextID') \ (acked' \ again')
  BY NackFacts, Facts
<1>3. \A i \in DOMAIN inflight' : /\ inflight'[i] \in LeasedTask
                                  /\ inflight'[i].task.id = i /\ inflight'[i].task.wait = 0
  <2>1. \A i \in DOMAIN inflight' : i \in DOMAIN inflight /\ inflight'[i] = inflight[i]
    BY NackFacts
  <2> QED BY <2>1, Facts DEF Inv, NeverEarly
<1>4. /\ nextID' \in 0 .. MaxTasks /\ late' \subseteq Late
      /\ \A c \in late' : c.id \in 1 .. nextID'
      /\ acked' \subseteq 1 .. nextID' /\ again' \subseteq 1 .. nextID'
  BY NackFacts DEF Inv, TypeOK
<1> QED BY <1>1, <1>2, <1>3, <1>4, NackFacts, Collect

\* The clock changes no task's id and no lease's holder.
LEMMA TickKeeps ==
  ASSUME Inv, Tick
  PROVE  /\ ready' \in Seq(Task) /\ Len(ready') = Len(ready)
         /\ \A i \in DOMAIN ready : ready'[i].id = ready[i].id
         /\ Ids(ready)' = Ids(ready)
         /\ DOMAIN inflight' = DOMAIN inflight
         /\ \A id \in DOMAIN inflight :
              /\ inflight'[id] \in LeasedTask
              /\ inflight'[id].task = inflight[id].task
              /\ inflight'[id].owner = inflight[id].owner
              /\ inflight'[id].left > 0 => inflight[id].left > 0
         /\ UNCHANGED <<nextID, late, acked, again>>
<1>1. /\ ready \in Seq(Task) /\ DOMAIN ready = 1 .. Len(ready) /\ Len(ready) \in Nat
      /\ \A i \in 1 .. Len(ready) : ready[i] \in Task
  BY DEF Inv, TypeOK
<1>2. /\ ready' = [i \in 1 .. Len(ready) |-> ready'[i]]
      /\ \A i \in 1 .. Len(ready) : ready'[i] \in Task /\ ready'[i].id = ready[i].id
  <2>1. ready' = [i \in 1 .. Len(ready) |-> [ready[i] EXCEPT !.wait = Dec(@)]]
    BY <1>1 DEF Tick
  <2>2. ASSUME NEW t \in Task
        PROVE  /\ [t EXCEPT !.wait = Dec(@)] \in Task
               /\ [t EXCEPT !.wait = Dec(@)].id = t.id
    BY DEF Task, Dec
  <2> QED BY <1>1, <2>1, <2>2
<1>3. ready' \in Seq(Task) /\ Len(ready') = Len(ready)
  <2>1. ready' \in Seq(Task)
    BY <1>1, <1>2, IsASeq
  <2>2. DOMAIN ready' = 1 .. Len(ready)
    BY <1>2
  <2> QED BY <1>1, <2>1, <2>2
<1>4. Ids(ready)' = Ids(ready)
  BY <1>1, <1>2, <1>3 DEF Ids
<1>5. /\ DOMAIN inflight' = DOMAIN inflight
      /\ \A id \in DOMAIN inflight :
           /\ inflight'[id] \in LeasedTask
           /\ inflight'[id].task = inflight[id].task
           /\ inflight'[id].owner = inflight[id].owner
           /\ inflight'[id].left > 0 => inflight[id].left > 0
  BY DEF Inv, TypeOK, Tick, LeasedTask, Dec
<1> QED BY <1>1, <1>2, <1>3, <1>4, <1>5 DEF Tick

\* The passing of time keeps the invariant: timers only count down.
LEMMA TickInv ==
  ASSUME Inv, Tick
  PROVE  Inv'
<1>1. DOMAIN ready' = DOMAIN ready
  BY TickKeeps, Facts
<1>2. Distinct(ready', again')
  BY <1>1, TickKeeps, Facts DEF Distinct
<1>3. /\ (1 .. nextID') \ acked' \subseteq Ids(ready') \cup DOMAIN inflight'
      /\ Ids(ready') \cup DOMAIN inflight' \subseteq (1 .. nextID') \ (acked' \ again')
      /\ Ids(ready') \cap DOMAIN inflight' \subseteq again'
  BY TickKeeps, Facts DEF Ids
<1>4. \A i \in DOMAIN inflight' : /\ inflight'[i] \in LeasedTask
                                  /\ inflight'[i].task.id = i /\ inflight'[i].task.wait = 0
  BY TickKeeps, Facts DEF Inv, NeverEarly
<1>5. /\ nextID' \in 0 .. MaxTasks /\ late' \subseteq Late
      /\ \A c \in late' : c.id \in 1 .. nextID'
      /\ acked' \subseteq 1 .. nextID' /\ again' \subseteq 1 .. nextID'
  BY TickKeeps DEF Inv, TypeOK
<1> QED BY <1>2, <1>3, <1>4, <1>5, TickKeeps, Collect

\* A worker that goes on in handleErr stays a late worker.
LEMMA GoesFacts ==
  ASSUME Inv, NEW c \in late, NEW pc \in {"ack", "enqueue"}, Goes(c, pc)
  PROVE  late' \subseteq Late /\ \A x \in late' : x.id \in 1 .. nextID
<1>1. [c EXCEPT !.pc = pc] \in Late /\ [c EXCEPT !.pc = pc].id = c.id
  BY DEF Inv, TypeOK, Late
<1>2. \A x \in late' : x \in late \/ x = [c EXCEPT !.pc = pc]
  BY DEF Goes
<1> QED BY <1>1, <1>2 DEF Inv, TypeOK

\* What the fallback's Enqueue does: the list gets a second task of an id.
LEMMA FallbackFacts ==
  ASSUME Inv, NEW c \in late, NEW wait \in 0 .. MaxWait, FallbackEnqueue(c, wait)
  PROVE  /\ ready' \in Seq(Task) /\ Ids(ready') = Ids(ready) \cup {c.id}
         /\ Distinct(ready', again')
         /\ c.id \in 1 .. nextID /\ again' = again \cup {c.id}
         /\ late' \subseteq late /\ UNCHANGED <<nextID, inflight, acked>>
<1> DEFINE t == [id |-> c.id, wait |-> wait]
<1>1. c.id \in 1 .. nextID /\ c.id # NoID /\ nextID \in Nat
  BY Facts DEF Inv, TypeOK, NoID
<1>2. /\ ready' = Append(ready, t) /\ again' = again \cup {c.id}
      /\ late' \subseteq late /\ UNCHANGED <<nextID, inflight, acked>>
  BY <1>1 DEF FallbackEnqueue, Enqueue
<1>3. t \in Task /\ t.id = c.id
  BY <1>1, QueueAssumption DEF Task
<1> HIDE DEF t
<1>4. Distinct(ready, again')
  BY <1>2, Facts DEF Distinct
<1>5. c.id \in again'
  BY <1>2
<1>6. /\ ready' \in Seq(Task) /\ Ids(ready') = Ids(ready) \cup {c.id}
      /\ Distinct(ready', again')
  BY <1>2, <1>3, <1>4, <1>5, Facts, AppendIds
<1> QED BY <1>1, <1>2, <1>6

\* The fallback of a worker that answers late keeps the invariant: it makes
\* a task come twice, and remembers it.
LEMMA RetriesInv ==
  ASSUME Inv, NEW c \in late, Retries(c)
  PROVE  Inv'
<1>1. ASSUME late' \subseteq Late, \A x \in late' : x.id \in 1 .. nextID,
             UNCHANGED <<nextID, ready, inflight, acked, again>>
      PROVE  Inv'
  BY <1>1 DEF Inv, TypeOK, NoTaskLostOrDuplicated, NeverEarly, Ids
<1>2. CASE AnswersLate(c)
  BY <1>1, <1>2 DEF AnswersLate, Inv, TypeOK
<1>3. CASE NackRefused(c)
  BY <1>1, <1>3, GoesFacts DEF NackRefused
<1>4. CASE FallbackAck(c)
  <2>1. c.id \in 1 .. nextID
    BY DEF Inv, TypeOK
  <2> QED BY <1>4, <2>1, GoesFacts, AckInv DEF FallbackAck
<1>5. ASSUME NEW wait \in 0 .. MaxWait, FallbackEnqueue(c, wait)
      PROVE  Inv'
  <2>1. /\ ready' \in Seq(Task) /\ Ids(ready') = Ids(ready) \cup {c.id}
        /\ Distinct(ready', again')
        /\ c.id \in 1 .. nextID /\ again' = again \cup {c.id}
        /\ late' \subseteq late /\ UNCHANGED <<nextID, inflight, acked>>
    BY <1>5, FallbackFacts
  <2>2. /\ (1 .. nextID') \ acked' \subseteq Ids(ready') \cup DOMAIN inflight'
        /\ Ids(ready') \cup DOMAIN inflight' \subseteq (1 .. nextID') \ (acked' \ again')
        /\ Ids(ready') \cap DOMAIN inflight' \subseteq again'
    BY <2>1, Facts
  <2>3. /\ nextID' \in 0 .. MaxTasks /\ late' \subseteq Late
        /\ \A x \in late' : x.id \in 1 .. nextID'
        /\ acked' \subseteq 1 .. nextID' /\ again' \subseteq 1 .. nextID'
    BY <2>1 DEF Inv, TypeOK
  <2>4. \A i \in DOMAIN inflight' : /\ inflight'[i] \in LeasedTask
                                    /\ inflight'[i].task.id = i /\ inflight'[i].task.wait = 0
    BY <2>1, Facts DEF Inv, NeverEarly
  <2> QED BY <2>1, <2>2, <2>3, <2>4, Collect
<1> QED BY <1>2, <1>3, <1>4, <1>5 DEF Retries

\* No task is lost, none is duplicated by the queue, and none is delivered
\* early, for every set of workers, every lease time and any number of tasks.
THEOREM QueueInvariant == Spec => []Inv
<1>1. Init => Inv
  <2> SUFFICES ASSUME Init PROVE Inv
    OBVIOUS
  <2>1. /\ ready = <<>> /\ DOMAIN inflight = {} /\ nextID = 0
        /\ late = {} /\ acked = {} /\ again = {}
    BY DEF Init
  <2>2. Ids(ready) = {} /\ DOMAIN ready = {} /\ 1 .. nextID = {}
    BY <2>1 DEF Ids
  <2> QED BY <2>1, <2>2, QueueAssumption
          DEF Inv, TypeOK, NoTaskLostOrDuplicated, NeverEarly
<1>2. Inv /\ [Next]_vars => Inv'
  <2> SUFFICES ASSUME Inv, [Next]_vars PROVE Inv'
    OBVIOUS
  <2>1. CASE UNCHANGED vars
    BY <2>1 DEF vars, Inv, TypeOK, NoTaskLostOrDuplicated, NeverEarly, Ids
  <2>2. ASSUME NEW id \in 1 .. nextID, NEW w \in Owner, Answers(id, w)
        PROVE  Inv'
    <3>1. CASE Ack(id, w) /\ UNCHANGED <<late, again>>
      BY <3>1, AckInv DEF Inv, TypeOK
    <3> QED BY <2>2, <3>1, RenewLeaseInv, NackInv DEF Answers
  <2>3. CASE Next
    BY <2>2, <2>3, TickInv, SubmitInv, DequeueInv, RetriesInv DEF Next
  <2> QED BY <2>1, <2>3
<1> QED BY <1>1, <1>2, PTL DEF Spec

\* The queue loses no task until its Ack, whatever leases run out and whatever
\* copies are enqueued, and holds one twice only if it was enqueued twice.
THEOREM NothingLost == Spec => []NoTaskLostOrDuplicated
BY QueueInvariant, PTL DEF Inv

\* Dequeue never hands out a task before its NotBefore.
THEOREM Schedule == Spec => []NeverEarly
BY QueueInvariant, PTL DEF Inv

\* The queue stays well typed.
THEOREM TypeCorrect == Spec => []TypeOK
BY QueueInvariant, PTL DEF Inv

-----------------------------------------------------------------------------
(* The queue implements LeaseQueue: one lemma per operation says which     *)
(* step of LeaseQueue it is.                                               *)

\* Enqueue without an id is an Enqueue of the promise.
LEMMA SubmitIsEnqueue ==
  ASSUME Inv, NEW wait \in 0 .. MaxWait, Submit(wait)
  PROVE  Promise!Enqueue(nextID + 1) /\ nextID + 1 \in 1 .. MaxTasks
<1> DEFINE t == [id |-> nextID + 1, wait |-> wait]
<1>1. /\ nextID \in Nat /\ nextID < MaxTasks /\ nextID' = nextID + 1
      /\ ready' = Append(ready, t) /\ UNCHANGED <<inflight, again>>
  BY DEF Inv, TypeOK, Submit, Enqueue, NoID
<1>2. t \in Task /\ t.id = nextID + 1
  BY <1>1, QueueAssumption DEF Task
<1> HIDE DEF t
<1>3. Ids(ready') = Ids(ready) \cup {nextID + 1}
  BY <1>1, <1>2, AppendIds DEF Inv, TypeOK
<1>4. nextID + 1 \notin DOMAIN inflight /\ nextID + 1 \notin again
  BY <1>1 DEF Inv, TypeOK
<1>5. HolderOf' = [u \in DOMAIN HolderOf \cup {nextID + 1} |->
                     IF u = nextID + 1 THEN NoOwner ELSE HolderOf[u]]
  <2>1. (Ids(ready') \cup DOMAIN inflight') \ again' = DOMAIN HolderOf \cup {nextID + 1}
    BY <1>1, <1>3, <1>4 DEF HolderOf
  <2> QED BY <1>1, <1>4, <2>1 DEF HolderOf
<1>6. LiveLeases' = LiveLeases
  BY <1>1 DEF LiveLeases
<1>7. (1 .. nextID)' = (1 .. nextID) \cup {nextID + 1} /\ nextID + 1 \notin 1 .. nextID
  BY <1>1
<1> QED BY <1>1, <1>5, <1>6, <1>7, QueueAssumption DEF Promise!Enqueue

\* The fallback's Enqueue is an EnqueueAgain of the promise.
LEMMA FallbackIsAgain ==
  ASSUME Inv, NEW c \in late, NEW wait \in 0 .. MaxWait, FallbackEnqueue(c, wait)
  PROVE  Promise!EnqueueAgain(c.id) /\ c.id \in 1 .. MaxTasks
<1>1. /\ Ids(ready') = Ids(ready) \cup {c.id} /\ again' = again \cup {c.id}
      /\ c.id \in 1 .. nextID /\ c.id \in 1 .. MaxTasks
      /\ UNCHANGED <<nextID, inflight>>
  BY FallbackFacts, Facts, QueueAssumption
<1>2. HolderOf' = [u \in DOMAIN HolderOf \ {c.id} |-> HolderOf[u]]
  <2>1. (Ids(ready') \cup DOMAIN inflight') \ again' = DOMAIN HolderOf \ {c.id}
    BY <1>1 DEF HolderOf
  <2> QED BY <1>1, <2>1 DEF HolderOf
<1>3. LiveLeases' = LiveLeases \ {c.id}
  BY <1>1 DEF LiveLeases
<1> QED BY <1>1, <1>2, <1>3 DEF Promise!EnqueueAgain

\* Dequeue is a Dequeue of the promise that takes back the expired leases it
\* requeues, or only takes them back if it delivers a copied task.
LEMMA DequeueIsDequeue ==
  ASSUME Inv, NEW w \in Owner, Dequeue(w)
  PROVE  Promise!TakeBack \/ \E id \in 1 .. MaxTasks : Promise!Dequeue(id, w)
<1>1. PICK d \in Ids(ready) \cup Expired :
           /\ Ids(ready') \cup {d} = Ids(ready) \cup Expired
           /\ DOMAIN inflight' = (DOMAIN inflight \ Expired) \cup {d}
           /\ inflight'[d].owner = w /\ inflight'[d].left = TTL
           /\ \A id \in DOMAIN inflight \ Expired : id # d => inflight'[id] = inflight[id]
           /\ UNCHANGED <<nextID, again>>
  BY DequeueFacts
<1> DEFINE back == Expired \ again
<1>2. /\ Expired \subseteq DOMAIN inflight
      /\ \A id \in Expired : inflight[id].left = 0
      /\ \A id \in DOMAIN inflight \ Expired : inflight[id].left > 0
      /\ \A id \in DOMAIN inflight : inflight[id].owner \in Owner
      /\ Ids(ready) \cap DOMAIN inflight \subseteq again
      /\ Ids(ready) \cup DOMAIN inflight \subseteq 1 .. MaxTasks
  BY Facts, QueueAssumption DEF Expired, LeasedTask
<1>3. LiveLeases = DOMAIN inflight \ (Expired \cup again)
  BY <1>2 DEF LiveLeases
<1>4. /\ DOMAIN HolderOf = (Ids(ready) \cup DOMAIN inflight) \ again
      /\ \A u \in DOMAIN HolderOf :
           HolderOf[u] = IF u \in DOMAIN inflight THEN inflight[u].owner ELSE NoOwner
  BY DEF HolderOf
<1>5. back \in SUBSET Promise!Lapsed
  BY <1>2, <1>3, <1>4, QueueAssumption DEF Promise!Lapsed
<1>6. (Ids(ready') \cup DOMAIN inflight') \ again' = DOMAIN HolderOf
  BY <1>1, <1>2, <1>4
<1>7. ASSUME NEW u \in DOMAIN HolderOf
      PROVE  (IF u \in DOMAIN inflight' THEN inflight'[u].owner ELSE NoOwner)
              = IF u = d THEN w ELSE IF u \in back THEN NoOwner ELSE HolderOf[u]
  BY <1>1, <1>2, <1>4, <1>7
<1>8. HolderOf' = [u \in DOMAIN HolderOf |-> IF u = d THEN w
                                             ELSE IF u \in back THEN NoOwner
                                             ELSE HolderOf[u]]
  BY <1>6, <1>7 DEF HolderOf
<1> HIDE DEF back
<1>9. CASE d \in again
  <2>1. HolderOf' = [u \in DOMAIN HolderOf |-> IF u \in back THEN NoOwner ELSE HolderOf[u]]
    BY <1>4, <1>8, <1>9
  <2>2. LiveLeases' = LiveLeases
    BY <1>1, <1>2, <1>3, <1>9 DEF LiveLeases
  <2> QED BY <1>1, <1>5, <2>1, <2>2 DEF Promise!TakeBack
<1>10. CASE d \notin again
  <2>1. LiveLeases' = LiveLeases \cup {d}
    BY <1>1, <1>2, <1>3, <1>10, QueueAssumption DEF LiveLeases
  <2>2. d \in DOMAIN HolderOf \ LiveLeases /\ d \in 1 .. MaxTasks
    BY <1>1, <1>2, <1>3, <1>4, <1>10
  <2>3. Promise!Dequeue(d, w)
    BY <1>1, <1>5, <1>8, <2>1, <2>2 DEF Promise!Dequeue
  <2> QED BY <2>2, <2>3
<1> QED BY <1>9, <1>10

\* The abstract holder of a leased task is the owner in its lease record.
LEMMA HolderIs ==
  ASSUME Inv, NEW id \in DOMAIN inflight \ again, NEW w \in Owner, inflight[id].owner = w
  PROVE  /\ id \in DOMAIN HolderOf /\ HolderOf[id] = w
         /\ id \notin Ids(ready) /\ id \in 1 .. MaxTasks
<1>1. id \in DOMAIN HolderOf /\ HolderOf[id] = w
  BY DEF HolderOf
<1>2. id \notin Ids(ready) /\ id \in 1 .. nextID
  BY Facts
<1> QED BY <1>1, <1>2, Facts, QueueAssumption

\* RenewLease is a RenewLease of the promise, and nothing for a copied task.
LEMMA RenewIsRenew ==
  ASSUME Inv, NEW id \in 1 .. nextID, NEW w \in Owner, RenewLease(id, w)
  PROVE  Promise!Next \/ UNCHANGED Promise!vars
<1>1. /\ id \in DOMAIN inflight /\ inflight[id].owner = w
      /\ inflight' = [inflight EXCEPT ![id].left = TTL]
      /\ UNCHANGED <<nextID, ready, again>>
  BY DEF RenewLease, Holds
<1>2. /\ Ids(ready)' = Ids(ready) /\ DOMAIN inflight' = DOMAIN inflight
      /\ \A u \in DOMAIN inflight : inflight'[u].owner = inflight[u].owner
      /\ inflight'[id].left = TTL
      /\ \A u \in DOMAIN inflight : u # id => inflight'[u].left = inflight[u].left
  BY <1>1, Facts DEF Ids, LeasedTask
<1>3. HolderOf' = HolderOf
  BY <1>1, <1>2 DEF HolderOf
<1>4. CASE id \in again
  <2>1. LiveLeases' = LiveLeases
    BY <1>1, <1>2, <1>4 DEF LiveLeases
  <2> QED BY <1>1, <1>3, <2>1 DEF Promise!vars
<1>5. CASE id \notin again
  <2>1. LiveLeases' = LiveLeases \cup {id}
    BY <1>1, <1>2, <1>5, QueueAssumption DEF LiveLeases
  <2>2. id \in DOMAIN HolderOf /\ HolderOf[id] = w /\ id \in 1 .. MaxTasks
    BY <1>1, <1>5, HolderIs
  <2>3. Promise!RenewLease(id, w)
    BY <1>1, <1>3, <2>1, <2>2 DEF Promise!RenewLease
  <2> QED BY <2>2, <2>3 DEF Promise!Next
<1> QED BY <1>4, <1>5

\* Ack is an Ack of the promise, or nothing: for a copied task, and for a
\* worker without the lease.
LEMMA AckIsAck ==
  ASSUME Inv, NEW id \in 1 .. nextID, NEW w \in Owner, Ack(id, w), UNCHANGED again
  PROVE  Promise!Next \/ UNCHANGED Promise!vars
<1>1. nextID' = nextID /\ ready' = ready /\ Ids(ready)' = Ids(ready)
  BY DEF Ack, Ids
<1>2. CASE ~Holds(id, w)
  <2>1. inflight' = inflight
    BY <1>2 DEF Ack
  <2> QED BY <1>1, <2>1 DEF Promise!vars, HolderOf, LiveLeases
<1>3. CASE Holds(id, w)
  <2>1. /\ id \in DOMAIN inflight /\ inflight[id].owner = w
        /\ DOMAIN inflight' = DOMAIN inflight \ {id}
        /\ \A u \in DOMAIN inflight' : inflight'[u] = inflight[u]
    BY <1>3 DEF Ack, Remove, Holds
  <2>2. CASE id \in again
    <3>1. HolderOf' = HolderOf
      <4>1. (Ids(ready)' \cup DOMAIN inflight') \ again' = DOMAIN HolderOf
        BY <1>1, <2>1, <2>2 DEF HolderOf
      <4> QED BY <2>1, <2>2, <4>1 DEF HolderOf
    <3>2. LiveLeases' = LiveLeases
      BY <2>1, <2>2 DEF LiveLeases
    <3> QED BY <1>1, <3>1, <3>2 DEF Promise!vars
  <2>3. CASE id \notin again
    <3>1. /\ id \in DOMAIN HolderOf /\ HolderOf[id] = w
          /\ id \notin Ids(ready) /\ id \in 1 .. MaxTasks
      BY <2>1, <2>3, HolderIs
    <3>2. HolderOf' = [u \in DOMAIN HolderOf \ {id} |-> HolderOf[u]]
      <4>1. (Ids(ready)' \cup DOMAIN inflight') \ again' = DOMAIN HolderOf \ {id}
        BY <1>1, <2>1, <3>1 DEF HolderOf
      <4> QED BY <2>1, <4>1 DEF HolderOf
    <3>3. LiveLeases' = LiveLeases \ {id}
      BY <2>1 DEF LiveLeases
    <3>4. Promise!Ack(id, w)
      BY <1>1, <3>1, <3>2, <3>3 DEF Promise!Ack
    <3> QED BY <3>1, <3>4 DEF Promise!Next
  <2> QED BY <2>2, <2>3
<1> QED BY <1>2, <1>3

\* Nack is a Nack of the promise, and nothing for a copied task.
LEMMA NackIsNack ==
  ASSUME Inv, NEW id \in 1 .. nextID, NEW w \in Owner, NEW wait \in 0 .. MaxWait,
         Nack(id, w, wait)
  PROVE  Promise!Next \/ UNCHANGED Promise!vars
<1>1. /\ id \in DOMAIN inflight /\ inflight[id].owner = w
      /\ DOMAIN inflight' = DOMAIN inflight \ {id}
      /\ \A u \in DOMAIN inflight' : inflight'[u] = inflight[u]
      /\ Ids(ready') = Ids(ready) \cup {id}
      /\ UNCHANGED <<nextID, again>>
  BY NackFacts
<1>2. (Ids(ready') \cup DOMAIN inflight') \ again' = DOMAIN HolderOf
  BY <1>1 DEF HolderOf
<1>3. CASE id \in again
  <2>1. HolderOf' = HolderOf
    BY <1>1, <1>2, <1>3 DEF HolderOf
  <2>2. LiveLeases' = LiveLeases
    BY <1>1, <1>3 DEF LiveLeases
  <2> QED BY <1>1, <2>1, <2>2 DEF Promise!vars
<1>4. CASE id \notin again
  <2>1. id \in DOMAIN HolderOf /\ HolderOf[id] = w /\ id \in 1 .. MaxTasks
    BY <1>1, <1>4, HolderIs
  <2>2. HolderOf' = [HolderOf EXCEPT ![id] = NoOwner]
    BY <1>1, <1>2 DEF HolderOf
  <2>3. LiveLeases' = LiveLeases \ {id}
    BY <1>1 DEF LiveLeases
  <2>4. Promise!Nack(id, w)
    BY <1>1, <2>1, <2>2, <2>3 DEF Promise!Nack
  <2> QED BY <2>1, <2>4 DEF Promise!Next
<1> QED BY <1>3, <1>4

\* The passing of time lets leases of the promise lapse.
LEMMA TickIsLapse ==
  ASSUME Inv, Tick
  PROVE  Promise!Lapse
<1>1. HolderOf' = HolderOf
  BY TickKeeps DEF HolderOf
<1>2. LiveLeases' \subseteq LiveLeases
  BY TickKeeps DEF LiveLeases
<1> QED BY <1>1, <1>2, TickKeeps DEF Promise!Lapse

\* A worker that answers late is no step of the promise, except that it may
\* enqueue its task again, or acknowledge it for a worker of the same name.
LEMMA RetriesIs ==
  ASSUME Inv, NEW c \in late, Retries(c)
  PROVE  Promise!Next \/ UNCHANGED Promise!vars
<1>1. CASE AnswersLate(c) \/ NackRefused(c)
  BY <1>1 DEF AnswersLate, NackRefused, Promise!vars, HolderOf, LiveLeases, Ids
<1>2. CASE FallbackAck(c)
  <2>1. c.id \in 1 .. nextID /\ c.owner \in Owner
    BY DEF Inv, TypeOK, Late
  <2> QED BY <1>2, <2>1, AckIsAck DEF FallbackAck
<1>3. ASSUME NEW wait \in 0 .. MaxWait, FallbackEnqueue(c, wait)
      PROVE  Promise!Next
  BY <1>3, FallbackIsAgain DEF Promise!Next
<1> QED BY <1>1, <1>2, <1>3 DEF Retries

\* The in-memory queue keeps the promises of LeaseQueue to every task that is
\* enqueued once, whatever happens to the others: at-least-once delivery, no
\* delivery under a live lease, and only the holder of a task acknowledges or
\* returns it.
THEOREM Refinement == Spec => KeepsPromise
<1>1. Init => Promise!Init
  <2> SUFFICES ASSUME Init PROVE Promise!Init
    OBVIOUS
  <2>1. ready = <<>> /\ DOMAIN inflight = {} /\ nextID = 0 /\ again = {}
    BY DEF Init
  <2>2. Ids(ready) = {} /\ 1 .. nextID = {}
    BY <2>1 DEF Ids
  <2> QED BY <2>1, <2>2 DEF Promise!Init, HolderOf, LiveLeases
<1>2. Inv /\ [Next]_vars => [Promise!Next]_(Promise!vars)
  <2> SUFFICES ASSUME Inv, [Next]_vars PROVE Promise!Next \/ UNCHANGED Promise!vars
    OBVIOUS
  <2>1. CASE UNCHANGED vars
    BY <2>1 DEF vars, Promise!vars, HolderOf, LiveLeases, Ids
  <2>2. CASE Tick
    BY <2>2, TickIsLapse DEF Promise!Next
  <2>3. ASSUME NEW wait \in 0 .. MaxWait, Submit(wait) PROVE Promise!Next
    BY <2>3, SubmitIsEnqueue DEF Promise!Next
  <2>4. ASSUME NEW w \in Owner, Dequeue(w) PROVE Promise!Next
    BY <2>4, DequeueIsDequeue DEF Promise!Next
  <2>5. ASSUME NEW id \in 1 .. nextID, NEW w \in Owner, Answers(id, w)
        PROVE  Promise!Next \/ UNCHANGED Promise!vars
    BY <2>5, RenewIsRenew, AckIsAck, NackIsNack DEF Answers
  <2>6. ASSUME NEW c \in late, Retries(c) PROVE Promise!Next \/ UNCHANGED Promise!vars
    BY <2>6, RetriesIs
  <2> QED BY <2>1, <2>2, <2>3, <2>4, <2>5, <2>6 DEF Next
<1> QED BY <1>1, <1>2, QueueInvariant, PTL DEF Spec, KeepsPromise, Promise!Spec
=============================================================================
