-------------------------- MODULE DeploymentProofs --------------------------
(***************************************************************************)
(* The safety properties of Deployment, for any number of processes,       *)
(* calls, instances and definitions, and for each of the stores: the steps *)
(* that save new instances, those that change leases, crashes, and the     *)
(* theorems.                                                               *)
(***************************************************************************)
EXTENDS DeploymentInvariant

\* A call that executes an instance has found it in the store.
LEMMA ExecutesStored ==
  ASSUME Inv, NEW c \in Call, NEW i \in Id, Executes(c, i)
  PROVE  Stored(i)
<1>1. CallOK(call[c], store, row)
  BY DEF Inv, CallInv
<1> QED
  BY <1>1 DEF Executes, CallOK, Loaded, Having, Stored

\* Save creates the instance, once.
LEMMA SaveStep ==
  ASSUME Inv, NEW c \in Call, Save(c)
  PROVE  Inv'
<1> DEFINE i == call[c].id
           inst == call[c].inst
           pc == IF call[c].op = "Run" THEN "exec" ELSE "idle"
<1>1. /\ call[c] \in CallState /\ CallOK(call[c], store, row)
      /\ call[c].pc = "save" /\ call[c].op \in {"Run", "Start"}
      /\ i \in Id /\ inst \in Instance
  BY DEF Inv, TypeOK, CallInv, Save, CallOK, CallState, Having
<1>2. /\ SaveInstance(i, inst) /\ GoOn(c, call[c], pc)
      /\ created' = [created EXCEPT ![i] = @ + 1]
      /\ UNCHANGED <<process, torn, surrendered, calls, crashes>>
  BY DEF Save
<1>3. store = "memory" => ~Stored(i)
  BY <1>1 DEF Inv, IdInv
<1>4. /\ row' = [row EXCEPT ![i] = inst]
      /\ store # "redis" => ~Stored(i)
      /\ RowGrows
      /\ lease' \in [Id -> Lease]
      /\ \A j \in Id : j # i \/ store = "redis" => lease'[j] = lease[j]
      /\ index' = index
  BY <1>1, <1>2, <1>3, Saved DEF Inv
<1>5. row'[i] = inst /\ inst # Absent /\ \A j \in Id \ {i} : row'[j] = row[j]
  BY <1>1, <1>4, DeploymentAssumption DEF Inv, TypeOK
<1>6. store' = store
  BY <1>4 DEF RowGrows
<1>7. WentOn(c, call[c], pc)
  <2>1. MayGoOn(call[c], pc)
    BY <1>1, <1>5 DEF MayGoOn, Point, CallOK, Stored
  <2> HIDE DEF pc
  <2> QED
    BY <1>2, <1>4, <2>1, GoOnOK DEF Inv
<1> HIDE DEF i, inst
<1>8. TypeOK'
  BY <1>1, <1>2, <1>4, <1>6, <1>7 DEF Inv, TypeOK, WentOn
<1>9. CallInv'
  BY <1>4, <1>7, OthersKept DEF Inv, WentOn
<1>10. Keyed'
  BY <1>2 DEF Inv, Keyed
<1>11. IdInv'
  <2> SUFFICES ASSUME store # "redis" PROVE IdInv'
    BY <1>6 DEF IdInv
  <2>1. created[i] = 0
    <3>1. CASE store = "memory"
      BY <1>1, <3>1 DEF Inv, IdInv, i
    <3>2. CASE store # "memory"
      BY <1>1, <1>4, <3>2 DEF Inv, IdInv, TypeOK
    <3> QED
      BY <3>1, <3>2
  <2>2. created'[i] = 1 /\ \A j \in Id \ {i} : created'[j] = created[j]
    BY <1>1, <1>2, <2>1 DEF Inv, TypeOK
  <2>3. \A j \in Id : created'[j] <= 1 /\ (row'[j] # Absent => created'[j] = 1)
    BY <1>5, <2>2 DEF Inv, IdInv, Stored
  <2>4. store # "memory" => \A j \in Id : created'[j] = 1 => row'[j] # Absent
    BY <1>5, <2>2 DEF Inv, IdInv, Stored
  <2>5. ASSUME store = "memory"
        PROVE  /\ \A j \in Id : created'[j] = 1 => j <= process'[Local].nextID
               /\ \A b \in Call : call'[b].pc = "save" =>
                    call'[b].id <= process'[Local].nextID /\ created'[call'[b].id] = 0
               /\ \A b, x \in Call : call'[b].pc = "save" /\ call'[x].pc = "save" /\ b # x =>
                    call'[b].id # call'[x].id
    <3>1. \A b \in Call : call'[b].pc = "save" => b # c /\ call'[b] = call[b]
      BY <1>7 DEF WentOn
    <3>2. \A b \in Call \ {c} : call[b].pc = "save" => call[b].id # i /\ call[b].id \in Id
      BY <1>1, <2>5 DEF Inv, IdInv, i, TypeOK, CallState
    <3>3. process' = process /\ i <= process[Local].nextID
      BY <1>1, <1>2, <2>5 DEF Inv, IdInv, i
    <3> QED
      BY <2>2, <2>5, <3>1, <3>2, <3>3 DEF Inv, IdInv
  <2> QED
    BY <1>6, <2>3, <2>4, <2>5 DEF IdInv, Stored
<1>12. LeaseInv'
  <2> SUFFICES ASSUME store \in {"redis", "mongo"}, NEW b \in Call, NEW j \in Id \ surrendered,
                      Executes(b, j)'
               PROVE  lease'[j] = [owner |-> Eng(b), expired |-> FALSE]
    BY <1>2, <1>6 DEF LeaseInv, Eng
  <2>1. Executes(b, j)
    BY <1>1, <1>7 DEF Executes, WentOn, IdleCall
  <2>2. j # i \/ store = "redis"
    BY <1>4, <2>1, ExecutesStored
  <2> QED
    BY <1>4, <2>1, <2>2 DEF Inv, LeaseInv
<1>13. ListedInv'
  <2> SUFFICES ASSUME store = "redis", NEW j \in Id, row'[j] # Absent,
                      row'[j].status = "RUNNING"
               PROVE  \/ <<"RUNNING", j>> \in index
                      \/ j \in torn
                      \/ \E b \in Call : IndexPending(b)' /\ call'[b].id = j
    BY <1>2, <1>4, <1>6 DEF ListedInv, Stored
  <2>1. CASE j = i
    BY <1>5, <1>7, <2>1 DEF IndexPending, WentOn, i, inst
  <2>2. CASE j # i
    <3>1. row[j] = row'[j] /\ \A b \in Call : IndexPending(b) => b # c
      BY <1>1, <1>5, <2>2 DEF IndexPending
    <3> QED
      BY <1>7, <3>1 DEF Inv, ListedInv, Stored, IndexPending, WentOn
  <2> QED
    BY <2>1, <2>2
<1> QED
  BY <1>8, <1>9, <1>10, <1>11, <1>12, <1>13 DEF Inv

\* The second round trip to Redis makes up for the first one, or the instance
\* counts as torn.
LEMMA UpdateIndexStep ==
  ASSUME Inv, NEW c \in Call, UpdateIndex(c)
  PROVE  Inv'
<1> DEFINE i == call[c].id
           inst == call[c].inst
           then == [call[c] EXCEPT !.pc = call[c].then]
           r == IF call[c].then = "idle" THEN IdleCall ELSE then
<1>1. /\ call[c] \in CallState /\ CallOK(call[c], store, row) /\ call[c].pc = "index"
      /\ i \in Id /\ inst \in Instance /\ store = "redis"
  BY DEF Inv, TypeOK, CallInv, UpdateIndex, CallOK, CallState, Having
<1>2. /\ UNCHANGED <<store, row, lease, process, created, surrendered, calls, crashes>>
      /\ \/ /\ index' = index \cup {<<"all", i>>, <<inst.def.name, i>>, <<inst.status, i>>}
            /\ torn' = torn
         \/ /\ index' = index
            /\ torn' = IF IndexPending(c) THEN torn \cup {i} ELSE torn
      /\ call' = [call EXCEPT ![c] = r]
  BY DEF UpdateIndex, RedisIndex
<1>3. /\ then \in CallState /\ then.pc = call[c].then /\ then.id = i /\ then.op = call[c].op
      /\ then.inst = inst /\ then.todo = call[c].todo /\ then.then = call[c].then
  BY <1>1 DEF CallState
<1> HIDE DEF i, inst, then
<1>4. CallOK(then, store, row)
  BY <1>1, <1>3 DEF CallOK, Having, Loaded, i, inst
<1>5. r \in CallState /\ CallOK(r, store, row)
  BY <1>3, <1>4, IdleTyped
<1>6. call'[c] = r /\ \A b \in Call \ {c} : call'[b] = call[b]
  BY <1>2 DEF Inv, TypeOK
<1>7. TypeOK'
  <2>1. index' \subseteq IndexKey \X Id
    BY <1>1, <1>2 DEF Inv, TypeOK, IndexKey, Name, Instance
  <2>2. torn' \subseteq Id
    BY <1>1, <1>2 DEF Inv, TypeOK
  <2> QED
    BY <1>2, <1>5, <2>1, <2>2 DEF Inv, TypeOK
<1>8. CallInv'
  <2>1. RowGrows
    BY <1>2 DEF RowGrows, Stored
  <2> HIDE DEF r
  <2> QED
    BY <1>2, <1>5, <1>6, <2>1, OthersKept DEF Inv
<1>9. Keyed'
  BY <1>2 DEF Inv, Keyed
<1>10. IdInv'
  BY <1>1, <1>2 DEF IdInv
<1>11. LeaseInv'
  <2>1. NoNewExecutor
    BY <1>1, <1>2, <1>3, <1>6 DEF NoNewExecutor, Executes, IdleCall, i
  <2> QED
    BY <1>2, <2>1, LeaseKept DEF Inv
<1>12. ListedInv'
  <2> SUFFICES ASSUME NEW j \in Id, row[j] # Absent, row[j].status = "RUNNING"
               PROVE  \/ <<"RUNNING", j>> \in index'
                      \/ j \in torn'
                      \/ \E b \in Call : IndexPending(b)' /\ call'[b].id = j
    BY <1>2 DEF ListedInv, Stored
  <2>1. CASE \E b \in Call \ {c} : IndexPending(b) /\ call[b].id = j
    BY <1>6, <2>1 DEF IndexPending
  <2>2. CASE IndexPending(c) /\ i = j
    BY <1>2, <2>2 DEF IndexPending, inst
  <2>3. index \subseteq index' /\ torn \subseteq torn'
    BY <1>2
  <2> QED
    BY <1>1, <2>1, <2>2, <2>3 DEF Inv, ListedInv, Stored, i
<1> QED
  BY <1>7, <1>8, <1>9, <1>10, <1>11, <1>12 DEF Inv

-----------------------------------------------------------------------------
\* A step that changes leases, and at most puts one call at pc, with what it has.
LEMMA LeaseStep ==
  ASSUME Inv, NEW c \in Call, NEW r, MayAdvance(c, r) \/ r = call[c] \/
           (call[c].pc = "acquire" /\ r = [call[c] EXCEPT !.pc = "mark"]),
         call' = [call EXCEPT ![c] = r],
         lease' \in [Id -> Lease], surrendered' \subseteq Id,
         LeaseInv',
         UNCHANGED <<store, row, index, process, created, torn, calls, crashes>>
  PROVE  Inv'
<1>1. call[c] \in CallState /\ CallOK(call[c], store, row)
  BY DEF Inv, TypeOK, CallInv
<1>2. /\ r \in CallState /\ CallOK(r, store, row)
      /\ r = call[c] \/ (r.pc # "save" /\ call[c].pc # "index")
  <2>1. CASE MayAdvance(c, r)
    BY <2>1 DEF MayAdvance
  <2>2. CASE call[c].pc = "acquire" /\ r = [call[c] EXCEPT !.pc = "mark"]
    <3>1. /\ r \in CallState /\ r.pc = "mark" /\ r.id = call[c].id /\ r.inst = call[c].inst
          /\ r.todo = call[c].todo
      BY <1>1, <2>2 DEF CallState, Point
    <3> QED
      BY <1>1, <2>2, <3>1 DEF CallOK, Having, Loaded
  <2> QED
    BY <1>1, <2>1, <2>2
<1>3. call'[c] = r /\ \A b \in Call \ {c} : call'[b] = call[b]
  BY DEF Inv, TypeOK
<1>4. TypeOK'
  BY <1>2 DEF Inv, TypeOK
<1>5. CallInv'
  <2>1. RowGrows
    BY DEF RowGrows, Stored
  <2> QED
    BY <1>2, <1>3, <2>1, OthersKept DEF Inv
<1>6. Keyed'
  BY DEF Inv, Keyed
<1>7. NoNewId /\ StillPending
  BY <1>2, <1>3 DEF NoNewId, StillPending, IndexPending, Stored
<1> QED
  BY <1>4, <1>5, <1>6, <1>7, IdKept, ListedKept DEF Inv

\* A store of leases gives one to an engine only if no other engine's call
\* executes under it.
LEMMA AcquireStep ==
  ASSUME Inv, NEW c \in Call, Acquire(c)
  PROVE  Inv'
<1> DEFINE i == call[c].id
           e == Eng(c)
           r == [call[c] EXCEPT !.pc = "mark"]
<1>1. /\ call[c] \in CallState /\ call[c].pc = "acquire" /\ i \in Id /\ e \in Engine
  BY LocalEngine DEF Inv, TypeOK, Acquire, CallState
<1>2. /\ lease' = [lease EXCEPT ![i] = [owner |-> e, expired |-> FALSE]]
      /\ UNCHANGED <<store, row, index, process, created, torn, surrendered, calls, crashes>>
      /\ MayAcquire(i, e)
  BY DEF Acquire, TryAcquireLease
<1>3. call' = [call EXCEPT ![c] = r]
  BY <1>1 DEF Acquire, Inv, TypeOK
<1>4. lease' \in [Id -> Lease]
  BY <1>1, <1>2 DEF Inv, TypeOK, Lease
<1>5. store \in {"redis", "mongo"} =>
        lease[i].owner \in {NoEngine, e} \/ lease[i].expired
  BY <1>2 DEF MayAcquire, RedisMayAcquire, MongoMayAcquire, Open
<1>6. LeaseInv'
  <2> SUFFICES ASSUME store \in {"redis", "mongo"}, NEW b \in Call, NEW j \in Id \ surrendered,
                      Executes(b, j)'
               PROVE  lease'[j] = [owner |-> Eng(b), expired |-> FALSE]
    BY <1>2 DEF LeaseInv, Eng
  <2>1. CASE b = c
    <3>1. j = i
      BY <1>1, <1>3, <2>1 DEF Executes, Inv, TypeOK, CallState
    <3> QED
      BY <1>1, <1>2, <2>1, <3>1 DEF Inv, TypeOK
  <2>2. CASE b # c
    <3>1. Executes(b, j)
      BY <1>3, <2>2 DEF Executes, Inv, TypeOK
    <3>2. lease[j] = [owner |-> Eng(b), expired |-> FALSE]
      BY <3>1 DEF Inv, LeaseInv
    <3>3. CASE j # i
      BY <1>1, <1>2, <3>2, <3>3 DEF Inv, TypeOK
    <3>4. CASE j = i
      <4>1. Eng(b) = e
        BY <1>5, <3>2, <3>4, LocalEngine, DeploymentAssumption
      <4> QED
        BY <1>1, <1>2, <3>4, <4>1 DEF Inv, TypeOK
    <3> QED
      BY <3>3, <3>4
  <2> QED
    BY <2>1, <2>2
<1> HIDE DEF r
<1>7. surrendered' \subseteq Id
  BY <1>2 DEF Inv, TypeOK
<1> QED
  BY <1>1, <1>2, <1>3, <1>4, <1>6, <1>7, LeaseStep DEF r

\* The lease is renewed for its owner, and expires when nobody executes.
LEMMA RenewStep ==
  ASSUME Inv, NEW c \in Call, Renew(c)
  PROVE  Inv'
<1> DEFINE i == call[c].id
<1>1. i \in Id
  BY DEF Inv, TypeOK, CallState
<1>2. /\ lease' = lease \/ (Renews(i, Eng(c)) /\ lease' = [lease EXCEPT ![i].expired = FALSE])
      /\ UNCHANGED <<store, row, index, process, call, created, torn, surrendered, calls, crashes>>
  BY DEF Renew, RenewLease
<1>3. Renews(i, Eng(c)) => lease[i].owner = Eng(c)
  BY DEF Renews, MemoryRenews, SQLiteRenews, PostgresRenews, MongoRenews, RedisRenews, Owns,
         Inv, TypeOK, Store
<1>4. PICK l \in Lease : /\ lease' = [lease EXCEPT ![i] = l]
                         /\ lease[i].expired = FALSE => l = lease[i]
  <2>1. CASE lease' = lease
    BY <1>1, <2>1 DEF Inv, TypeOK
  <2>2. CASE Renews(i, Eng(c)) /\ lease' = [lease EXCEPT ![i].expired = FALSE]
    <3>1. lease[i] \in [owner : Engine, expired : BOOLEAN]
      BY <1>1, <1>3, <2>2, LocalEngine, DeploymentAssumption DEF Inv, TypeOK, Lease, Free
    <3>2. PICK l : l = [lease[i] EXCEPT !.expired = FALSE]
      OBVIOUS
    <3>3. l \in Lease /\ (lease[i].expired = FALSE => l = lease[i])
      BY <3>1, <3>2 DEF Lease
    <3> QED
      BY <2>2, <3>2, <3>3
  <2> QED
    BY <1>2, <2>1, <2>2
<1>5. LeaseInv'
  <2>1. \A j \in Id : lease[j].expired = FALSE => lease'[j] = lease[j]
    BY <1>1, <1>4 DEF Inv, TypeOK
  <2>2. \A b \in Call : Eng(b)' = Eng(b) /\ \A j \in Id : Executes(b, j)' = Executes(b, j)
    BY <1>2 DEF Eng, Executes
  <2> QED
    BY <1>2, <2>1, <2>2 DEF Inv, LeaseInv
<1>6. call' = [call EXCEPT ![c] = call[c]]
  BY <1>2 DEF Inv, TypeOK
<1>7. lease' \in [Id -> Lease] /\ surrendered' \subseteq Id
  BY <1>2, <1>4 DEF Inv, TypeOK
<1> QED
  BY <1>2, <1>5, <1>6, <1>7, LeaseStep

\* releaseInstanceLease takes the lease from other calls of its own engine
\* only, and then the instance counts as surrendered.
LEMMA GiveUpKeeps ==
  ASSUME Inv, NEW e \in Engine, NEW i \in Id, NEW others \in SUBSET Call,
         GiveUp(e, i, others), store' = store,
         \A c \in Call : \A j \in Id : Executes(c, j)' => Executes(c, j),
         \A c \in Call \ others : ~Executes(c, i)'
  PROVE  lease' \in [Id -> Lease] /\ surrendered' \subseteq Id /\ LeaseInv'
<1>1. lease' = lease \/ (Releases(i, e) /\ lease' = [lease EXCEPT ![i] = Free])
  BY DEF GiveUp, ReleaseLease
<1>2. lease' \in [Id -> Lease] /\ surrendered' \subseteq Id /\ surrendered \subseteq surrendered'
  BY <1>1 DEF Inv, TypeOK, Lease, GiveUp
<1>3. store \in {"redis", "mongo"} /\ Releases(i, e) => lease[i].owner = e
  BY DEF Releases, MongoReleases, RedisReleases, Owns
<1>4. LeaseInv'
  <2> SUFFICES ASSUME store \in {"redis", "mongo"}, NEW b \in Call, NEW j \in Id \ surrendered',
                      Executes(b, j)'
               PROVE  lease'[j] = [owner |-> Eng(b), expired |-> FALSE]
    BY DEF LeaseInv, Eng
  <2>1. Executes(b, j) /\ lease[j] = [owner |-> Eng(b), expired |-> FALSE]
    BY <1>2 DEF Inv, LeaseInv
  <2>2. CASE j # i \/ lease' = lease
    BY <1>1, <2>1, <2>2 DEF Inv, TypeOK
  <2>3. CASE j = i /\ Releases(i, e)
    <3>1. Eng(b) = e
      BY <1>3, <2>1, <2>3, LeaseOwner
    <3>2. b \in others
      BY <2>3
    <3> QED
      BY <2>1, <2>3, <3>1, <3>2 DEF GiveUp
  <2> QED
    BY <1>1, <2>2, <2>3
<1> QED
  BY <1>2, <1>4

\* The end of executeSteps, and the one of its caller: the lease goes.
LEMMA ReleaseStep ==
  ASSUME Inv, NEW c \in Call, Release(c) \/ DeferredRelease(c)
  PROVE  Inv'
<1>1. /\ call[c] \in CallState /\ CallOK(call[c], store, row)
      /\ call[c].pc \in {"release", "deferred"} /\ Eng(c) \in Engine
  BY LocalEngine, CallTyped DEF Release, DeferredRelease
<1>2. PICK i \in Id : i = call[c].id
  BY <1>1 DEF CallState
<1>3. PICK r : /\ r = IdleCall \/ r = [call[c] EXCEPT !.pc = "deferred"]
               /\ call' = [call EXCEPT ![c] = r]
  BY DEF Release, DeferredRelease, Return, Inv, TypeOK
<1>4. /\ GiveUp(Eng(c), i, Call \ {c})
      /\ UNCHANGED <<store, row, index, process, created, torn, calls, crashes>>
  BY <1>2 DEF Release, DeferredRelease
<1>5. MayAdvance(c, r) /\ r.pc \in {"idle", "deferred"}
  <2>1. CASE r = IdleCall
    BY <1>1, <2>1, IdleTyped DEF MayAdvance, IdleCall
  <2>2. CASE r = [call[c] EXCEPT !.pc = "deferred"]
    <3>1. /\ r \in CallState /\ r.pc = "deferred" /\ r.id = call[c].id
          /\ r.inst = call[c].inst /\ r.todo = call[c].todo
      BY <1>1, <2>2 DEF CallState, Point
    <3> QED
      BY <1>1, <3>1 DEF MayAdvance, CallOK, Having, Loaded
  <2> QED
    BY <1>3, <2>1, <2>2
<1>6. /\ \A b \in Call : \A j \in Id : Executes(b, j)' => Executes(b, j)
      /\ \A b \in Call \ (Call \ {c}) : ~Executes(b, i)'
  <2>1. call'[c] = r /\ \A b \in Call \ {c} : call'[b] = call[b]
    BY <1>3 DEF Inv, TypeOK
  <2>2. \A j \in Id : ~Executes(c, j)'
    BY <1>5, <2>1 DEF Executes
  <2>3. \A b \in Call \ {c} : \A j \in Id : Executes(b, j)' => Executes(b, j)
    BY <2>1 DEF Executes
  <2> QED
    BY <2>2, <2>3
<1>7. lease' \in [Id -> Lease] /\ surrendered' \subseteq Id /\ LeaseInv'
  <2>1. PICK others \in SUBSET Call : others = Call \ {c}
    OBVIOUS
  <2>2. GiveUp(Eng(c), i, others) /\ \A b \in Call \ others : ~Executes(b, i)'
    BY <1>4, <1>6, <2>1
  <2> QED
    BY <1>1, <1>4, <1>6, <2>2, GiveUpKeeps
<1> QED
  BY <1>3, <1>4, <1>5, <1>7, LeaseStep

\* Steps that change leases and no call.
LEMMA LeaseOnlyStep ==
  ASSUME Inv, lease' \in [Id -> Lease], surrendered' \subseteq Id, LeaseInv',
         UNCHANGED <<store, row, index, process, call, created, torn, calls, crashes>>
  PROVE  Inv'
<1>1. TypeOK'
  BY DEF Inv, TypeOK
<1>2. CallInv'
  BY DEF Inv, CallInv
<1>3. Keyed'
  BY DEF Inv, Keyed
<1>4. NoNewId /\ StillPending
  BY DEF NoNewId, StillPending, IndexPending, Stored
<1> QED
  BY <1>1, <1>2, <1>3, <1>4, IdKept, ListedKept DEF Inv

\* The inspection method, which releases a lease too.
LEMMA GetInstanceStep ==
  ASSUME Inv, NEW e \in Engine, NEW i \in Id, GetInstance(e, i)
  PROVE  Inv'
<1>1. /\ GiveUp(e, i, Call)
      /\ UNCHANGED <<store, row, index, process, call, created, torn, calls, crashes>>
  BY DEF GetInstance
<1>2. \A b \in Call : \A j \in Id : Executes(b, j)' => Executes(b, j)
  BY <1>1 DEF Executes
<1>3. lease' \in [Id -> Lease] /\ surrendered' \subseteq Id /\ LeaseInv'
  BY <1>1, <1>2, GiveUpKeeps
<1> QED
  BY <1>1, <1>3, LeaseOnlyStep

\* A lease does not expire while its owner executes the instance.
LEMMA ExpireStep ==
  ASSUME Inv, NEW i \in Id, Expire(i)
  PROVE  Inv'
<1>1. /\ \A c \in Call : Executes(c, i) => Eng(c) # lease[i].owner
      /\ UNCHANGED <<store, row, index, process, call, created, torn, surrendered, calls, crashes>>
  BY DEF Expire
<1>2. PICK l \in Lease : lease' = [lease EXCEPT ![i] = l]
  <2>1. CASE store = "redis"
    BY <2>1 DEF Expire, LeaseExpires, Lease
  <2>2. CASE store # "redis"
    <3>1. lease[i] \in [owner : Engine, expired : BOOLEAN]
      BY DEF Inv, TypeOK, Expire, LeaseExpires, Lease, Free
    <3>2. [lease[i] EXCEPT !.expired = TRUE] \in Lease
      BY <3>1 DEF Lease
    <3>3. lease' = [lease EXCEPT ![i] = [lease[i] EXCEPT !.expired = TRUE]]
      BY <2>2 DEF Expire, LeaseExpires
    <3> QED
      BY <3>2, <3>3
  <2> QED
    BY <2>1, <2>2
<1>3. lease' \in [Id -> Lease] /\ surrendered' \subseteq Id
  BY <1>1, <1>2 DEF Inv, TypeOK
<1>4. LeaseInv'
  <2> SUFFICES ASSUME store \in {"redis", "mongo"}, NEW b \in Call, NEW j \in Id \ surrendered,
                      Executes(b, j)'
               PROVE  lease'[j] = [owner |-> Eng(b), expired |-> FALSE]
    BY <1>1 DEF LeaseInv, Eng
  <2>1. Executes(b, j) /\ lease[j] = [owner |-> Eng(b), expired |-> FALSE]
    BY <1>1 DEF Executes, Inv, LeaseInv
  <2>2. j # i
    BY <1>1, <2>1, LeaseOwner
  <2> QED
    BY <1>2, <2>1, <2>2 DEF Inv, TypeOK
<1> QED
  BY <1>1, <1>3, <1>4, LeaseOnlyStep

\* The calls of a process that dies are gone, and with the store in memory so
\* is everything.
LEMMA CrashStep ==
  ASSUME Inv, NEW e \in Engine, Crash(e)
  PROVE  Inv'
<1> DEFINE dead == {c \in Call : Eng(c) = e}
<1>1. /\ process' = [process EXCEPT ![e] = NewProcess]
      /\ call' = [c \in Call |-> IF c \in dead THEN IdleCall ELSE call[c]]
      /\ torn' = torn \cup {call[c].id : c \in {d \in dead : IndexPending(d)}}
      /\ UNCHANGED <<store, index, surrendered, calls>>
      /\ crashes < MaxCrashes /\ crashes' = crashes + 1
  BY DEF Crash
<1> HIDE DEF dead
<1>2. IF store = "memory"
      THEN /\ row' = [i \in Id |-> Absent] /\ lease' = [i \in Id |-> Free]
           /\ created' = [i \in Id |-> 0] /\ e = Local
      ELSE UNCHANGED <<row, lease, created>>
  BY DEF Crash, Running
<1>3. \A c \in Call : call'[c] = IdleCall \/ call'[c] = call[c]
  BY <1>1
<1>4. store = "memory" => \A c \in Call : call'[c] = IdleCall
  BY <1>1, <1>2 DEF Eng, dead
<1>5. TypeOK'
  <2>1. process' \in [Engine -> Process]
    <3>1. NewProcess \in Process
      BY DEF Process, NewProcess
    <3> QED
      BY <1>1, <3>1, ProcessTyped
  <2>2. call' \in [Call -> CallState]
    BY <1>1, IdleTyped, CallTyped
  <2>3. torn' \subseteq Id
    <3>1. torn \subseteq Id /\ \A c \in Call : call[c].id \in Id
      BY CallTyped DEF Inv, TypeOK, CallState
    <3> QED
      BY <1>1, <3>1 DEF dead
  <2>4. /\ row' \in [Id -> Instance \cup {Absent}] /\ lease' \in [Id -> Lease]
        /\ created' \in [Id -> Nat]
    BY <1>2 DEF Inv, TypeOK, Lease
  <2>5. crashes' \in 0 .. MaxCrashes
    <3>1. crashes \in 0 .. MaxCrashes
      BY DEF Inv, TypeOK
    <3> QED
      BY <1>1, <3>1, DeploymentAssumption
  <2> QED
    BY <1>1, <2>1, <2>2, <2>3, <2>4, <2>5 DEF Inv, TypeOK
<1>6. CallInv'
  <2>1. CASE store = "memory"
    BY <1>4, <2>1, IdleTyped DEF CallInv
  <2>2. CASE store # "memory"
    BY <1>1, <1>2, <1>3, <2>2, IdleTyped DEF CallInv, Inv
  <2> QED
    BY <2>1, <2>2
<1>7. Keyed'
  <2>1. \A f \in Engine : \/ process'[f].registry = [v \in Version |-> Absent]
                           \/ process'[f] = process[f]
    BY <1>1 DEF Inv, TypeOK, NewProcess
  <2> QED
    BY <2>1 DEF Inv, Keyed
<1>8. IdInv'
  <2>1. CASE store = "memory"
    <3>1. store' = store /\ \A i \in Id : row'[i] = Absent /\ created'[i] = 0
      BY <1>1, <1>2, <2>1
    <3>2. \A c \in Call : call'[c].pc = "idle"
      BY <1>4, <2>1, IdleIsIdle
    <3> QED
      BY <3>1, <3>2, NoIdUsed
  <2>2. CASE store # "memory"
    BY <1>1, <1>2, <2>2 DEF Inv, IdInv, Stored
  <2> QED
    BY <2>1, <2>2
<1>9. LeaseInv'
  <2>1. NoNewExecutor
    BY <1>1, <1>3 DEF NoNewExecutor, Executes, IdleCall
  <2> QED
    BY <1>2, <2>1, LeaseKept DEF Inv
<1>10. ListedInv'
  <2> SUFFICES ASSUME store = "redis", NEW j \in Id, row[j] # Absent,
                      row[j].status = "RUNNING", <<"RUNNING", j>> \notin index, j \notin torn
               PROVE  j \in torn' \/ \E b \in Call : IndexPending(b)' /\ call'[b].id = j
    BY <1>1, <1>2 DEF ListedInv, Stored
  <2>1. PICK b \in Call : IndexPending(b) /\ call[b].id = j
    BY DEF Inv, ListedInv, Stored
  <2> QED
    BY <1>1, <2>1 DEF IndexPending
<1> QED
  BY <1>5, <1>6, <1>7, <1>8, <1>9, <1>10 DEF Inv

-----------------------------------------------------------------------------
(* The theorems.                                                           *)

\* Nothing is stored, registered or under way at first.
THEOREM InitInv == Init => Inv
<1> SUFFICES ASSUME Init PROVE Inv
  OBVIOUS
<1> USE DEF Init, StoreInit
<1>1. TypeOK
  BY IdleTyped, DeploymentAssumption DEF TypeOK, Process, NewProcess, Lease
<1>2. CallInv
  BY IdleTyped DEF CallInv
<1>3. Keyed
  BY DEF Keyed, NewProcess
<1>4. IdInv
  <2>1. /\ \A i \in Id : row[i] = Absent /\ created[i] = 0
        /\ \A c \in Call : call[c].pc = "idle"
    BY IdleIsIdle
  <2> QED
    BY <2>1, NothingUsed
<1>5. LeaseInv
  BY DEF LeaseInv, Executes, IdleCall
<1>6. ListedInv
  BY DEF ListedInv, Stored
<1> QED
  BY <1>1, <1>2, <1>3, <1>4, <1>5, <1>6 DEF Inv

\* Every action of every process keeps the invariant.
THEOREM NextInv == Inv /\ [Next]_vars => Inv'
<1> SUFFICES ASSUME Inv, [Next]_vars PROVE Inv'
  OBVIOUS
<1>1. ASSUME NEW e \in Engine, Crash(e) PROVE Inv'
  BY <1>1, CrashStep
<1>2. ASSUME NEW e \in Engine, NEW d \in Definition, RegisterCheck(e, d) \/ RegisterSave(e, d)
      PROVE  Inv'
  BY <1>2, RegisterStep
<1>3. ASSUME NEW e \in Engine, NEW i \in Id, GetInstance(e, i) PROVE Inv'
  BY <1>3, GetInstanceStep
<1>4. ASSUME NEW c \in Call, Proceed(c) PROVE Inv'
  <2>1. CASE SaveFails(c) \/ AcquireFails(c)
    BY <2>1, ReturnStep DEF SaveFails, AcquireFails
  <2>2. CASE Save(c) \/ UpdateIndex(c)
    BY <2>2, SaveStep, UpdateIndexStep
  <2>3. CASE Acquire(c) \/ Release(c) \/ DeferredRelease(c)
    BY <2>3, AcquireStep, ReleaseStep
  <2>4. CASE Mark(c) \/ MarkFails(c)
    BY <2>4, MarkStep, MarkFailsStep
  <2>5. CASE Finish(c) \/ Cancelled(c)
    BY <2>5, FinishStep
  <2>6. CASE RecoverFetch(c) \/ RecoverNext(c)
    BY <2>6, RecoverFetchStep, RecoverNextStep
  <2> QED
    BY <1>4, <2>1, <2>2, <2>3, <2>4, <2>5, <2>6 DEF Proceed
<1>5. ASSUME NEW c \in Call, Renew(c) \/ RecoverList(c) PROVE Inv'
  BY <1>5, RenewStep, RecoverListStep
<1>6. ASSUME NEW c \in Call, NEW d \in Definition,
             Run(c, d) \/ RunVersion(c, d) \/ Start(c, d) \/ StartVersion(c, d)
      PROVE  Inv'
  BY <1>6, CreateStep DEF Run, RunVersion, Start, StartVersion
<1>7. ASSUME NEW c \in Call, NEW i \in Id,
             RunInstance(c, i) \/ ResumeInline(c, i) \/ SignalInline(c, i)
      PROVE  Inv'
  <2>1. PICK op \in {"RunInstance", "Resume", "SignalNow"}, d \in Definition \cup {Absent} :
          Load(c, i, op, d)
    <3>1. Stored(i) => Registered(Eng(c), row[i].def) \subseteq Definition
      <4>1. Eng(c) \in Engine /\ process[Eng(c)] \in Process /\ row[i] \in Instance \cup {Absent}
        BY LocalEngine DEF Inv, TypeOK
      <4>2. Stored(i) => VersionOf(row[i].def) \in Version
        BY <4>1 DEF Stored, Instance, Version
      <4> QED
        BY <4>1, <4>2 DEF Process, Registered
    <3> QED
      BY <1>7, <3>1 DEF RunInstance, ResumeInline, SignalInline
  <2> QED
    BY <2>1, LoadStep
<1>8. ASSUME NEW i \in Id, Expire(i) PROVE Inv'
  BY <1>8, ExpireStep
<1>9. CASE UNCHANGED vars
  <2>1. NoNewId /\ NoNewExecutor /\ StillPending /\ TypeOK' /\ CallInv' /\ Keyed'
    BY <1>9 DEF vars, Inv, TypeOK, CallInv, Keyed, NoNewId, NoNewExecutor,
                StillPending, Executes, IndexPending, Stored
  <2> QED
    BY <1>9, <2>1, IdKept, LeaseKept, ListedKept DEF Inv, vars
<1> QED
  BY <1>1, <1>2, <1>3, <1>4, <1>5, <1>6, <1>7, <1>8, <1>9 DEF Next

\* The invariant of every behaviour of the processes and their store.
THEOREM SpecInv == Spec => []Inv
BY InitInv, NextInv, PTL DEF Spec

\* The processes, the store and the calls stay well typed.
THEOREM TypeCorrect == Spec => []TypeOK
BY SpecInv, PTL DEF Inv

\* What each step does to the registries: they only get definitions of versions
\* that they did not have, unless a process is replaced.
LEMMA RegistryGrows ==
  ASSUME Inv, [Next]_vars, crashes' = crashes,
         NEW e \in Engine, NEW v \in Version, process[e].registry[v] # Absent
  PROVE  process'[e].registry[v] = process[e].registry[v]
<1>1. CASE \E f \in Engine : Crash(f)
  <2>1. crashes \in Nat /\ crashes' = crashes + 1
    BY <1>1, DeploymentAssumption DEF Crash, Inv, TypeOK
  <2> QED
    BY <2>1
<1>2. ASSUME NEW f \in Engine, NEW d \in Definition, RegisterCheck(f, d) \/ RegisterSave(f, d)
      PROVE  process'[e].registry[v] = process[e].registry[v]
  <2>1. PICK checked \in SUBSET Definition, registry \in [Version -> Definition \cup {Absent}] :
          /\ process' = [process EXCEPT ![f] = [@ EXCEPT !.checked = checked,
                                                         !.registry = registry]]
          /\ \A u \in Version : \/ registry[u] = process[f].registry[u]
                                \/ process[f].registry[u] = Absent /\ VersionOf(registry[u]) = u
    BY <1>2, RegisterFacts
  <2>2. process \in [Engine -> Process]
    BY DEF Inv, TypeOK
  <2>3. CASE e # f
    BY <2>1, <2>2, <2>3
  <2>4. CASE e = f
    <3>1. process'[e].registry = registry
      BY <2>1, <2>2, <2>4 DEF Process
    <3> QED
      BY <2>1, <2>4, <3>1
  <2> QED
    BY <2>3, <2>4
<1>3. ASSUME NEW c \in Call, NEW d \in Definition, NEW op, Create(c, d, op)
      PROVE  process'[e].registry[v] = process[e].registry[v]
  <2>1. process' = [process EXCEPT ![Eng(c)].nextID = nextInstanceID(Eng(c))]
    BY <1>3 DEF Create
  <2>2. process \in [Engine -> Process]
    BY DEF Inv, TypeOK
  <2>3. process'[e].registry = process[e].registry
    BY <2>1, <2>2 DEF Process
  <2> QED
    BY <2>3
<1>4. CASE process' = process
  BY <1>4
<1>5. ASSUME NEW c \in Call, Proceed(c) \/ Renew(c) \/ RecoverList(c)
      PROVE  process' = process
  BY <1>5 DEF Proceed, Save, SaveFails, UpdateIndex, Acquire, AcquireFails, Mark, MarkFails,
              Finish, Cancelled, Write, Release, DeferredRelease, RecoverFetch, RecoverNext,
              Renew, RecoverList
<1>6. ASSUME NEW c \in Call, NEW i \in Id,
             RunInstance(c, i) \/ ResumeInline(c, i) \/ SignalInline(c, i)
      PROVE  process' = process
  BY <1>6 DEF RunInstance, ResumeInline, SignalInline, Load
<1>7. ASSUME NEW i \in Id, Expire(i) \/ \E f \in Engine : GetInstance(f, i)
      PROVE  process' = process
  BY <1>7 DEF Expire, GetInstance
<1>8. CASE UNCHANGED vars
  BY <1>4, <1>8 DEF vars
<1> QED
  BY <1>1, <1>2, <1>3, <1>4, <1>5, <1>6, <1>7, <1>8
     DEF Next, Run, RunVersion, Start, StartVersion

\* However calls of RegisterWorkflow interleave, a definition that is
\* registered is never replaced while its process lives (DefinitionKept), for
\* any numbers of processes, calls and definitions.
THEOREM DefinitionsKept == Spec => DefinitionKept
<1>1. Inv /\ [Next]_vars =>
        [\A e \in Engine, v \in Version :
           process[e].registry[v] # Absent /\ crashes' = crashes =>
             process'[e].registry[v] = process[e].registry[v]]_vars
  BY RegistryGrows
<1> QED
  BY <1>1, SpecInv, PTL DEF Spec, DefinitionKept

\* No ID is given to two instances, whatever processes count their own IDs,
\* unless Redis is the store.
THEOREM IdsUnique == Spec => []IdUsedOnce
<1>1. Inv => IdUsedOnce
  BY DEF Inv, IdInv, IdUsedOnce
<1> QED
  BY <1>1, SpecInv, PTL

\* RecoverStuckInstances finds what is RUNNING, whatever the store, but for what
\* Redis has not got or will not get into its index (RunningIsListed), because
\* the second request is under way, failed, or was never sent.
THEOREM RecoveryFinds == Spec => []RunningIsListed
<1>1. Inv => RunningIsListed
  <2> SUFFICES ASSUME Inv, NEW i \in Id, Stored(i), row[i].status = "RUNNING"
               PROVE  \/ i \in ListInstances("", "RUNNING")
                      \/ i \in torn
                      \/ \E c \in Call : IndexPending(c) /\ call[c].id = i
    BY DEF Inv, RunningIsListed
  <2>1. CASE store = "redis"
    <3>1. ListInstances("", "RUNNING") = RedisList("", "RUNNING")
      BY <2>1 DEF ListInstances
    <3>2. <<"RUNNING", i>> \in index => i \in RedisList("", "RUNNING")
      BY DEF RedisList
    <3> QED
      BY <2>1, <3>1, <3>2 DEF Inv, ListedInv
  <2>2. CASE store # "redis"
    BY <2>2 DEF ListInstances, MemoryList, SQLiteList, PostgresList, MongoList, Matches,
                Inv, TypeOK, Store
  <2> QED
    BY <2>1, <2>2
<1> QED
  BY <1>1, SpecInv, PTL

\* Resume and Signal never execute an instance with another definition than
\* the one it was started with.
THEOREM ResumeReplays == Spec => []ResumedAsStarted
<1>1. Inv => ResumedAsStarted
  <2> SUFFICES ASSUME Inv, store # "redis", NEW c \in Call,
                      call[c].op \in {"Resume", "SignalNow"}, call[c].pc = "exec"
               PROVE  call[c].def = row[call[c].id].def
    BY DEF ResumedAsStarted, RunsAsStarted
  <2>1. CallOK(call[c], store, row)
    BY CallTyped
  <2> QED
    BY <2>1 DEF CallOK
<1> QED
  BY <1>1, SpecInv, PTL

\* With Redis or MongoDB, two engines never execute the same instance, unless
\* one of them gave the lease away under a call of its own.
THEOREM EnginesExclude == Spec => []ExecutorsExclude
<1>1. Inv => ExecutorsExclude
  <2> SUFFICES ASSUME Inv, store \in {"redis", "mongo"}, NEW i \in Id \ surrendered,
                      NEW c \in Call, NEW d \in Call, Executes(c, i), Executes(d, i)
               PROVE  Eng(c) = Eng(d)
    BY DEF ExecutorsExclude
  <2>1. /\ lease[i] = [owner |-> Eng(c), expired |-> FALSE]
        /\ lease[i] = [owner |-> Eng(d), expired |-> FALSE]
    BY DEF Inv, LeaseInv
  <2> QED
    BY <2>1, LeaseOwner
<1> QED
  BY <1>1, SpecInv, PTL
=============================================================================
