------------------------ MODULE DeploymentInvariant -------------------------
(***************************************************************************)
(* The inductive invariant of Deployment, for any number of processes,     *)
(* calls, instances and definitions, and for each of the stores.  Here are *)
(* the steps of a call that has an instance or a listing: loading it,      *)
(* writing it back, and recovery; and the registry.  DeploymentProofs has  *)
(* the saving of new instances, the leases, crashes and the theorems.      *)
(***************************************************************************)
EXTENDS Deployment, TLAPS

\* Where a call has an instance, and where the store has it too.
Having == {"save", "index", "acquire", "mark", "exec", "release", "deferred"}

Loaded == Having \ {"save"}

\* What holds of the locals r of a call, with store s and its rows: what it has
\* loaded is stored, and was started with the same definition, if instances
\* are not replaced.
CallOK(r, s, rows) ==
  /\ r.pc \in Having => r.inst \in Instance
  /\ r.pc \in Loaded => rows[r.id] # Absent /\ (s # "redis" => r.inst.def = rows[r.id].def)
  /\ r.pc = "save" => r.op \in {"Run", "Start"}
  /\ r.pc = "index" => s = "redis" /\ r.then # "save"
  /\ r.pc \in {"fetch", "recover"} => r.op = "Recover"
  /\ r.pc = "index" /\ r.then \in {"fetch", "recover"} => r.op = "Recover"
  /\ r.pc = "exec" /\ r.op \in {"Resume", "SignalNow"} /\ s # "redis" =>
       r.def = rows[r.id].def
  /\ \A i \in Id : r.todo[i] # Absent =>
       rows[i] # Absent /\ (s # "redis" => r.todo[i].inst.def = rows[i].def)

CallInv == \A c \in Call : CallOK(call[c], store, row)

\* A stored instance was created.  With a database it is still there; in memory
\* its ID is one that the process has counted, and no call is to use it again.
IdInv ==
  store # "redis" =>
    /\ \A i \in Id : created[i] <= 1 /\ (Stored(i) => created[i] = 1)
    /\ store # "memory" => \A i \in Id : created[i] = 1 => Stored(i)
    /\ store = "memory" =>
         /\ \A i \in Id : created[i] = 1 => i <= process[Local].nextID
         /\ \A c \in Call : call[c].pc = "save" =>
              call[c].id <= process[Local].nextID /\ created[call[c].id] = 0
         /\ \A c, d \in Call : call[c].pc = "save" /\ call[d].pc = "save" /\ c # d =>
              call[c].id # call[d].id

\* A call that executes an instance holds its lease.
LeaseInv ==
  store \in {"redis", "mongo"} =>
    \A c \in Call : \A i \in Id \ surrendered :
      Executes(c, i) => lease[i] = [owner |-> Eng(c), expired |-> FALSE]

\* A definition is registered under its own name and version.
Keyed ==
  \A e \in Engine, v \in Version :
    process[e].registry[v] # Absent => VersionOf(process[e].registry[v]) = v

ListedInv ==
  store = "redis" =>
    \A i \in Id : Stored(i) /\ row[i].status = "RUNNING" =>
      \/ <<"RUNNING", i>> \in index
      \/ i \in torn
      \/ \E c \in Call : IndexPending(c) /\ call[c].id = i

Inv ==
  /\ TypeOK
  /\ CallInv
  /\ Keyed
  /\ IdInv
  /\ LeaseInv
  /\ ListedInv

\* What is stored stays stored, with the definition it was started with.
RowGrows ==
  /\ store' = store
  /\ \A i \in Id : Stored(i) => Stored(i)' /\ (store # "redis" => row'[i].def = row[i].def)

\* The IDs are as they were, and no call is about to use another one.
NoNewId ==
  /\ store' = store /\ created' = created
  /\ \A i \in Id : Stored(i)' <=> Stored(i)
  /\ process'[Local].nextID = process[Local].nextID
  /\ \A c \in Call : call'[c].pc = "save" => call[c].pc = "save" /\ call'[c].id = call[c].id

NoNewExecutor ==
  /\ store' = store /\ surrendered' = surrendered
  /\ \A c \in Call : \A i \in Id : Executes(c, i)' => Executes(c, i)

\* Whatever was pending for the index still is.
StillPending ==
  \A c \in Call : IndexPending(c) => IndexPending(c)' /\ call'[c].id = call[c].id

-----------------------------------------------------------------------------
(* Lemmas on the parts of a step.                                          *)

\* A store in memory has a process.
LEMMA LocalEngine == Local \in Engine /\ \A c \in Call : Eng(c) \in Engine
BY DeploymentAssumption DEF Local, Eng

\* Who has a lease that is written out.
LEMMA LeaseOwner == \A e : [owner |-> e, expired |-> FALSE].owner = e
OBVIOUS

\* Where a goroutine that has returned is.
LEMMA IdleIsIdle == IdleCall.pc = "idle"
BY DEF IdleCall

\* No ID is in use where nothing is stored and nothing is under way, as
\* at first.
LEMMA NothingUsed ==
  ASSUME \A i \in Id : row[i] = Absent /\ created[i] = 0,
         \A c \in Call : call[c].pc = "idle"
  PROVE  IdInv
BY DEF IdInv, Stored

\* The same after the crash that leaves such a process.
LEMMA NoIdUsed ==
  ASSUME \A i \in Id : row'[i] = Absent /\ created'[i] = 0,
         \A c \in Call : call'[c].pc = "idle"
  PROVE  IdInv'
BY DEF IdInv, Stored

\* The invariant at one call: its locals are well typed, and agree with the store.
LEMMA CallTyped ==
  ASSUME Inv, NEW c \in Call
  PROVE  call[c] \in CallState /\ CallOK(call[c], store, row)
<1>1. call \in [Call -> CallState] /\ CallInv
  BY DEF Inv, TypeOK
<1> QED
  BY <1>1 DEF CallInv

\* The invariant at the processes.
LEMMA ProcessTyped ==
  ASSUME Inv
  PROVE  process \in [Engine -> Process]
BY DEF Inv, TypeOK

\* What the recovery loop of RecoverStuckInstances runs is a recovery.
LEMMA Recovering ==
  ASSUME NEW r, NEW s, NEW rows, CallOK(r, s, rows), r.pc \in {"fetch", "recover"}
  PROVE  r.op = "Recover"
BY DEF CallOK

\* The locals of a goroutine that has returned.
LEMMA IdleTyped == IdleCall \in CallState /\ \A s, rows : CallOK(IdleCall, s, rows)
<1>1. NoList \in [Id -> Copy \cup {Absent}] /\ 1 \in Id
  BY DeploymentAssumption DEF NoList
<1>2. IdleCall \in CallState
  BY <1>1 DEF IdleCall, CallState, Point, Op, Lease
<1>3. \A s, rows : CallOK(IdleCall, s, rows)
  BY DEF CallOK, IdleCall, NoList, Having, Loaded
<1> QED
  BY <1>2, <1>3

\* UpdateInstance of every store, when the copy has the stored definition: the
\* row is replaced, and Redis and MongoDB leave the lease alone.
LEMMA Updated ==
  ASSUME TypeOK, NEW i \in Id, NEW inst \in Instance, NEW l \in Lease,
         store # "redis" => Stored(i) /\ inst.def = row[i].def,
         UpdateInstance(i, inst, l)
  PROVE  /\ row' = [row EXCEPT ![i] = inst]
         /\ RowGrows
         /\ lease' \in [Id -> Lease]
         /\ store \in {"redis", "mongo"} => lease' = lease
         /\ index' = index
<1>1. store' = store /\ index' = index
  BY DEF UpdateInstance
<1>2. row' = [row EXCEPT ![i] = inst]
  <2>1. CASE store = "mongo"
    <3>1. row[i] \in Instance /\ inst.def = row[i].def
      BY <2>1 DEF TypeOK, Stored
    <3>2. row[i].def = [row[i].def EXCEPT !.name = inst.def.name]
      <4>1. row[i].def \in Definition
        BY <3>1 DEF Instance
      <4>2. PICK d : d = row[i].def
        OBVIOUS
      <4>3. d = [name |-> d.name, version |-> d.version, fingerprint |-> d.fingerprint]
        BY <4>1, <4>2, DeploymentAssumption
      <4>4. d = [d EXCEPT !.name = d.name]
        BY <4>3
      <4> QED
        BY <3>1, <4>2, <4>4
    <3>3. inst = [row[i] EXCEPT !.def = [row[i].def EXCEPT !.name = inst.def.name],
                                !.status = inst.status]
      BY <3>1, <3>2 DEF Instance
    <3>4. row' = [row EXCEPT ![i].def.name = inst.def.name, ![i].status = inst.status]
      BY <2>1 DEF UpdateInstance, MongoUpdate
    <3>5. row' = [row EXCEPT ![i] = [row[i] EXCEPT
                    !.def = [row[i].def EXCEPT !.name = inst.def.name], !.status = inst.status]]
      BY <3>4, <3>1 DEF TypeOK, Instance
    <3> QED
      BY <3>3, <3>5
  <2>2. CASE store # "mongo"
    BY <2>2 DEF UpdateInstance, MemoryUpdate, SQLiteUpdate, PostgresUpdate, RedisUpdate
  <2> QED
    BY <2>1, <2>2
<1>3. lease' \in [Id -> Lease] /\ (store \in {"redis", "mongo"} => lease' = lease)
  BY DEF TypeOK, UpdateInstance, MemoryUpdate, SQLiteUpdate, PostgresUpdate, RedisUpdate,
         MongoUpdate
<1>4. RowGrows
  BY <1>1, <1>2, DeploymentAssumption DEF RowGrows, TypeOK, Stored
<1> QED
  BY <1>1, <1>2, <1>3, <1>4

\* SaveInstance of every store: the row is new, except in Redis.
LEMMA Saved ==
  ASSUME TypeOK, NEW i \in Id, NEW inst \in Instance,
         store = "memory" => ~Stored(i),
         SaveInstance(i, inst)
  PROVE  /\ row' = [row EXCEPT ![i] = inst]
         /\ store # "redis" => ~Stored(i)
         /\ RowGrows
         /\ lease' \in [Id -> Lease]
         /\ \A j \in Id : j # i \/ store = "redis" => lease'[j] = lease[j]
         /\ index' = index
<1>1. store' = store /\ index' = index
  BY DEF SaveInstance
<1>2. row' = [row EXCEPT ![i] = inst] /\ (store # "redis" => ~Stored(i))
  BY DEF SaveInstance, MemorySave, SQLiteSave, PostgresSave, MongoSave, RedisSave, Put,
         TypeOK, Store
<1>3. lease' = lease \/ (store # "redis" /\ lease' = [lease EXCEPT ![i] = Free])
  BY DEF SaveInstance, MemorySave, SQLiteSave, PostgresSave, MongoSave, RedisSave, Put
<1>4. RowGrows
  BY <1>1, <1>2, DeploymentAssumption DEF RowGrows, TypeOK, Stored
<1>5. /\ lease' \in [Id -> Lease]
      /\ \A j \in Id : j # i \/ store = "redis" => lease'[j] = lease[j]
  BY <1>3 DEF TypeOK, Lease
<1> QED
  BY <1>1, <1>2, <1>4, <1>5

\* state is what a call that goes on at pc after a write may have: the
\* instance that it has written.
MayGoOn(state, pc) ==
  /\ state \in CallState /\ state.inst \in Instance
  /\ pc \in Point \ {"index", "save"}
  /\ pc \in {"fetch", "recover"} => state.op = "Recover"
  /\ row'[state.id] # Absent
  /\ store # "redis" => state.inst.def = row'[state.id].def
  /\ pc = "exec" /\ state.op \in {"Resume", "SignalNow"} /\ store # "redis" =>
       state.def = row'[state.id].def
  /\ \A i \in Id : state.todo[i] # Absent =>
       Stored(i) /\ (store # "redis" => state.todo[i].inst.def = row[i].def)

WentOn(c, state, pc) ==
  /\ call' \in [Call -> CallState]
  /\ CallOK(call'[c], store', row')
  /\ \A b \in Call \ {c} : call'[b] = call[b]
  /\ call'[c].pc \in {"index", "idle", pc}
  /\ store = "redis" => /\ call'[c].pc = "index" /\ call'[c].id = state.id
                        /\ call'[c].inst = state.inst /\ call'[c].op = state.op
  /\ call'[c] = IdleCall \/ (call'[c].id = state.id /\ call'[c].op = state.op)

\* Such a call has what it needs wherever it goes on.
LEMMA GoOnOK ==
  ASSUME TypeOK, RowGrows, NEW c \in Call, NEW state, NEW pc, MayGoOn(state, pc),
         GoOn(c, state, pc)
  PROVE  WentOn(c, state, pc)
<1> USE DEF MayGoOn
<1> DEFINE r == IF store = "redis" THEN [state EXCEPT !.pc = "index", !.then = pc]
                ELSE IF pc = "idle" THEN IdleCall ELSE [state EXCEPT !.pc = pc]
<1>1. call' = [call EXCEPT ![c] = r]
  BY DEF GoOn
<1>2. r \in CallState
  <2>1. "index" \in Point
    BY DEF Point
  <2>2. [state EXCEPT !.pc = "index", !.then = pc] \in CallState
    BY <2>1 DEF CallState
  <2>3. [state EXCEPT !.pc = pc] \in CallState
    BY DEF CallState
  <2> QED
    BY <2>2, <2>3, IdleTyped
<1>3. call'[c] = r /\ call' \in [Call -> CallState] /\ \A b \in Call \ {c} : call'[b] = call[b]
  BY <1>1, <1>2 DEF TypeOK
<1>4. CallOK(r, store', row')
  <2>1. CASE store # "redis" /\ pc = "idle"
    BY <2>1, IdleTyped
  <2>2. CASE store = "redis" \/ pc # "idle"
    <3>1. r.inst = state.inst /\ r.id = state.id /\ r.def = state.def /\ r.op = state.op
          /\ r.todo = state.todo
      BY <2>2 DEF CallState
    <3>2. r.pc = (IF store = "redis" THEN "index" ELSE pc) /\ (store = "redis" => r.then = pc)
      BY <2>2 DEF CallState
    <3> HIDE DEF r
    <3>3. store' = store
          /\ \A i \in Id : r.todo[i] # Absent =>
               row'[i] # Absent /\ (store # "redis" => r.todo[i].inst.def = row'[i].def)
      BY <3>1 DEF RowGrows, Stored
    <3> QED
      BY <3>1, <3>2, <3>3 DEF CallOK, Stored
  <2> QED
    BY <2>1, <2>2
<1>5. /\ r.pc \in {"index", "idle", pc}
      /\ r = IdleCall \/ (r.id = state.id /\ r.op = state.op)
      /\ store = "redis" => r.pc = "index" /\ r.id = state.id /\ r.inst = state.inst
                            /\ r.op = state.op
  BY DEF CallState, IdleCall
<1> HIDE DEF r
<1> QED
  BY <1>3, <1>4, <1>5 DEF WentOn

\* IdInv when no instance is created.
LEMMA IdKept ==
  ASSUME TypeOK, IdInv, NoNewId
  PROVE  IdInv'
BY LocalEngine DEF IdInv, NoNewId, TypeOK, CallState, Process, Stored

\* LeaseInv when nobody starts executing and no lease changes.
LEMMA LeaseKept ==
  ASSUME LeaseInv, NoNewExecutor, store \in {"redis", "mongo"} => lease' = lease
  PROVE  LeaseInv'
<1>1. \A c \in Call : Eng(c)' = Eng(c)
  BY DEF NoNewExecutor, Eng
<1> QED
  BY <1>1 DEF LeaseInv, NoNewExecutor

\* ListedInv when no row changes and nothing leaves the index.
LEMMA ListedKept ==
  ASSUME ListedInv, store' = store, row' = row, index \subseteq index', torn \subseteq torn',
         StillPending
  PROVE  ListedInv'
BY DEF ListedInv, StillPending, Stored

\* All calls but one are as they were.
LEMMA OthersKept ==
  ASSUME CallInv, RowGrows, TypeOK, NEW c \in Call,
         \A b \in Call \ {c} : call'[b] = call[b],
         CallOK(call'[c], store', row')
  PROVE  CallInv'
<1>1. ASSUME NEW b \in Call \ {c} PROVE CallOK(call'[b], store', row')
  <2>1. CallOK(call[b], store, row) /\ call[b] \in CallState
    BY DEF CallInv, TypeOK
  <2> DEFINE r == call[b]
  <2>2. r.id \in Id /\ store' = store
    BY <2>1 DEF CallState, RowGrows
  <2>3. \A i \in Id : row[i] # Absent =>
          row'[i] # Absent /\ (store # "redis" => row'[i].def = row[i].def)
    BY DEF RowGrows, Stored
  <2> HIDE DEF r
  <2>4. CallOK(r, store', row')
    <3>1. \A i \in Id : r.todo[i] # Absent =>
            row'[i] # Absent /\ (store' # "redis" => r.todo[i].inst.def = row'[i].def)
      BY <2>1, <2>2, <2>3 DEF CallOK, r
    <3>2. r.pc \in Loaded =>
            row'[r.id] # Absent /\ (store' # "redis" => r.inst.def = row'[r.id].def)
      BY <2>1, <2>2, <2>3 DEF CallOK, r
    <3>3. r.pc = "exec" /\ r.op \in {"Resume", "SignalNow"} /\ store' # "redis" =>
            r.def = row'[r.id].def
      <4>1. "exec" \in Loaded
        BY DEF Loaded, Having
      <4> QED
        BY <2>1, <2>2, <2>3, <4>1 DEF CallOK, r
    <3>4. CallOK(r, store, row)
      BY <2>1 DEF r
    <3> QED
      BY <2>2, <3>1, <3>2, <3>3, <3>4 DEF CallOK
  <2> QED
    BY <2>4 DEF r
<1> QED
  BY <1>1 DEF CallInv

-----------------------------------------------------------------------------
(* Two kinds of step.                                                      *)

\* A call goes on, or returns, and leaves the store alone.
MayAdvance(c, r) ==
  /\ r \in CallState /\ CallOK(r, store, row)
  /\ r.pc \notin {"save", "mark", "index", "exec"}
  /\ call[c].pc # "index"

\* Such a step keeps the invariant: it adds no executor and no new ID.
LEMMA CallStep ==
  ASSUME Inv, NEW c \in Call, NEW r, MayAdvance(c, r),
         call' = [call EXCEPT ![c] = r],
         calls' \in 0 .. MaxCalls,
         UNCHANGED <<storeVars, process, created, torn, surrendered, crashes>>
  PROVE  Inv'
<1> USE DEF MayAdvance
<1>1. TypeOK'
  BY DEF Inv, TypeOK, storeVars
<1>2. RowGrows
  BY DEF RowGrows, storeVars, Stored
<1>3. call'[c] = r /\ \A b \in Call \ {c} : call'[b] = call[b]
  BY DEF Inv, TypeOK
<1>4. CallInv'
  BY <1>2, <1>3, OthersKept DEF Inv, storeVars
<1>5. Keyed'
  BY DEF Inv, Keyed
<1>6. NoNewId
  BY <1>3 DEF NoNewId, storeVars, Stored
<1>7. NoNewExecutor
  BY <1>3 DEF NoNewExecutor, Executes, storeVars
<1>8. StillPending
  BY <1>3 DEF StillPending, IndexPending
<1> QED
  BY <1>1, <1>4, <1>5, <1>6, <1>7, <1>8, IdKept, LeaseKept, ListedKept DEF Inv, storeVars

\* A call writes the instance that it holds.
MayWrite(c, i, inst, l, state, pc) ==
  /\ inst \in Instance /\ l \in Lease /\ state \in CallState
  /\ pc \in {"exec", "release", "deferred", "recover", "idle"}
  /\ state.id = i /\ state.inst = inst /\ state.op = call[c].op
  /\ Stored(i)
  /\ store # "redis" => inst.def = row[i].def
  /\ pc = "exec" /\ state.op \in {"Resume", "SignalNow"} /\ store # "redis" =>
       state.def = inst.def
  /\ pc = "recover" => state.op = "Recover"
  /\ \A j \in Id : state.todo[j] = call[c].todo[j] \/ state.todo[j] = Absent
  /\ \/ call[c].pc = "recover"
     \/ call[c].pc \in {"mark", "exec"} /\ call[c].id = i

\* UpdateInstance of what a call holds keeps the invariant, in every store.
LEMMA WriteStep ==
  ASSUME Inv, NEW c \in Call, NEW i \in Id, NEW inst, NEW l, NEW state, NEW pc,
         MayWrite(c, i, inst, l, state, pc),
         UpdateInstance(i, inst, l),
         GoOn(c, state, pc),
         UNCHANGED <<process, created, torn, surrendered, calls, crashes>>
  PROVE  Inv'
<1> USE DEF MayWrite
<1>1. /\ row' = [row EXCEPT ![i] = inst]
      /\ RowGrows
      /\ lease' \in [Id -> Lease]
      /\ store \in {"redis", "mongo"} => lease' = lease
      /\ index' = index
  BY Updated DEF Inv
<1>2. row'[i] = inst /\ inst # Absent /\ \A j \in Id \ {i} : row'[j] = row[j]
  BY <1>1, DeploymentAssumption DEF Inv, TypeOK
<1>3. CallOK(call[c], store, row) /\ call[c] \in CallState
  BY CallTyped
<1>4. \A j \in Id : state.todo[j] # Absent =>
        Stored(j) /\ (store # "redis" => state.todo[j].inst.def = row[j].def)
  BY <1>3 DEF CallOK, Stored
<1>5. WentOn(c, state, pc)
  <2>1. MayGoOn(state, pc)
    BY <1>2, <1>4 DEF MayGoOn, Point
  <2> QED
    BY <1>1, <2>1, GoOnOK DEF Inv
<1> USE DEF WentOn
<1>6. store' = store
  BY <1>1 DEF RowGrows
<1>7. TypeOK'
  BY <1>1, <1>5, <1>6 DEF Inv, TypeOK
<1>8. CallInv'
  BY <1>1, <1>5, OthersKept DEF Inv
<1>9. Keyed'
  BY DEF Inv, Keyed
<1>10. IdInv'
  <2>1. NoNewId
    BY <1>1, <1>2, <1>5, <1>6 DEF NoNewId, Stored, IdleCall
  <2> QED
    BY <2>1, IdKept DEF Inv
<1>11. LeaseInv'
  <2>1. call[c].pc = "recover" => call[c].op = "Recover"
    BY <1>3 DEF CallOK
  <2>2. \A j \in Id : Executes(c, j)' => Executes(c, j)
    <3>1. call'[c].pc = "idle" => \A j \in Id : ~Executes(c, j)'
      BY DEF Executes
    <3>2. call'[c] = IdleCall => call'[c].pc = "idle"
      BY IdleIsIdle
    <3>3. call'[c] # IdleCall => call'[c].id = state.id /\ call'[c].op = state.op
      BY <1>5
    <3> QED
      BY <1>5, <2>1, <3>1, <3>2, <3>3 DEF Executes
  <2>3. NoNewExecutor
    BY <1>5, <1>6, <2>2 DEF NoNewExecutor, Executes
  <2> QED
    BY <1>1, <2>3, LeaseKept DEF Inv
<1>12. ListedInv'
  <2> SUFFICES ASSUME store = "redis", NEW j \in Id, row'[j] # Absent,
                      row'[j].status = "RUNNING"
               PROVE  \/ <<"RUNNING", j>> \in index
                      \/ j \in torn
                      \/ \E b \in Call : IndexPending(b)' /\ call'[b].id = j
    BY <1>1, <1>6 DEF ListedInv, Stored
  <2>0. /\ call'[c].pc = "index" /\ call'[c].id = i /\ call'[c].inst = inst
        /\ call[c].pc # "index" /\ \A b \in Call \ {c} : call'[b] = call[b]
    BY <1>5
  <2> HIDE DEF MayWrite, WentOn
  <2>1. CASE j = i
    <3>1. IndexPending(c)'
      BY <1>2, <2>0, <2>1 DEF IndexPending
    <3> QED
      BY <2>0, <2>1, <3>1
  <2>2. CASE j # i
    <3>1. row[j] = row'[j]
      BY <1>2, <2>2
    <3>2. \A b \in Call : IndexPending(b) => IndexPending(b)' /\ call'[b].id = call[b].id
      BY <2>0 DEF IndexPending
    <3>3. \/ <<"RUNNING", j>> \in index
          \/ j \in torn
          \/ \E b \in Call : IndexPending(b) /\ call[b].id = j
      BY <3>1 DEF Inv, ListedInv, Stored
    <3> QED
      BY <3>2, <3>3
  <2> QED
    BY <2>1, <2>2
<1> QED
  BY <1>7, <1>8, <1>9, <1>10, <1>11, <1>12 DEF Inv

-----------------------------------------------------------------------------
(* The actions.                                                            *)

\* The bound on the calls.
LEMMA CallsTyped ==
  ASSUME TypeOK, Calls
  PROVE  calls' \in 0 .. MaxCalls
<1>1. calls \in 0 .. MaxCalls
  BY DEF TypeOK
<1> QED
  BY <1>1, DeploymentAssumption DEF Calls

\* A call that returns without touching the store.
LEMMA ReturnStep ==
  ASSUME Inv, NEW c \in Call, call[c].pc # "index", Return(c),
         UNCHANGED <<storeVars, process, created, torn, surrendered, calls, crashes>>
  PROVE  Inv'
<1>1. MayAdvance(c, IdleCall)
  BY IdleTyped DEF MayAdvance, IdleCall
<1>2. calls' \in 0 .. MaxCalls
  BY DEF Inv, TypeOK
<1> QED
  BY <1>1, <1>2, CallStep DEF Return

\* Loading an instance: the copy is what the store has.
LEMMA LoadStep ==
  ASSUME Inv, NEW c \in Call, NEW i \in Id, NEW op \in {"RunInstance", "Resume", "SignalNow"},
         NEW d \in Definition \cup {Absent}, Load(c, i, op, d)
  PROVE  Inv'
<1> DEFINE r == [IdleCall EXCEPT !.pc = "acquire", !.op = op, !.id = i, !.def = d,
                   !.inst = row[i], !.seen = LeaseOfCopy(i)]
<1>1. row[i] \in Instance /\ LeaseOfCopy(i) \in Lease
  BY DEF Inv, TypeOK, Load, Stored, LeaseOfCopy, Lease
<1>2. r \in CallState
  <2>1. "acquire" \in Point /\ op \in Op
    BY DEF Point, Op
  <2> QED
    BY <1>1, <2>1, IdleTyped DEF CallState
<1>3. /\ r.pc = "acquire" /\ r.id = i /\ r.inst = row[i]
      /\ r.todo = NoList
  BY DEF IdleCall
<1>4. call[c].pc # "index" /\ row[i] # Absent
  BY DEF Load, Idle, Stored
<1>5. call' = [call EXCEPT ![c] = r]
  BY DEF Load
<1> HIDE DEF r
<1>6. MayAdvance(c, r)
  BY <1>1, <1>2, <1>3, <1>4 DEF MayAdvance, CallOK, NoList
<1> QED
  BY <1>5, <1>6, CallStep, CallsTyped DEF Load, Inv

\* A call of RunInstance, Resume or Signal that has its lease fails to get
\* its definition.
LEMMA MarkFailsStep ==
  ASSUME Inv, NEW c \in Call, MarkFails(c)
  PROVE  Inv'
<1> DEFINE r == [call[c] EXCEPT !.pc = "deferred"]
<1>1. call[c] \in CallState /\ CallOK(call[c], store, row) /\ call[c].pc = "mark"
  BY DEF Inv, TypeOK, CallInv, MarkFails
<1>2. r \in CallState
  BY <1>1 DEF CallState, Point
<1>3. /\ r.pc = "deferred" /\ r.id = call[c].id /\ r.inst = call[c].inst
      /\ r.todo = call[c].todo
  BY <1>1 DEF CallState
<1>4. call' = [call EXCEPT ![c] = r]
  BY <1>1 DEF MarkFails, Inv, TypeOK
<1>5. calls' \in 0 .. MaxCalls
  BY DEF Inv, TypeOK, MarkFails
<1> HIDE DEF r
<1>6. MayAdvance(c, r)
  BY <1>1, <1>2, <1>3 DEF MayAdvance, CallOK, Having, Loaded
<1> QED
  BY <1>4, <1>5, <1>6, CallStep DEF MarkFails

\* What a call that executes sees is an instance, with the stored definition.
LEMMA SeenInstance ==
  ASSUME Inv, NEW c \in Call, call[c].pc \in {"mark", "exec"}
  PROVE  /\ Seen(c) \in Instance /\ Stored(call[c].id)
         /\ store # "redis" => Seen(c).def = row[call[c].id].def
<1>1. call[c] \in CallState /\ CallOK(call[c], store, row)
  BY DEF Inv, TypeOK, CallInv
<1>2. row[call[c].id] \in Instance \cup {Absent}
  BY <1>1 DEF Inv, TypeOK, CallState
<1> QED
  BY <1>1, <1>2 DEF CallOK, Having, Loaded, Stored, Seen

\* The writes of a call that executes.
LEMMA HeldWrite ==
  ASSUME Inv, NEW c \in Call, call[c].pc \in {"mark", "exec"},
         NEW status \in Status, NEW d \in Definition \cup {Absent},
         NEW pc \in {"exec", "release", "deferred", "idle"},
         pc = "exec" /\ call[c].op \in {"Resume", "SignalNow"} /\ store # "redis" =>
           d = Seen(c).def,
         Write(c, status, d, pc)
  PROVE  Inv'
<1> DEFINE inst == [Seen(c) EXCEPT !.status = status]
           state == [call[c] EXCEPT !.inst = inst, !.def = d]
<1>1. call[c] \in CallState
  BY DEF Inv, TypeOK
<1>2. inst \in Instance /\ inst.def = Seen(c).def
  BY SeenInstance DEF Instance
<1>3. /\ UpdateInstance(call[c].id, inst, call[c].seen)
      /\ GoOn(c, state, pc)
      /\ UNCHANGED <<process, created, torn, surrendered, calls, crashes>>
  BY DEF Write
<1> HIDE DEF inst
<1>4. /\ state \in CallState /\ state.id = call[c].id /\ state.inst = inst
      /\ state.op = call[c].op /\ state.def = d /\ state.todo = call[c].todo
  BY <1>1, <1>2 DEF CallState
<1>5. call[c].seen \in Lease /\ call[c].id \in Id
  BY <1>1 DEF CallState
<1> HIDE DEF state
<1>6. MayWrite(c, call[c].id, inst, call[c].seen, state, pc)
  BY <1>2, <1>4, <1>5, SeenInstance DEF MayWrite
<1> QED
  BY <1>3, <1>5, <1>6, WriteStep

\* resumeInline and signalInline go on with the definition of the instance,
\* because the name, the version and the fingerprint are all there is to it.
LEMMA MarkStep ==
  ASSUME Inv, NEW c \in Call, Mark(c)
  PROVE  Inv'
<1>1. call[c].pc = "mark" /\ call[c] \in CallState
  BY DEF Mark, Inv, TypeOK
<1>2. PICK d \in Usable(c) : Write(c, "RUNNING", d, "exec")
  BY DEF Mark
<1>3. /\ Eng(c) \in Engine /\ Seen(c).def \in Definition
      /\ process[Eng(c)].registry \in [Version -> Definition \cup {Absent}]
  BY <1>1, LocalEngine, SeenInstance DEF Inv, TypeOK, Process, Instance
<1>4. d \in Definition \cup {Absent}
  <2>1. VersionOf(Seen(c).def) \in Version
    BY <1>3 DEF Version
  <2> QED
    BY <1>1, <1>2, <1>3, <2>1 DEF Usable, Registered, CallState
<1>5. ASSUME call[c].op \in {"Resume", "SignalNow"}, store # "redis"
      PROVE  d = Seen(c).def
  <2>1. VersionOf(Seen(c).def) \in Version
    BY <1>3 DEF Version
  <2>2. /\ d = process[Eng(c)].registry[VersionOf(Seen(c).def)] /\ d # Absent
        /\ d.fingerprint = Seen(c).def.fingerprint
    BY <1>2, <1>5 DEF Usable, Registered
  <2>3. VersionOf(d) = VersionOf(Seen(c).def) /\ d \in Definition
    BY <1>3, <1>4, <2>1, <2>2 DEF Inv, Keyed
  <2>4. d.name = Seen(c).def.name /\ d.version = Seen(c).def.version
    BY <2>3 DEF VersionOf
  <2>5. \A x \in Definition : x = [name |-> x.name, version |-> x.version,
                                   fingerprint |-> x.fingerprint]
    BY DeploymentAssumption
  <2> QED
    BY <1>3, <2>2, <2>3, <2>4, <2>5
<1> QED
  BY <1>1, <1>2, <1>4, <1>5, HeldWrite DEF Status

\* executeSteps ends, in one of the statuses or because of the context.
LEMMA FinishStep ==
  ASSUME Inv, NEW c \in Call, Finish(c) \/ Cancelled(c)
  PROVE  Inv'
<1>1. call[c].pc = "exec" /\ call[c].def \in Definition \cup {Absent}
  BY DEF Finish, Cancelled, Inv, TypeOK, CallState
<1>2. PICK s \in Status, pc \in {"release", "deferred", "idle"} : Write(c, s, call[c].def, pc)
  BY DEF Finish, Cancelled, Status
<1> QED
  BY <1>1, <1>2, HeldWrite

\* The copies that a listing returns are of what is stored.
Listing(ids) == [i \in Id |-> IF i \in ids THEN CopyOf(i) ELSE Absent]

\* So they have the stored definitions.
LEMMA ListingOK ==
  ASSUME Inv, NEW ids
  PROVE  /\ Listing(ids) \in [Id -> Copy \cup {Absent}]
         /\ \A i \in Id : Listing(ids)[i] # Absent =>
              row[i] # Absent /\ Listing(ids)[i].inst = row[i]
<1>1. ASSUME NEW i \in Id, Stored(i)
      PROVE  CopyOf(i) \in Copy /\ CopyOf(i).inst = row[i]
  BY <1>1 DEF Inv, TypeOK, CopyOf, Copy, LeaseOfCopy, Lease, Stored
<1>2. \A i \in Id : ~Stored(i) => CopyOf(i) = Absent
  BY DEF CopyOf
<1> QED
  BY <1>1, <1>2 DEF Listing, Stored

\* RecoverStuckInstances reads the RUNNING instances, in Redis by their IDs.
LEMMA RecoverListStep ==
  ASSUME Inv, NEW c \in Call, RecoverList(c)
  PROVE  Inv'
<1> DEFINE ids == ListInstances("", "RUNNING")
           fetch == [IdleCall EXCEPT !.pc = "fetch", !.op = "Recover", !.ids = ids]
           recover == [IdleCall EXCEPT !.pc = "recover", !.op = "Recover", !.todo = Listing(ids)]
           r == IF store = "redis" THEN fetch ELSE recover
<1>1. store = "redis" => ids \subseteq Id
  BY DEF ListInstances, RedisList
<1>2. call' = [call EXCEPT ![c] = r]
  BY DEF RecoverList, Listing
<1> HIDE DEF ids
<1>3. "fetch" \in Point /\ "recover" \in Point /\ "Recover" \in Op
  BY DEF Point, Op
<1>4. /\ store = "redis" => fetch \in CallState
      /\ fetch.pc = "fetch" /\ fetch.op = "Recover" /\ fetch.todo = NoList
  <2>1. store = "redis" => fetch \in CallState
    BY <1>1, <1>3, IdleTyped DEF CallState
  <2>2. fetch.pc = "fetch" /\ fetch.op = "Recover" /\ fetch.todo = NoList
    BY DEF IdleCall
  <2> QED
    BY <2>1, <2>2
<1>5. /\ recover \in CallState
      /\ recover.pc = "recover" /\ recover.op = "Recover" /\ recover.todo = Listing(ids)
  <2>1. recover \in CallState
    BY <1>3, IdleTyped, ListingOK DEF CallState
  <2>2. recover.pc = "recover" /\ recover.op = "Recover" /\ recover.todo = Listing(ids)
    BY DEF IdleCall
  <2> QED
    BY <2>1, <2>2
<1> HIDE DEF fetch, recover
<1>6. store = "redis" => CallOK(fetch, store, row)
  BY <1>4 DEF CallOK, Having, Loaded, NoList
<1>7. CallOK(recover, store, row)
  BY <1>5, ListingOK DEF CallOK, Having, Loaded
<1>8. call[c].pc # "index"
  BY DEF RecoverList, Idle
<1>9. MayAdvance(c, r)
  BY <1>4, <1>5, <1>6, <1>7, <1>8 DEF MayAdvance
<1> HIDE DEF r
<1> QED
  BY <1>2, <1>9, CallStep, CallsTyped DEF RecoverList, Inv

\* The second round trip of ListInstances reads what is stored by then.
LEMMA RecoverFetchStep ==
  ASSUME Inv, NEW c \in Call, RecoverFetch(c)
  PROVE  Inv'
<1> DEFINE r == [call[c] EXCEPT !.pc = "recover", !.ids = {}, !.todo = Listing(call[c].ids)]
<1>1. call[c] \in CallState /\ CallOK(call[c], store, row) /\ call[c].pc = "fetch"
  BY CallTyped DEF RecoverFetch
<1>2. call' = [call EXCEPT ![c] = r]
  BY <1>1 DEF RecoverFetch, Listing, Inv, TypeOK, CallState
<1>3. /\ r \in CallState /\ r.pc = "recover" /\ r.op = call[c].op
      /\ r.todo = Listing(call[c].ids)
  BY <1>1, ListingOK DEF CallState, Point
<1> HIDE DEF r
<1>4. CallOK(r, store, row)
  <2>1. \A i \in Id : r.todo[i] # Absent => row[i] # Absent /\ r.todo[i].inst = row[i]
    BY <1>3, ListingOK
  <2>2. r.op = "Recover"
    BY <1>1, <1>3 DEF CallOK
  <2>3. r.pc \notin Having /\ r.pc \notin Loaded
    BY <1>3 DEF Having, Loaded
  <2> QED
    BY <1>3, <2>1, <2>2, <2>3 DEF CallOK
<1>5. MayAdvance(c, r)
  BY <1>1, <1>3, <1>4 DEF MayAdvance
<1>6. calls' \in 0 .. MaxCalls
  BY DEF Inv, TypeOK, RecoverFetch
<1> QED
  BY <1>2, <1>5, <1>6, CallStep DEF RecoverFetch

\* One instance is recovered, or passed over.
LEMMA RecoverNextStep ==
  ASSUME Inv, NEW c \in Call, RecoverNext(c)
  PROVE  Inv'
<1>1. /\ call[c] \in CallState /\ CallOK(call[c], store, row)
      /\ call[c].pc = "recover" /\ call[c].op = "Recover"
  <2>1. call[c] \in CallState /\ CallOK(call[c], store, row)
    BY CallTyped
  <2>2. call[c].pc = "recover"
    BY DEF RecoverNext
  <2> QED
    BY <2>1, <2>2, Recovering
<1> DEFINE copy(i) == IF store = "memory" THEN CopyOf(i) ELSE call[c].todo[i]
           rest(i) == [call[c] EXCEPT !.todo[i] = Absent]
           pc(i) == IF rest(i).todo = NoList THEN "idle" ELSE "recover"
           inst(i) == [copy(i).inst EXCEPT !.status = "FAILED"]
           state(i) == [rest(i) EXCEPT !.id = i, !.inst = inst(i)]
<1>2. PICK i \in Id :
        /\ call[c].todo[i] # Absent
        /\ \/ /\ UpdateInstance(i, inst(i), copy(i).seen)
              /\ GoOn(c, state(i), pc(i))
           \/ /\ call' = [call EXCEPT ![c] = IF pc(i) = "idle" THEN IdleCall ELSE rest(i)]
              /\ UNCHANGED storeVars
  BY DEF RecoverNext
<1>3. UNCHANGED <<process, created, torn, surrendered, calls, crashes>>
  BY DEF RecoverNext
<1>4. /\ copy(i) \in Copy /\ Stored(i)
      /\ store # "redis" => copy(i).inst.def = row[i].def
  <2>1. /\ Stored(i) /\ call[c].todo[i] \in Copy
        /\ store # "redis" => call[c].todo[i].inst.def = row[i].def
    BY <1>1, <1>2 DEF CallOK, CallState, Stored
  <2>2. CopyOf(i) \in Copy /\ CopyOf(i).inst = row[i]
    BY <2>1 DEF Inv, TypeOK, CopyOf, Copy, LeaseOfCopy, Lease, Stored
  <2> QED
    BY <2>1, <2>2
<1>5. /\ inst(i) \in Instance /\ inst(i).def = copy(i).inst.def /\ copy(i).seen \in Lease
  BY <1>4 DEF Copy, Instance, Status
<1>6. /\ rest(i) \in CallState /\ rest(i).pc = "recover" /\ rest(i).op = "Recover"
      /\ \A j \in Id : rest(i).todo[j] = call[c].todo[j] \/ rest(i).todo[j] = Absent
  BY <1>1 DEF CallState
<1>7. CASE /\ UpdateInstance(i, inst(i), copy(i).seen)
           /\ GoOn(c, state(i), pc(i))
  <2> HIDE DEF inst, copy, rest
  <2>1. /\ state(i) \in CallState /\ state(i).id = i /\ state(i).inst = inst(i)
        /\ state(i).op = "Recover" /\ state(i).todo = rest(i).todo
    BY <1>5, <1>6 DEF CallState
  <2> HIDE DEF state
  <2>2. MayWrite(c, i, inst(i), copy(i).seen, state(i), pc(i))
    BY <1>1, <1>4, <1>5, <1>6, <2>1 DEF MayWrite
  <2> HIDE DEF pc
  <2> QED
    BY <1>3, <1>7, <2>2, WriteStep
<1>8. CASE /\ call' = [call EXCEPT ![c] = IF pc(i) = "idle" THEN IdleCall ELSE rest(i)]
           /\ UNCHANGED storeVars
  <2> DEFINE r == IF pc(i) = "idle" THEN IdleCall ELSE rest(i)
  <2> HIDE DEF rest, pc
  <2>1. CallOK(rest(i), store, row)
    BY <1>1, <1>6 DEF CallOK, Having, Loaded
  <2>2. MayAdvance(c, r)
    BY <1>1, <1>6, <2>1, IdleTyped DEF MayAdvance, IdleCall
  <2>3. calls' \in 0 .. MaxCalls
    BY <1>3 DEF Inv, TypeOK
  <2> HIDE DEF r
  <2> QED
    BY <1>3, <1>8, <2>2, <2>3, CallStep DEF r
<1> QED
  BY <1>2, <1>7, <1>8

-----------------------------------------------------------------------------
(* Registering a definition and creating an instance.                     *)

\* RegisterWorkflow changes the registry only where there was nothing:
\* SaveWorkflow looks again where the check looked.
LEMMA RegisterFacts ==
  ASSUME Inv, NEW e \in Engine, NEW d \in Definition, RegisterCheck(e, d) \/ RegisterSave(e, d)
  PROVE  \E checked \in SUBSET Definition, registry \in [Version -> Definition \cup {Absent}] :
           /\ process' = [process EXCEPT ![e] = [@ EXCEPT !.checked = checked,
                                                          !.registry = registry]]
           /\ \A v \in Version : \/ registry[v] = process[e].registry[v]
                                 \/ process[e].registry[v] = Absent /\ VersionOf(registry[v]) = v
<1>1. process \in [Engine -> Process] /\ process[e] \in Process /\ VersionOf(d) \in Version
  BY ProcessTyped DEF Version
<1> DEFINE old == process[e].registry
<1>2. old \in [Version -> Definition \cup {Absent}]
  BY <1>1 DEF Process
<1>3. CASE RegisterCheck(e, d)
  <2>1. PICK checked \in SUBSET Definition : checked = process[e].checked \cup {d}
    BY <1>1 DEF Process
  <2>2. process' = [process EXCEPT ![e] = [@ EXCEPT !.checked = checked, !.registry = old]]
    BY <1>1, <1>3, <2>1 DEF RegisterCheck, Process
  <2> HIDE DEF old
  <2>3. \A v \in Version : old[v] = process[e].registry[v]
    BY DEF old
  <2>4. WITNESS checked \in SUBSET Definition, old \in [Version -> Definition \cup {Absent}]
  <2> QED
    BY <2>2, <2>3
<1>4. CASE RegisterSave(e, d)
  <2>1. PICK checked \in SUBSET Definition : checked = process[e].checked \ {d}
    BY <1>1 DEF Process
  <2>2. PICK registry \in [Version -> Definition \cup {Absent}] :
          registry = [old EXCEPT ![VersionOf(d)] = IF @ = Absent THEN d ELSE @]
    BY <1>2
  <2>3. process' = [process EXCEPT ![e] = [@ EXCEPT !.checked = checked, !.registry = registry]]
    BY <1>1, <1>4, <2>1, <2>2 DEF RegisterSave, SaveWorkflow, Process
  <2>4. \A v \in Version : \/ registry[v] = old[v]
                           \/ old[v] = Absent /\ VersionOf(registry[v]) = v
    BY <1>1, <1>2, <2>2
  <2>5. WITNESS checked \in SUBSET Definition, registry \in [Version -> Definition \cup {Absent}]
  <2> QED
    BY <2>3, <2>4
<1> QED
  BY <1>3, <1>4

\* RegisterWorkflow keeps the registry consistent.
LEMMA RegisterStep ==
  ASSUME Inv, NEW e \in Engine, NEW d \in Definition, RegisterCheck(e, d) \/ RegisterSave(e, d)
  PROVE  Inv'
<1>1. /\ UNCHANGED <<store, row, lease, index, call, created, torn, surrendered, crashes>>
      /\ calls' \in 0 .. MaxCalls
  <2>1. TypeOK /\ calls \in 0 .. MaxCalls
    BY DEF Inv, TypeOK
  <2>2. CASE RegisterCheck(e, d)
    <3>1. Calls /\ UNCHANGED <<storeVars, call, created, torn, surrendered, crashes>>
      BY <2>2 DEF RegisterCheck
    <3> QED
      BY <2>1, <3>1, CallsTyped DEF storeVars
  <2>3. CASE RegisterSave(e, d)
    BY <2>1, <2>3 DEF RegisterSave, storeVars
  <2> QED
    BY <2>2, <2>3
<1>2. PICK checked \in SUBSET Definition, registry \in [Version -> Definition \cup {Absent}] :
        /\ process' = [process EXCEPT ![e] = [@ EXCEPT !.checked = checked,
                                                       !.registry = registry]]
        /\ \A v \in Version : \/ registry[v] = process[e].registry[v]
                              \/ process[e].registry[v] = Absent /\ VersionOf(registry[v]) = v
  BY RegisterFacts
<1>3. process' \in [Engine -> Process] /\ \A f \in Engine : process'[f].nextID = process[f].nextID
  <2>1. process[e] \in Process
    BY ProcessTyped
  <2>2. /\ [process[e] EXCEPT !.checked = checked, !.registry = registry] \in Process
        /\ [process[e] EXCEPT !.checked = checked, !.registry = registry].nextID
             = process[e].nextID
    BY <2>1 DEF Process
  <2> QED
    BY <1>2, <2>2, ProcessTyped
<1>4. TypeOK'
  BY <1>1, <1>3 DEF Inv, TypeOK
<1>5. Keyed'
  <2> SUFFICES ASSUME NEW f \in Engine, NEW v \in Version, process'[f].registry[v] # Absent
               PROVE  VersionOf(process'[f].registry[v]) = v
    BY DEF Keyed
  <2>1. process[f].registry[v] # Absent => VersionOf(process[f].registry[v]) = v
    BY DEF Inv, Keyed
  <2>2. CASE f # e
    BY <1>2, <2>1, <2>2, ProcessTyped
  <2>3. CASE f = e
    <3>1. process'[e].registry = registry
      BY <1>2, ProcessTyped DEF Process
    <3> QED
      BY <1>2, <2>1, <2>3, <3>1
  <2> QED
    BY <2>2, <2>3
<1>6. NoNewId /\ NoNewExecutor /\ StillPending
  BY <1>1, <1>3, LocalEngine
     DEF NoNewId, NoNewExecutor, StillPending, Executes, IndexPending, Stored
<1>7. CallInv'
  BY <1>1 DEF Inv, CallInv
<1> QED
  BY <1>1, <1>4, <1>5, <1>6, <1>7, IdKept, LeaseKept, ListedKept DEF Inv

\* Run, RunVersion, Start and StartVersion.  In memory, the next ID is above
\* all that were used and all that are about to be.
LEMMA CreateStep ==
  ASSUME Inv, NEW c \in Call, NEW d \in Definition, NEW op \in {"Run", "Start"}, Create(c, d, op)
  PROVE  Inv'
<1> DEFINE e == Eng(c)
           n == process[e].nextID + 1
           inst == [def |-> d, status |-> IF op = "Run" THEN "RUNNING" ELSE "PENDING"]
           r == [IdleCall EXCEPT !.pc = "save", !.op = op, !.id = n, !.def = d, !.inst = inst]
<1>1. /\ n \in Id /\ call[c].pc = "idle" /\ call' = [call EXCEPT ![c] = r]
      /\ process' = [process EXCEPT ![e].nextID = n]
      /\ UNCHANGED <<store, row, lease, index, created, torn, surrendered, crashes>>
  BY DEF Create, nextInstanceID, Idle, storeVars
<1>2. e \in Engine /\ process[e] \in Process /\ n \in Nat
  <2>1. e \in Engine /\ process[e] \in Process
    BY LocalEngine, ProcessTyped
  <2> QED
    BY <2>1 DEF Process
<1>3. inst \in Instance
  BY DEF Instance, Status
<1>4. /\ r \in CallState /\ r.pc = "save" /\ r.op = op /\ r.id = n /\ r.inst = inst
      /\ r.todo = NoList
  <2>1. "save" \in Point /\ op \in Op
    BY DEF Point, Op
  <2> HIDE DEF inst, n
  <2>2. r \in CallState
    BY <1>1, <1>3, <2>1, IdleTyped DEF CallState
  <2>3. /\ r.pc = "save" /\ r.op = op /\ r.id = n /\ r.inst = inst
        /\ r.todo = NoList
    BY DEF IdleCall
  <2> QED
    BY <2>2, <2>3
<1> HIDE DEF r
<1>5. call'[c] = r /\ \A b \in Call \ {c} : call'[b] = call[b]
  BY <1>1 DEF Inv, TypeOK
<1>6. TypeOK'
  <2>1. calls' \in 0 .. MaxCalls
    BY CallsTyped DEF Inv, Create
  <2>2. process' \in [Engine -> Process]
    <3>1. [process[e] EXCEPT !.nextID = n] \in Process
      BY <1>2 DEF Process
    <3> QED
      BY <1>1, <1>2, <3>1, ProcessTyped
  <2> QED
    BY <1>1, <1>4, <2>1, <2>2 DEF Inv, TypeOK
<1>7. CallInv'
  <2>1. RowGrows
    BY <1>1 DEF RowGrows, Stored
  <2>2. CallOK(r, store, row)
    BY <1>3, <1>4 DEF CallOK, Having, Loaded, NoList
  <2> QED
    BY <1>1, <1>5, <2>1, <2>2, OthersKept DEF Inv
<1>8. Keyed'
  <2>1. \A f \in Engine : process'[f].registry = process[f].registry
    BY <1>1, <1>2 DEF Inv, TypeOK, Process
  <2> QED
    BY <2>1 DEF Inv, Keyed
<1>9. IdInv'
  <2> SUFFICES ASSUME store = "memory" PROVE IdInv'
    BY <1>1 DEF Inv, IdInv, Stored
  <2>1. e = Local /\ process'[Local].nextID = n /\ process[Local].nextID \in Nat
        /\ n = process[Local].nextID + 1
    <3>1. e = Local
      BY DEF Eng
    <3>2. process'[e].nextID = n
      BY <1>1, <1>2, ProcessTyped DEF Process
    <3>3. process[e].nextID \in Nat
      BY <1>2 DEF Process
    <3> QED
      BY <3>1, <3>2, <3>3
  <2> HIDE DEF n
  <2>2. created[n] = 0
    <3>1. created[n] \in Nat
      BY <1>1 DEF Inv, TypeOK
    <3>2. created[n] <= 1 /\ (created[n] = 1 => n <= process[Local].nextID)
      BY <1>1 DEF Inv, IdInv
    <3> QED
      BY <2>1, <3>1, <3>2
  <2>3. \A b \in Call : call[b].pc = "save" => call[b].id < n
    <3>1. \A b \in Call : call[b].id \in Nat
      BY CallTyped, DeploymentAssumption DEF CallState
    <3>2. \A b \in Call : call[b].pc = "save" => call[b].id <= process[Local].nextID
      BY DEF Inv, IdInv
    <3> QED
      BY <2>1, <3>1, <3>2
  <2>4. \A i \in Id : created[i] = 1 => i <= n
    <3>1. \A i \in Id : created[i] = 1 => i <= process[Local].nextID
      BY DEF Inv, IdInv
    <3>2. Id \subseteq Nat
      BY DeploymentAssumption
    <3> QED
      BY <2>1, <3>1, <3>2
  <2>5. \A b \in Call : call'[b].pc = "save" => call'[b].id <= n /\ created[call'[b].id] = 0
    <3>1. \A b \in Call : call[b].pc = "save" => created[call[b].id] = 0
      BY DEF Inv, IdInv
    <3>2. \A b \in Call : call[b].id \in Nat
      BY CallTyped, DeploymentAssumption DEF CallState
    <3>3. n \in Nat
      BY <2>1
    <3>4. \A b \in Call : call[b].pc = "save" => call[b].id <= n
      BY <2>3, <3>2, <3>3
    <3>5. n <= n
      BY <3>3
    <3>6. \A b \in Call \ {c} : call'[b] = call[b]
      BY <1>5
    <3>7. call'[c].id = n
      BY <1>4, <1>5
    <3> QED
      BY <2>2, <3>1, <3>4, <3>5, <3>6, <3>7
  <2>6. \A b, x \in Call : call'[b].pc = "save" /\ call'[x].pc = "save" /\ b # x =>
           call'[b].id # call'[x].id
    <3>1. \A b, x \in Call : call[b].pc = "save" /\ call[x].pc = "save" /\ b # x =>
             call[b].id # call[x].id
      BY DEF Inv, IdInv
    <3>2. call'[c].id = n /\ n \in Nat
      BY <1>2, <1>4, <1>5
    <3>3. \A b \in Call \ {c} : call'[b].pc = "save" => call'[b].id = call[b].id /\ call[b].id < n
      BY <1>5, <2>3
    <3>4. \A b \in Call \ {c} : call'[b].pc = "save" => call'[b].id # n
      BY <3>2, <3>3
    <3> QED
      BY <1>5, <3>1, <3>2, <3>3, <3>4
  <2>7. \A i \in Id : created'[i] <= 1 /\ (Stored(i)' => created'[i] = 1)
    BY <1>1 DEF Inv, IdInv, Stored
  <2>8. store' = "memory" /\ created' = created
    BY <1>1
  <2> QED
    BY <2>1, <2>4, <2>5, <2>6, <2>7, <2>8 DEF IdInv
<1>10. NoNewExecutor /\ StillPending
  BY <1>1, <1>4, <1>5 DEF NoNewExecutor, StillPending, Executes, IndexPending
<1> QED
  BY <1>1, <1>6, <1>7, <1>8, <1>9, <1>10, LeaseKept, ListedKept DEF Inv
=============================================================================
