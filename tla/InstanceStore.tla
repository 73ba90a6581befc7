--------------------------- MODULE InstanceStore ----------------------------
(***************************************************************************)
(* The five implementations of InstanceStore (internal/persistence/        *)
(* store.go), with several instances: one operator per store and method.   *)
(* Deployment has the processes that call them.                            *)
(*                                                                         *)
(* A statement, script or locked section is atomic.  Only Redis needs two  *)
(* round trips to save or update an instance, the second for its index     *)
(* sets, and two to list instances.  Of an instance the definition it was  *)
(* started with and its status are kept; Engine has the rest.              *)
(***************************************************************************)
EXTENDS Integers

CONSTANTS Id,               \* instance IDs: "wf-1", "wf-2", ... by number
          Engine, NoEngine, \* lease owners; the empty one
          Definition,       \* workflow definitions: name, version, fingerprint
          Absent            \* no instance is stored under an ID

VARIABLES store,  \* which of the stores is in use
          row,    \* the stored instances
          lease,  \* their leases: owner, and whether the lease has expired
          index   \* Redis: the index sets, as pairs of a key and an ID

storeVars == <<store, row, lease, index>>

Store == {"memory", "sqlite", "postgres", "redis", "mongo"}

Status == {"PENDING", "RUNNING", "WAITING", "COMPLETED", "FAILED"}

Instance == [def : Definition, status : Status]

Free == [owner |-> NoEngine, expired |-> FALSE]

Lease == {Free} \cup [owner : Engine, expired : BOOLEAN]

Name == {d.name : d \in Definition}

\* idx:all, idx:wf:<name> and idx:status:<status>.
IndexKey == {"all"} \cup Name \cup Status

StoreInit ==
  /\ store \in Store
  /\ row = [i \in Id |-> Absent]
  /\ lease = [i \in Id |-> Free]
  /\ index = {}

Stored(i) == row[i] # Absent

-----------------------------------------------------------------------------
(* SaveInstance.                                                           *)

Put(i, inst) ==
  /\ row' = [row EXCEPT ![i] = inst]
  /\ lease' = [lease EXCEPT ![i] = Free]

MemorySave(i, inst) == Put(i, inst)

\* Mutant: the row is inserted or replaced.
SQLiteUpsert(i, inst) == Put(i, inst)

\* INSERT, which fails when the primary key is taken.
SQLiteSave(i, inst) == ~Stored(i) /\ Put(i, inst)

PostgresSave(i, inst) == ~Stored(i) /\ Put(i, inst)

\* SET, whether or not the key is there; the lease is another key.
RedisSave(i, inst) == row' = [row EXCEPT ![i] = inst] /\ UNCHANGED lease

\* InsertOne, without the fields of the lease.
MongoSave(i, inst) == ~Stored(i) /\ Put(i, inst)

SaveInstance(i, inst) ==
  /\ \/ store = "memory" /\ MemorySave(i, inst)
     \/ store = "sqlite" /\ SQLiteSave(i, inst)
     \/ store = "postgres" /\ PostgresSave(i, inst)
     \/ store = "redis" /\ RedisSave(i, inst)
     \/ store = "mongo" /\ MongoSave(i, inst)
  /\ UNCHANGED <<store, index>>

SaveRefused(i) == store \in {"sqlite", "postgres", "mongo"} /\ Stored(i)

-----------------------------------------------------------------------------
(* UpdateInstance, with a copy inst of the instance and the lease l that   *)
(* the copy was loaded with.                                               *)

\* The stored pointer is the one that GetInstance handed out, so the copy is
\* the instance, and its lease the current one.
MemoryUpdate(i, inst) ==
  Stored(i) /\ row' = [row EXCEPT ![i] = inst] /\ UNCHANGED lease

SQLiteUpdate(i, inst, l) ==
  /\ Stored(i)
  /\ row' = [row EXCEPT ![i] = inst]
  /\ lease' = [lease EXCEPT ![i] = l]

PostgresUpdate(i, inst, l) ==
  /\ Stored(i)
  /\ row' = [row EXCEPT ![i] = inst]
  /\ lease' = [lease EXCEPT ![i] = l]

RedisUpdate(i, inst) == row' = [row EXCEPT ![i] = inst] /\ UNCHANGED lease

\* $set names the fields of the version and the fingerprint otherwise than
\* InsertOne and the readers do, so these two stay as they were inserted.
MongoUpdate(i, inst) ==
  /\ Stored(i)
  /\ row' = [row EXCEPT ![i].def.name = inst.def.name, ![i].status = inst.status]
  /\ UNCHANGED lease

UpdateInstance(i, inst, l) ==
  /\ \/ store = "memory" /\ MemoryUpdate(i, inst)
     \/ store = "sqlite" /\ SQLiteUpdate(i, inst, l)
     \/ store = "postgres" /\ PostgresUpdate(i, inst, l)
     \/ store = "redis" /\ RedisUpdate(i, inst)
     \/ store = "mongo" /\ MongoUpdate(i, inst)
  /\ UNCHANGED <<store, index>>

\* Mutant: the set of the new status is left out.
RedisIndexWithoutStatus(i, inst) ==
  index' = index \cup {<<"all", i>>, <<inst.def.name, i>>}

\* The second round trip of SaveInstance and UpdateInstance.
RedisIndex(i, inst) ==
  index' = index \cup {<<"all", i>>, <<inst.def.name, i>>, <<inst.status, i>>}

-----------------------------------------------------------------------------
(* GetInstance and ListInstances.                                          *)

\* The lease fields of a copy; Redis and MongoDB do not load them.
LeaseOfCopy(i) == IF store \in {"sqlite", "postgres"} THEN lease[i] ELSE Free

Matches(i, name, status) ==
  /\ Stored(i)
  /\ name = "" \/ row[i].def.name = name
  /\ status = "" \/ row[i].status = status

MemoryList(name, status) == {i \in Id : Matches(i, name, status)}

SQLiteList(name, status) == {i \in Id : Matches(i, name, status)}

PostgresList(name, status) == {i \in Id : Matches(i, name, status)}

MongoList(name, status) == {i \in Id : Matches(i, name, status)}

\* SINTER or SMEMBERS; what is read under these IDs later is not compared
\* with the filter again.
RedisList(name, status) ==
  LET keys == IF name = "" /\ status = "" THEN {"all"} ELSE {name, status} \ {""} IN
  {i \in Id : \A key \in keys : <<key, i>> \in index}

ListInstances(name, status) ==
  CASE store = "memory" -> MemoryList(name, status)
    [] store = "sqlite" -> SQLiteList(name, status)
    [] store = "postgres" -> PostgresList(name, status)
    [] store = "mongo" -> MongoList(name, status)
    [] store = "redis" -> RedisList(name, status)

-----------------------------------------------------------------------------
(* Leases.                                                                 *)

Open(i, e) == lease[i].owner = NoEngine \/ lease[i].expired \/ lease[i].owner = e

MemoryMayAcquire(i, e) == Open(i, e)

SQLiteMayAcquire(i, e) == Open(i, e)

PostgresMayAcquire(i, e) == Open(i, e)

MongoMayAcquire(i, e) == Open(i, e)

\* Mutant: the script refreshes a lease without comparing its owner.
RedisMayAcquireAny(i, e) == TRUE

\* An expired key is gone.
RedisMayAcquire(i, e) == lease[i].owner \in {NoEngine, e}

MayAcquire(i, e) ==
  CASE store = "memory" -> MemoryMayAcquire(i, e)
    [] store = "sqlite" -> SQLiteMayAcquire(i, e)
    [] store = "postgres" -> PostgresMayAcquire(i, e)
    [] store = "mongo" -> MongoMayAcquire(i, e)
    [] store = "redis" -> RedisMayAcquire(i, e)

TryAcquireLease(i, e) ==
  /\ MayAcquire(i, e)
  /\ lease' = [lease EXCEPT ![i] = [owner |-> e, expired |-> FALSE]]

\* Only the owner renews, also when the lease has expired and nobody took it.
Owns(i, e) == lease[i].owner = e

MemoryRenews(i, e) == Owns(i, e)

SQLiteRenews(i, e) == Owns(i, e)

PostgresRenews(i, e) == Owns(i, e)

MongoRenews(i, e) == Owns(i, e)

RedisRenews(i, e) == Owns(i, e)

Renews(i, e) ==
  CASE store = "memory" -> MemoryRenews(i, e)
    [] store = "sqlite" -> SQLiteRenews(i, e)
    [] store = "postgres" -> PostgresRenews(i, e)
    [] store = "mongo" -> MongoRenews(i, e)
    [] store = "redis" -> RedisRenews(i, e)

RenewLease(i, e) ==
  lease' = IF Renews(i, e) THEN [lease EXCEPT ![i].expired = FALSE] ELSE lease

\* The SQL stores and the one in memory also clear a lease nobody owns.
MemoryReleases(i, e) == lease[i].owner \in {NoEngine, e}

SQLiteReleases(i, e) == lease[i].owner \in {NoEngine, e}

PostgresReleases(i, e) == lease[i].owner \in {NoEngine, e}

MongoReleases(i, e) == Owns(i, e)

RedisReleases(i, e) == Owns(i, e)

Releases(i, e) ==
  CASE store = "memory" -> MemoryReleases(i, e)
    [] store = "sqlite" -> SQLiteReleases(i, e)
    [] store = "postgres" -> PostgresReleases(i, e)
    [] store = "mongo" -> MongoReleases(i, e)
    [] store = "redis" -> RedisReleases(i, e)

\* Mutant: the owner is cleared, and the expiry is not.
ReleaseOwner(i, e) ==
  lease' = IF Releases(i, e) THEN [lease EXCEPT ![i].owner = NoEngine] ELSE lease

ReleaseLease(i, e) ==
  lease' = IF Releases(i, e) THEN [lease EXCEPT ![i] = Free] ELSE lease

\* leaseTTL has passed; Redis drops the key.
LeaseExpires(i) ==
  /\ lease[i].owner # NoEngine /\ ~lease[i].expired
  /\ lease' = [lease EXCEPT ![i] =
                IF store = "redis" THEN Free ELSE [@ EXCEPT !.expired = TRUE]]
=============================================================================
