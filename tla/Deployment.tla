----------------------------- MODULE Deployment -----------------------------
(***************************************************************************)
(* Engine processes that share an instance store, over several instances   *)
(* and several deployments: internal/engine/engine_impl.go with the        *)
(* registry of workflow definitions (internal/persistence/memory_store.go) *)
(* and the stores of InstanceStore.                                        *)
(*                                                                         *)
(* A process registers definitions, creates instances with IDs that it     *)
(* counts from 1, runs, resumes and signals stored ones, and recovers the  *)
(* ones left RUNNING.  When it dies, the one that replaces it may come     *)
(* with other definitions.  A call is a goroutine in a process; between    *)
(* two accesses to the store the others may act.  How the steps of an      *)
(* instance run is left to Engine: here they end in some status.           *)
(***************************************************************************)
EXTENDS InstanceStore

CONSTANTS Call, EngineOf, \* goroutines, and the process each one belongs to
          MaxCalls,       \* bound on the calls of the API, GetInstance aside
          MaxCrashes      \* bound on the crashes

ASSUME DeploymentAssumption ==
  /\ Id \subseteq Nat /\ 1 \in Id
  /\ Engine # {} /\ NoEngine \notin Engine
  /\ EngineOf \in [Call -> Engine]
  /\ MaxCalls \in Nat /\ MaxCrashes \in Nat
  /\ \A d \in Definition : d = [name |-> d.name, version |-> d.version,
                                fingerprint |-> d.fingerprint]
  /\ Absent \notin Instance \cup Definition

VARIABLES process, \* every process: nextID, registry, registrations under way
          call,    \* the locals of every call
          created, \* history: how often an instance was created under an ID
          torn,    \* history: IDs whose index was once not updated to RUNNING
          surrendered, \* history: IDs whose lease an engine released while
                       \* another of its calls executed the instance
          calls, crashes \* how many there were so far

vars == <<store, row, lease, index, process, call, created, torn, surrendered, calls, crashes>>

\* The registry maps names to versions to definitions.
VersionOf(d) == <<d.name, d.version>>

Version == {VersionOf(d) : d \in Definition}

Process == [nextID : Nat, registry : [Version -> Definition \cup {Absent}],
            checked : SUBSET Definition]

NewProcess == [nextID |-> 0, registry |-> [v \in Version |-> Absent], checked |-> {}]

Op == {"Run", "Start", "RunInstance", "Resume", "SignalNow", "Recover"}

Point == {"idle", "save", "index", "acquire", "mark", "exec", "release", "deferred",
          "fetch", "recover"}

\* resumeInline and signalInline release the lease on the way out, too.
Deferring == {"Resume", "SignalNow"}

Copy == [inst : Instance, seen : Lease]

\* then: where to go on after an update of the index; def: the definition that
\* was looked up; todo: what ListInstances returned.
CallState == [pc : Point, then : Point, op : Op, id : Id,
              inst : Instance \cup {Absent}, seen : Lease,
              def : Definition \cup {Absent},
              ids : SUBSET Id, todo : [Id -> Copy \cup {Absent}]]

NoList == [i \in Id |-> Absent]

IdleCall == [pc |-> "idle", then |-> "idle", op |-> "Run", id |-> 1,
             inst |-> Absent, seen |-> Free, def |-> Absent,
             ids |-> {}, todo |-> NoList]

Init ==
  /\ StoreInit
  /\ process = [e \in Engine |-> NewProcess]
  /\ call = [c \in Call |-> IdleCall]
  /\ created = [i \in Id |-> 0]
  /\ torn = {}
  /\ surrendered = {}
  /\ calls = 0
  /\ crashes = 0

\* A store in memory has one process.
Local == CHOOSE e \in Engine : TRUE

Running == IF store = "memory" THEN {Local} ELSE Engine

Eng(c) == IF store = "memory" THEN Local ELSE EngineOf[c]

\* The instance as the call sees it: in memory, the stored one itself.
Seen(c) == IF store = "memory" THEN row[call[c].id] ELSE call[c].inst

Idle(c) == call[c].pc = "idle"

Calls == calls < MaxCalls /\ calls' = calls + 1

Return(c) == call' = [call EXCEPT ![c] = IdleCall]

\* The call goes on at pc after a write; Redis has the index to update first.
GoOn(c, state, pc) ==
  call' = [call EXCEPT ![c] = IF store = "redis"
                              THEN [state EXCEPT !.pc = "index", !.then = pc]
                              ELSE IF pc = "idle" THEN IdleCall
                              ELSE [state EXCEPT !.pc = pc]]

-----------------------------------------------------------------------------
(* The registry.                                                           *)

\* GetWorkflow(name, version): what is registered under it, if anything is.
Registered(e, d) == {process[e].registry[VersionOf(d)]} \ {Absent}

\* GetLatestWorkflow, which finds nothing when there are several versions.
IsOnlyVersion(e, d) ==
  \A v \in Version : v[1] = d.name /\ process[e].registry[v] # Absent => v = VersionOf(d)

\* The check of RegisterWorkflow.  A version that is registered already makes
\* it return, with an error if the fingerprints differ.
RegisterCheck(e, d) ==
  /\ Calls
  /\ e \in Running
  /\ Registered(e, d) = {}
  /\ d \notin process[e].checked
  /\ process' = [process EXCEPT ![e].checked = @ \cup {d}]
  /\ UNCHANGED <<storeVars, call, created, torn, surrendered, crashes>>

\* Mutant: the definition is stored over an existing one.
SaveWorkflowAnyway(e, d) ==
  process' = [process EXCEPT ![e].checked = @ \ {d}, ![e].registry[VersionOf(d)] = d]

\* SaveWorkflow refuses a version that exists by now.
SaveWorkflow(e, d) ==
  process' = [process EXCEPT
    ![e].checked = @ \ {d},
    ![e].registry[VersionOf(d)] = IF @ = Absent THEN d ELSE @]

RegisterSave(e, d) ==
  /\ d \in process[e].checked
  /\ SaveWorkflow(e, d)
  /\ UNCHANGED <<storeVars, call, created, torn, surrendered, calls, crashes>>

-----------------------------------------------------------------------------
(* New instances.                                                          *)

nextInstanceID(e) == process[e].nextID + 1

\* Run and Start, or with any registered version RunVersion and StartVersion.
Create(c, d, op) ==
  LET e == Eng(c) IN
  /\ Calls
  /\ Idle(c)
  /\ d \in Registered(e, d)
  /\ nextInstanceID(e) \in Id
  /\ process' = [process EXCEPT ![e].nextID = nextInstanceID(e)]
  /\ call' = [call EXCEPT ![c] =
       [IdleCall EXCEPT !.pc = "save", !.op = op, !.id = nextInstanceID(e), !.def = d,
          !.inst = [def |-> d, status |-> IF op = "Run" THEN "RUNNING" ELSE "PENDING"]]]
  /\ UNCHANGED <<storeVars, created, torn, surrendered, crashes>>

Run(c, d) == IsOnlyVersion(Eng(c), d) /\ Create(c, d, "Run")

RunVersion(c, d) == ~IsOnlyVersion(Eng(c), d) /\ Create(c, d, "Run")

Start(c, d) == IsOnlyVersion(Eng(c), d) /\ Create(c, d, "Start")

StartVersion(c, d) == ~IsOnlyVersion(Eng(c), d) /\ Create(c, d, "Start")

\* Start goes on to enqueue a task, see Worker.
Save(c) ==
  LET i == call[c].id IN
  /\ call[c].pc = "save"
  /\ SaveInstance(i, call[c].inst)
  /\ created' = [created EXCEPT ![i] = @ + 1]
  /\ GoOn(c, call[c], IF call[c].op = "Run" THEN "exec" ELSE "idle")
  /\ UNCHANGED <<process, torn, surrendered, calls, crashes>>

\* The caller gets the error of the store.
SaveFails(c) ==
  /\ call[c].pc = "save"
  /\ SaveRefused(call[c].id)
  /\ Return(c)
  /\ UNCHANGED <<storeVars, process, created, torn, surrendered, calls, crashes>>

IndexPending(c) == call[c].pc = "index" /\ call[c].inst.status = "RUNNING"

\* The error of the pipeline is ignored: the indexes may stay as they were.
UpdateIndex(c) ==
  /\ call[c].pc = "index"
  /\ \/ RedisIndex(call[c].id, call[c].inst) /\ UNCHANGED torn
     \/ /\ torn' = IF IndexPending(c) THEN torn \cup {call[c].id} ELSE torn
        /\ UNCHANGED index
  /\ call' = [call EXCEPT ![c] = IF @.then = "idle" THEN IdleCall
                                 ELSE [@ EXCEPT !.pc = call[c].then]]
  /\ UNCHANGED <<store, row, lease, process, created, surrendered, calls, crashes>>

-----------------------------------------------------------------------------
(* Stored instances.                                                       *)

Load(c, i, op, d) ==
  /\ Calls
  /\ Idle(c)
  /\ Stored(i)
  /\ call' = [call EXCEPT ![c] =
       [IdleCall EXCEPT !.pc = "acquire", !.op = op, !.id = i, !.def = d,
          !.inst = row[i], !.seen = LeaseOfCopy(i)]]
  /\ UNCHANGED <<storeVars, process, created, torn, surrendered, crashes>>

\* RunInstance looks the definition up first, and does not compare it with
\* the fingerprint of the instance.  validateWorkflowFingerprint computes the
\* one of the definition again, as RegisterWorkflow did for definitions that
\* came without one, as those of Definition do.
RunInstance(c, i) ==
  /\ Stored(i)
  /\ \E d \in Registered(Eng(c), row[i].def) : Load(c, i, "RunInstance", d)

ResumeInline(c, i) == Stored(i) /\ row[i].status = "FAILED" /\ Load(c, i, "Resume", Absent)

SignalInline(c, i) == Stored(i) /\ row[i].status = "WAITING" /\ Load(c, i, "SignalNow", Absent)

Acquire(c) ==
  LET i == call[c].id  e == Eng(c) IN
  /\ call[c].pc = "acquire"
  /\ TryAcquireLease(i, e)
  /\ call' = [call EXCEPT ![c].pc = "mark"]
  /\ UNCHANGED <<store, row, index, process, created, torn, surrendered, calls, crashes>>

\* ErrWorkflowInstanceLocked.
AcquireFails(c) ==
  /\ call[c].pc = "acquire"
  /\ ~MayAcquire(call[c].id, Eng(c))
  /\ Return(c)
  /\ UNCHANGED <<storeVars, process, created, torn, surrendered, calls, crashes>>

\* Mutant: resumeInline and signalInline take any fingerprint of the version.
AnyFingerprint(c) ==
  IF call[c].op = "RunInstance" THEN {call[c].def} ELSE Registered(Eng(c), Seen(c).def)

\* The definitions a call may go on with: one at most.  resumeInline and
\* signalInline compare the fingerprints.
Usable(c) ==
  IF call[c].op = "RunInstance" THEN {call[c].def}
  ELSE {d \in Registered(Eng(c), Seen(c).def) : d.fingerprint = Seen(c).def.fingerprint}

\* inst.Status = status in the call's copy, and UpdateInstance.
Write(c, status, d, pc) ==
  LET inst == [Seen(c) EXCEPT !.status = status] IN
  /\ UpdateInstance(call[c].id, inst, call[c].seen)
  /\ GoOn(c, [call[c] EXCEPT !.inst = inst, !.def = d], pc)
  /\ UNCHANGED <<process, created, torn, surrendered, calls, crashes>>

Mark(c) ==
  /\ call[c].pc = "mark"
  /\ \E d \in Usable(c) : Write(c, "RUNNING", d, "exec")

\* The workflow is not registered, or ErrWorkflowDefinitionMismatch.
MarkFails(c) ==
  /\ call[c].pc = "mark"
  /\ Usable(c) = {}
  /\ call' = [call EXCEPT ![c].pc = "deferred"]
  /\ UNCHANGED <<storeVars, process, created, torn, surrendered, calls, crashes>>

\* The call holds the lease, as far as it knows, and works on the instance.
Executes(c, i) ==
  /\ call[c].id = i /\ call[c].pc \in {"mark", "index", "exec"}
  /\ call[c].op \in {"RunInstance", "Resume", "SignalNow"}

\* executeSteps renews the lease before every step.
Renew(c) ==
  /\ call[c].pc = "exec"
  /\ RenewLease(call[c].id, Eng(c))
  /\ UNCHANGED <<store, row, index, process, call, created, torn, surrendered, calls, crashes>>

Finish(c) ==
  /\ call[c].pc = "exec"
  /\ \E s \in {"COMPLETED", "WAITING", "FAILED"} : Write(c, s, call[c].def, "release")

\* releaseInstanceLease, which knows the engine and not the call.
GiveUp(e, i, others) ==
  /\ ReleaseLease(i, e)
  /\ surrendered' = IF \E c \in others : Executes(c, i) /\ Eng(c) = e
                    THEN surrendered \cup {i} ELSE surrendered

\* The last thing that executeSteps does.
Release(c) ==
  /\ call[c].pc = "release"
  /\ GiveUp(Eng(c), call[c].id, Call \ {c})
  /\ call' = [call EXCEPT ![c] = IF @.op \in Deferring THEN [@ EXCEPT !.pc = "deferred"]
                                 ELSE IdleCall]
  /\ UNCHANGED <<store, row, index, process, created, torn, calls, crashes>>

DeferredRelease(c) ==
  /\ call[c].pc = "deferred"
  /\ GiveUp(Eng(c), call[c].id, Call \ {c})
  /\ Return(c)
  /\ UNCHANGED <<store, row, index, process, created, torn, calls, crashes>>

\* The context was cancelled: executeSteps returns without a release.
Cancelled(c) ==
  /\ call[c].pc = "exec"
  /\ Write(c, "FAILED", call[c].def, IF call[c].op \in Deferring THEN "deferred" ELSE "idle")

\* The inspection method: refuses an instance of another fingerprint, and
\* releases the lease of its own engine otherwise.
GetInstance(e, i) ==
  /\ e \in Running /\ Stored(i)
  /\ \A d \in Registered(e, row[i].def) : d.fingerprint = row[i].def.fingerprint
  /\ GiveUp(e, i, Call)
  /\ UNCHANGED <<store, row, index, process, call, created, torn, calls, crashes>>

-----------------------------------------------------------------------------
(* RecoverStuckInstances.                                                  *)

CopyOf(i) == IF Stored(i) THEN [inst |-> row[i], seen |-> LeaseOfCopy(i)] ELSE Absent

\* Called on startup, before the process executes anything.
RecoverList(c) ==
  LET ids == ListInstances("", "RUNNING") IN
  /\ Calls
  /\ \A d \in Call : Eng(d) = Eng(c) => Idle(d)
  /\ ids # {}
  /\ call' = [call EXCEPT ![c] =
       IF store = "redis" THEN [IdleCall EXCEPT !.pc = "fetch", !.op = "Recover", !.ids = ids]
       ELSE [IdleCall EXCEPT !.pc = "recover", !.op = "Recover",
               !.todo = [i \in Id |-> IF i \in ids THEN CopyOf(i) ELSE Absent]]]
  /\ UNCHANGED <<storeVars, process, created, torn, surrendered, crashes>>

\* Redis reads the instances in a second round trip.
RecoverFetch(c) ==
  /\ call[c].pc = "fetch"
  /\ call' = [call EXCEPT ![c].pc = "recover", ![c].ids = {},
               ![c].todo = [i \in Id |-> IF i \in call[c].ids THEN CopyOf(i) ELSE Absent]]
  /\ UNCHANGED <<storeVars, process, created, torn, surrendered, calls, crashes>>

\* One copy after the other, in whatever order the store returned them.
\* Nothing is written for one that is not RUNNING.
RecoverNext(c) ==
  /\ call[c].pc = "recover"
  /\ \E i \in Id :
       LET copy == IF store = "memory" THEN CopyOf(i) ELSE call[c].todo[i]
           rest == [call[c] EXCEPT !.todo[i] = Absent]
           pc == IF rest.todo = NoList THEN "idle" ELSE "recover"
           inst == [copy.inst EXCEPT !.status = "FAILED"] IN
       /\ call[c].todo[i] # Absent
       /\ \/ /\ copy.inst.status = "RUNNING"
             /\ UpdateInstance(i, inst, copy.seen)
             /\ GoOn(c, [rest EXCEPT !.id = i, !.inst = inst], pc)
          \/ /\ copy.inst.status # "RUNNING"
             /\ call' = [call EXCEPT ![c] = IF pc = "idle" THEN IdleCall ELSE rest]
             /\ UNCHANGED storeVars
  /\ UNCHANGED <<process, created, torn, surrendered, calls, crashes>>

-----------------------------------------------------------------------------
(* The environment.                                                        *)

\* A process dies and is replaced.  What was in memory is gone.
Crash(e) ==
  LET dead == {c \in Call : Eng(c) = e} IN
  /\ e \in Running
  /\ crashes < MaxCrashes
  /\ crashes' = crashes + 1
  /\ process' = [process EXCEPT ![e] = NewProcess]
  /\ call' = [c \in Call |-> IF c \in dead THEN IdleCall ELSE call[c]]
  /\ torn' = torn \cup {call[c].id : c \in {d \in dead : IndexPending(d)}}
  /\ IF store = "memory"
     THEN /\ row' = [i \in Id |-> Absent] /\ lease' = [i \in Id |-> Free]
          /\ created' = [i \in Id |-> 0]
     ELSE UNCHANGED <<row, lease, created>>
  /\ UNCHANGED <<store, index, surrendered, calls>>

\* Steps are shorter than the lease.
Expire(i) ==
  /\ \A c \in Call : Executes(c, i) => Eng(c) # lease[i].owner
  /\ LeaseExpires(i)
  /\ UNCHANGED <<store, row, index, process, call, created, torn, surrendered, calls, crashes>>

Proceed(c) ==
  \/ Save(c) \/ SaveFails(c) \/ UpdateIndex(c)
  \/ Acquire(c) \/ AcquireFails(c) \/ Mark(c) \/ MarkFails(c)
  \/ Finish(c) \/ Cancelled(c) \/ Release(c) \/ DeferredRelease(c)
  \/ RecoverFetch(c) \/ RecoverNext(c)

Next ==
  \/ \E e \in Engine :
       \/ Crash(e)
       \/ \E d \in Definition : RegisterCheck(e, d) \/ RegisterSave(e, d)
       \/ \E i \in Id : GetInstance(e, i)
  \/ \E c \in Call :
       \/ Proceed(c) \/ Renew(c) \/ RecoverList(c)
       \/ \E d \in Definition : Run(c, d) \/ RunVersion(c, d) \/ Start(c, d) \/ StartVersion(c, d)
       \/ \E i \in Id : RunInstance(c, i) \/ ResumeInline(c, i) \/ SignalInline(c, i)
  \/ \E i \in Id : Expire(i)

Spec == Init /\ [][Next]_vars

-----------------------------------------------------------------------------
TypeOK ==
  /\ store \in Store
  /\ row \in [Id -> Instance \cup {Absent}]
  /\ lease \in [Id -> Lease]
  /\ index \subseteq IndexKey \X Id
  /\ process \in [Engine -> Process]
  /\ call \in [Call -> CallState]
  /\ created \in [Id -> Nat]
  /\ torn \subseteq Id /\ surrendered \subseteq Id
  /\ calls \in 0 .. MaxCalls /\ crashes \in 0 .. MaxCrashes

\* What is registered under a version stays for as long as the process lives,
\* although RegisterWorkflow checks and saves in two steps, between which
\* another call may register the version with another fingerprint, and an
\* instance be started with that.
DefinitionKept ==
  [][\A e \in Engine, v \in Version :
       process[e].registry[v] # Absent /\ crashes' = crashes =>
         process'[e].registry[v] = process[e].registry[v]]_vars

\* IDs are counted from 1 in every process, so processes that share a store,
\* or follow each other, use the same ones.  SQLite, PostgreSQL and MongoDB
\* refuse the second instance of an ID; Redis replaces the first one.
IdUsedOnce == store # "redis" => \A i \in Id : created[i] <= 1

\* Recovery finds what it has to recover: a RUNNING instance is among those
\* ListInstances returns for that status, except while Redis' index is being
\* updated, or if that failed or the process died before it: then the instance
\* may stay unlisted, and is not recovered.  No other step, store or status
\* does that.
RunningIsListed ==
  \A i \in Id :
    Stored(i) /\ row[i].status = "RUNNING" =>
      \/ i \in ListInstances("", "RUNNING")
      \/ i \in torn
      \/ \E c \in Call : IndexPending(c) /\ call[c].id = i

RunsAsStarted(c) == call[c].pc = "exec" => call[c].def = row[call[c].id].def

\* Deterministic replay: an instance goes on with the definition that it was
\* started with, whatever processes with other definitions are deployed, as
\* long as no other instance takes its place (see IdUsedOnce).
ReplayedAsStarted == store # "redis" => \A c \in Call : RunsAsStarted(c)

\* resumeInline and signalInline, which compare the fingerprints before they
\* execute anything, do keep to that.
ResumedAsStarted ==
  store # "redis" => \A c \in Call : call[c].op \in {"Resume", "SignalNow"} => RunsAsStarted(c)

\* Redis and MongoDB keep the lease apart from the updates, and so let calls of
\* one engine only execute a stored instance, unless that engine released the
\* lease behind its own back, which GetInstance and a second call of it do.
\* Run is left out: it executes the instance it created without a lease.
ExecutorsExclude ==
  store \in {"redis", "mongo"} =>
    \A i \in Id \ surrendered : \A c, d \in Call :
      Executes(c, i) /\ Executes(d, i) => Eng(c) = Eng(d)
=============================================================================
