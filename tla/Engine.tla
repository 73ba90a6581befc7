------------------------------- MODULE Engine -------------------------------
(***************************************************************************)
(* One workflow instance under the engines that share its store:           *)
(* internal/engine/engine_impl.go over the persistent instance stores.     *)
(*                                                                         *)
(* A call is one goroutine inside a method of an engine.  Every statement  *)
(* or script sent to the store is atomic and is one action; the code in    *)
(* between only touches the call's own copy of the instance, and belongs   *)
(* to the action of the next store access.  A step function is invoked in  *)
(* one action and returns in a later one, so anything may happen meanwhile.*)
(* Lease times are reduced to whether the lease has expired.               *)
(***************************************************************************)
EXTENDS Integers, Sequences, FiniteSets

CONSTANTS Engine, NoEngine, \* engineID; the empty lease owner
          Call, EngineOf,   \* goroutines, and the engine each one runs in
          Steps,            \* def.Steps: kind, signal names, attempts allowed
          Signal, Data,     \* signal names; any value that is no signal
          None,             \* no entry in StepResults
          Backend,          \* which store: "sql", "redis" or "mongo"
          Api,              \* the methods that are called
          Solo,             \* calls never overlap
          SlowSteps,        \* a step may outlive the lease that covers it
          StoreMayFail      \* UpdateInstance may return an error

N == Len(Steps)

StepIndex == 0 .. N - 1

Method == {"Run", "Start", "RunInstance", "Resume", "SignalNow", "Signal",
           "GetInstance", "RecoverStuckInstances"}

Kind == {"task", "signal", "any", "children"}

StepDefinition == [kind : Kind, names : SUBSET Signal, attempts : Nat \ {0}]

ASSUME EngineAssumption ==
  /\ NoEngine \notin Engine
  /\ EngineOf \in [Call -> Engine]
  /\ Steps \in Seq(StepDefinition)
  /\ N > 0
  /\ Data \notin Signal /\ None \notin Signal \cup {Data}
  /\ Backend \in {"sql", "redis", "mongo"}
  /\ Api \subseteq Method
  /\ Solo \in BOOLEAN /\ SlowSteps \in BOOLEAN /\ StoreMayFail \in BOOLEAN

VARIABLES row,    \* the stored instance, without its lease
          lease,  \* the stored lease: owner, and whether it has expired
          call    \* the locals of every call

vars == <<row, lease, call>>

Value == Signal \cup {Data}

Status == {"NONE", "PENDING", "RUNNING", "WAITING", "COMPLETED", "FAILED"}

\* Status, CurrentStep, StepResults and Input of a WorkflowInstance.
Instance == [status : Status, step : 0 .. N,
             results : [StepIndex -> Value \cup {None}], input : Value]

Lease == [owner : Engine \cup {NoEngine}, expired : BOOLEAN]

Free == [owner |-> NoEngine, expired |-> FALSE]

NoResults == [k \in StepIndex |-> None]

New(status) == [status |-> status, step |-> 0, results |-> NoResults, input |-> Data]

\* The program points of a call, each named after what comes next.
Point == {"idle", "acquire", "mark", "loop", "top", "attempt", "invoked",
          "release", "deferred", "signal", "recover"}

CallState == [pc : Point, op : Method, inst : Instance, seen : Lease,
              i : 0 .. N, attempt : Nat, current : Value]

IdleCall == [pc |-> "idle", op |-> "Run", inst |-> New("NONE"), seen |-> Free,
             i |-> 0, attempt |-> 1, current |-> Data]

Step(k) == Steps[k + 1]

\* Between acquiring the lease and being done with the steps.
Executing(c) == call[c].pc \in {"mark", "loop", "top", "attempt", "invoked"}

-----------------------------------------------------------------------------
(* The store.                                                              *)

\* The SQL stores also write the lease columns, from the fields of the
\* caller's copy, which hold what GetInstance read.  Redis updates its indexes
\* in a second request, which is in Deployment: here only RecoverBegin reads
\* an index.
Persist(c, new) ==
  \/ /\ row' = new
     /\ lease' = IF Backend = "sql" THEN call[c].seen ELSE lease
  \/ StoreMayFail /\ UNCHANGED <<row, lease>>

MayAcquire(e) == lease.owner \in {NoEngine, e} \/ lease.expired

Held(e) == [owner |-> e, expired |-> FALSE]

\* A renewal revives an expired lease that nobody took over; Redis has
\* deleted it by then.
RenewLease(e) == lease' = IF lease.owner = e THEN Held(e) ELSE lease

\* Mutant: the owner is not compared with the caller.
ReleaseAnyLease(e) == lease' = Free

ReleaseLease(e) == lease' = IF lease.owner = e THEN Free ELSE lease

-----------------------------------------------------------------------------
(* Entry points.                                                           *)

Init ==
  /\ row = New("NONE")
  /\ lease = Free
  /\ call = [c \in Call |-> IdleCall]

MayCall(c, m) ==
  /\ m \in Api
  /\ call[c].pc = "idle"
  /\ Solo => \A d \in Call : call[d].pc = "idle"

\* Run does not take the lease.
Run(c) ==
  /\ MayCall(c, "Run")
  /\ row.status = "NONE"
  /\ row' = New("RUNNING")
  /\ call' = [call EXCEPT ![c] = [IdleCall EXCEPT !.pc = "loop", !.inst = New("RUNNING")]]
  /\ UNCHANGED lease

\* Start hands the instance to a worker, which calls RunInstance.
Start(c) ==
  /\ MayCall(c, "Start")
  /\ row.status = "NONE"
  /\ row' = New("PENDING")
  /\ UNCHANGED <<lease, call>>

\* GetInstance of the store, and the check of the status that follows it.
Load(c, m, pc, v) ==
  /\ MayCall(c, m)
  /\ call' = [call EXCEPT ![c] = [IdleCall EXCEPT !.pc = pc, !.op = m, !.inst = row,
                                                  !.seen = lease, !.current = v]]
  /\ UNCHANGED <<row, lease>>

RunInstance(c) == row.status # "NONE" /\ Load(c, "RunInstance", "acquire", Data)

\* The registered definition does not have its own fingerprint: the instance
\* is to be stored as FAILED, by a caller without the lease.
RunInstanceRefused(c) == row.status # "NONE" /\ Load(c, "RunInstance", "recover", Data)

Resume(c) == row.status = "FAILED" /\ Load(c, "Resume", "acquire", Data)

SignalNow(c, s) == row.status = "WAITING" /\ Load(c, "SignalNow", "acquire", s)

SignalBegin(c, s) == row.status = "WAITING" /\ Load(c, "Signal", "signal", s)

\* Redis finds the instance through an index that may not list it, so there
\* nothing says that this is ever done (see FairSpec); a stale listing is
\* skipped.
RecoverBegin(c) ==
  row.status = "RUNNING" /\ Load(c, "RecoverStuckInstances", "recover", Data)

Return(c) == call' = [call EXCEPT ![c] = IdleCall]

\* resumeInline and signalInline release the lease once more on the way out.
Deferred(c) == call[c].op \in {"Resume", "SignalNow"}

ReturnThroughDefer(c) ==
  IF Deferred(c) THEN call' = [call EXCEPT ![c].pc = "deferred"] ELSE Return(c)

\* Signal with a queue: stores the payload and leaves the rest to a worker.
SignalStore(c) ==
  /\ call[c].pc = "signal"
  /\ Persist(c, [call[c].inst EXCEPT !.input = call[c].current])
  /\ Return(c)

\* Mutant: the recovered instance is counted but not written back.
RecoverStoreForgets(c) ==
  /\ call[c].pc = "recover"
  /\ Return(c)
  /\ UNCHANGED <<row, lease>>

\* Also the end of RunInstanceRefused.
RecoverStore(c) ==
  /\ call[c].pc = "recover"
  /\ Persist(c, [call[c].inst EXCEPT !.status = "FAILED"])
  /\ Return(c)

\* The inspection method of the engine releases the engine's own lease.
GetInstance(e) ==
  /\ "GetInstance" \in Api
  /\ row.status # "NONE"
  /\ ReleaseLease(e)
  /\ UNCHANGED <<row, call>>

Acquire(c) ==
  /\ call[c].pc = "acquire"
  /\ \/ /\ MayAcquire(EngineOf[c])
        /\ lease' = Held(EngineOf[c])
        /\ call' = [call EXCEPT ![c].pc = "mark"]
     \/ /\ ~MayAcquire(EngineOf[c])
        /\ Return(c)
        /\ UNCHANGED lease
  /\ UNCHANGED row

\* Mutant: StepResults is reset together with the other runtime fields.
MarkedFromScratch(c) ==
  [call[c].inst EXCEPT !.status = "RUNNING", !.step = 0, !.results = NoResults]

\* Mutant: SignalNow goes on after the waiting step.
MarkedPastWait(c) ==
  IF call[c].op = "SignalNow"
  THEN [call[c].inst EXCEPT !.status = "RUNNING", !.step = @ + 1, !.input = call[c].current]
  ELSE [call[c].inst EXCEPT !.status = "RUNNING", !.step = 0]

\* Mutant: the status of an instance that is signalled stays WAITING.
MarkedStillWaiting(c) ==
  IF call[c].op = "SignalNow"
  THEN [call[c].inst EXCEPT !.input = call[c].current]
  ELSE [call[c].inst EXCEPT !.status = "RUNNING", !.step = 0]

\* The instance as it is marked before its steps run: SignalNow goes on at
\* the waiting step with the signal as input, the others replay from step 0.
Marked(c) ==
  IF call[c].op = "SignalNow"
  THEN [call[c].inst EXCEPT !.status = "RUNNING", !.input = call[c].current]
  ELSE [call[c].inst EXCEPT !.status = "RUNNING", !.step = 0]

Mark(c) ==
  /\ call[c].pc = "mark"
  /\ row' = Marked(c)
  /\ lease' = IF Backend = "sql" THEN call[c].seen ELSE lease
  /\ call' = [call EXCEPT ![c].pc = "loop",
                          ![c].inst = Marked(c),
                          ![c].i = Marked(c).step,
                          ![c].current = Marked(c).input]

\* The store fails, or the definition is unknown or has another fingerprint.
MarkFails(c) ==
  /\ call[c].pc = "mark"
  /\ StoreMayFail \/ Deferred(c)
  /\ ReturnThroughDefer(c)
  /\ UNCHANGED <<row, lease>>

-----------------------------------------------------------------------------
(* executeSteps.                                                           *)

\* c stores its copy as inst and goes on at pc.
Store(c, inst, pc, i, attempt, v) ==
  /\ Persist(c, inst)
  /\ call' = [call EXCEPT ![c].pc = pc, ![c].inst = inst, ![c].i = i,
                          ![c].attempt = attempt, ![c].current = v]

Renew(c) ==
  /\ call[c].pc = "loop"
  /\ call[c].i < N
  /\ RenewLease(EngineOf[c])
  /\ call' = [call EXCEPT ![c].pc = "top"]
  /\ UNCHANGED row

Skip(c) ==
  LET i == call[c].i  inst == call[c].inst IN
  /\ call[c].pc = "top"
  /\ inst.results[i] # None
  /\ Store(c, [inst EXCEPT !.step = i + 1], "loop", i + 1, 1, inst.results[i])

\* Mutant: the cached result of the step is not looked up.
EnterAlways(c) ==
  /\ call[c].pc = "top"
  /\ Store(c, [call[c].inst EXCEPT !.step = call[c].i], "attempt", call[c].i, 1,
           call[c].current)

Enter(c) ==
  LET i == call[c].i  inst == call[c].inst IN
  /\ call[c].pc = "top"
  /\ inst.results[i] = None
  /\ Store(c, [inst EXCEPT !.step = i], "attempt", i, 1, call[c].current)

\* The context is done at the start of an attempt, or during the backoff
\* before it.  Neither path releases the lease.
Cancel(c) ==
  LET failed == [call[c].inst EXCEPT !.status = "FAILED"] IN
  /\ call[c].pc = "attempt"
  /\ Persist(c, failed)
  /\ ReturnThroughDefer(c)

Invoke(c) ==
  /\ call[c].pc = "attempt"
  /\ call' = [call EXCEPT ![c].pc = "invoked"]
  /\ UNCHANGED <<row, lease>>

Waits(k) == Step(k).kind \in {"signal", "any"}

\* WaitForSignalStep returns the data of the signal, WaitForAnySignalStep
\* the signal itself.
Returned(k, v) == IF Step(k).kind = "any" THEN v ELSE Data

Succeed(c) ==
  LET i == call[c].i
      v == Returned(i, call[c].current) IN
  /\ call[c].pc = "invoked"
  /\ Waits(i) => call[c].current \in Step(i).names
  /\ Store(c, [call[c].inst EXCEPT !.results[i] = v], "loop", i + 1, 1, v)

\* The step asks to wait for a signal or for children.
Park(c) ==
  LET i == call[c].i IN
  /\ call[c].pc = "invoked"
  /\ Step(i).kind # "task"
  /\ Waits(i) => call[c].current \notin Step(i).names
  /\ Store(c, [call[c].inst EXCEPT !.status = "WAITING"], "release", i, 1, Data)

Retry(c) ==
  LET i == call[c].i IN
  /\ call[c].pc = "invoked"
  /\ ~Waits(i)
  /\ call[c].attempt < Step(i).attempts
  /\ call' = [call EXCEPT ![c].pc = "attempt", ![c].attempt = @ + 1]
  /\ UNCHANGED <<row, lease>>

Fail(c) ==
  LET i == call[c].i IN
  /\ call[c].pc = "invoked"
  /\ ~Waits(i)
  /\ call[c].attempt = Step(i).attempts
  /\ Store(c, [call[c].inst EXCEPT !.status = "FAILED"], "release", i, 1, Data)

\* Mutant: the loop ends one step early.
CompleteEarly(c) ==
  /\ call[c].pc = "loop"
  /\ call[c].i >= N - 1
  /\ Store(c, [call[c].inst EXCEPT !.status = "COMPLETED", !.step = N],
           "release", N, 1, Data)

\* Mutant: CurrentStep is advanced past the last step.
CompletePastEnd(c) ==
  /\ call[c].pc = "loop"
  /\ call[c].i = N
  /\ Store(c, [call[c].inst EXCEPT !.status = "COMPLETED", !.step = @ + 1],
           "release", N, 1, Data)

Complete(c) ==
  /\ call[c].pc = "loop"
  /\ call[c].i = N
  /\ Store(c, [call[c].inst EXCEPT !.status = "COMPLETED", !.step = N],
           "release", N, 1, Data)

Release(c) ==
  /\ call[c].pc = "release"
  /\ ReleaseLease(EngineOf[c])
  /\ ReturnThroughDefer(c)
  /\ UNCHANGED row

DeferredRelease(c) ==
  /\ call[c].pc = "deferred"
  /\ ReleaseLease(EngineOf[c])
  /\ Return(c)
  /\ UNCHANGED row

-----------------------------------------------------------------------------
(* The environment.                                                        *)

\* The process of an engine dies; its calls are gone, the store is not.
Crash(e) ==
  /\ \E c \in Call : EngineOf[c] = e /\ call[c].pc # "idle"
  /\ call' = [c \in Call |-> IF EngineOf[c] = e THEN IdleCall ELSE call[c]]
  /\ UNCHANGED <<row, lease>>

\* leaseTTL has passed since the last renewal.
Expire ==
  /\ lease.owner # NoEngine /\ ~lease.expired
  /\ SlowSteps \/ \A c \in Call : Executing(c) => EngineOf[c] # lease.owner
  /\ lease' = IF Backend = "redis" THEN Free ELSE [lease EXCEPT !.expired = TRUE]
  /\ UNCHANGED <<row, call>>

Begin(c) ==
  \/ Run(c) \/ Start(c) \/ RunInstance(c) \/ RunInstanceRefused(c)
  \/ Resume(c) \/ RecoverBegin(c)
  \/ \E s \in Signal : SignalNow(c, s) \/ SignalBegin(c, s)

Proceed(c) ==
  \/ SignalStore(c) \/ RecoverStore(c)
  \/ Acquire(c) \/ Mark(c) \/ MarkFails(c)
  \/ Renew(c) \/ Skip(c) \/ Enter(c)
  \/ Cancel(c) \/ Invoke(c)
  \/ Succeed(c) \/ Park(c) \/ Retry(c) \/ Fail(c)
  \/ Complete(c) \/ Release(c) \/ DeferredRelease(c)

Next ==
  \/ \E c \in Call : Begin(c) \/ Proceed(c)
  \/ \E e \in Engine : GetInstance(e) \/ Crash(e)
  \/ Expire

Spec == Init /\ [][Next]_vars

\* Goroutines are scheduled, steps return, and a restarted process gets
\* through its recovery now and then, however often it crashes otherwise.
\* Recovery sees every RUNNING instance of a store that filters by status.
FairSpec ==
  /\ Spec
  /\ \A c \in Call : WF_vars(Proceed(c))
  /\ Backend # "redis" => SF_vars(\E c \in Call : RecoverBegin(c))
  /\ SF_vars(\E c \in Call : RecoverStore(c))

-----------------------------------------------------------------------------
TypeOK ==
  /\ row \in Instance
  /\ lease \in Lease
  /\ call \in [Call -> CallState]

\* A status that claims no more than the results show: a COMPLETED instance
\* has the result of every step, a WAITING one those of all steps before
\* CurrentStep, where it is parked at a step that can wait and has none.
Earned(inst) ==
  /\ inst.status = "COMPLETED" =>
       inst.step = N /\ \A k \in StepIndex : inst.results[k] # None
  /\ inst.status = "WAITING" =>
       /\ inst.step \in StepIndex
       /\ Step(inst.step).kind # "task"
       /\ inst.results[inst.step] = None
       /\ \A k \in 0 .. inst.step - 1 : inst.results[k] # None

\* The status in the store is earned by the results in the store, however
\* calls, stale copies, crashes and failing writes interleave.
StatusIsEarned == Earned(row)

\* The results of an instance are those of its first steps, in a row: there is
\* no result without those of all steps before it, and none is missing before
\* CurrentStep.
InOrder(inst) ==
  /\ \A k \in StepIndex : inst.results[k] # None =>
       \A j \in 0 .. k - 1 : inst.results[j] # None
  /\ \A j \in 0 .. inst.step - 1 : inst.results[j] # None

\* StepResults and CurrentStep in the store agree on how far the instance got,
\* so that a replay skips a beginning of the workflow and nothing after it,
\* also when a stale copy was written over a newer row.
ResultsInOrder == InOrder(row)

\* The lease does what WorkflowInstance says it is for: no two calls execute
\* the steps of the instance at the same time.
LeaseExclusive ==
  \A c, d \in Call : Executing(c) /\ Executing(d) => c = d

\* Step-level idempotency: a step whose result is in the store is not invoked
\* again, whether the instance is resumed, signalled, run again or recovered
\* after a crash.
NoStepRepeated ==
  [][\A c \in Call : Invoke(c) => row.results[call[c].i] = None]_vars

\* A result that reached the store stays there: no later write of the row
\* drops or changes it.
ResultsAreKept ==
  [][\A k \in StepIndex : row.results[k] # None => row'.results[k] = row.results[k]]_vars

Abstract == INSTANCE Lifecycle WITH status <- row.status, results <- row.results

\* Calls that do not overlap take the stored instance through the life that the
\* Engine interface describes: only a RUNNING instance gets results, in order,
\* and only a RUNNING one completes or waits; whatever starts, interrupts or
\* recovers it leaves the results alone.
KeepsLifecycle == Abstract!Spec

\* No instance stays RUNNING for ever: it completes, fails or waits, also when
\* the process that runs it crashes, provided recovery is run and the store is
\* one that finds it: MongoDB or a SQL database.
RunningSettles == row.status = "RUNNING" ~> row.status # "RUNNING"
=============================================================================
