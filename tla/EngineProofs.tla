---------------------------- MODULE EngineProofs ----------------------------
(***************************************************************************)
(* Proofs about Engine, for any number of engines, calls and steps.        *)
(***************************************************************************)
EXTENDS Engine, TLAPS

\* What a call knows of its own copy of the instance.
LocalInv(x) ==
  /\ Earned(x.inst)
  /\ x.pc \in {"acquire", "mark"} /\ x.op = "SignalNow" => x.inst.status = "WAITING"
  /\ x.pc \in {"loop", "top", "attempt", "invoked"} =>
       /\ x.inst.status = "RUNNING"
       /\ \A k \in 0 .. x.i - 1 : x.inst.results[k] # None
  /\ x.pc = "top" => x.i < N
  /\ x.pc \in {"attempt", "invoked"} =>
       x.i < N /\ x.inst.step = x.i /\ x.inst.results[x.i] = None

\* The inductive invariant.  A write replaces the whole row by the copy of
\* one call, so the row is earned because every copy is; a copy is earned
\* when it parks or completes because the loop only moves past a step whose
\* result the copy holds.
Inv ==
  /\ TypeOK
  /\ Earned(row)
  /\ \A c \in Call : LocalInv(call[c])

\* The number of steps is a positive natural number and every step is a
\* step record.
LEMMA StepFacts ==
  /\ N \in Nat \ {0}
  /\ \A k \in StepIndex : Step(k) \in StepDefinition
<1>1. Len(Steps) \in Nat /\ Steps \in [1 .. Len(Steps) -> StepDefinition]
  BY EngineAssumption
<1>2. QED
  BY <1>1, EngineAssumption DEF N, StepIndex, Step

\* A new instance is well formed and earned.
LEMMA NewInstance ==
  ASSUME NEW s \in {"NONE", "PENDING", "RUNNING"}
  PROVE  New(s) \in Instance /\ Earned(New(s))
BY StepFacts DEF New, Instance, Earned, Status, NoResults, Value

\* The locals of a goroutine that is in no call.
LEMMA IdleFacts == IdleCall \in CallState /\ LocalInv(IdleCall)
<1>1. New("NONE") \in Instance /\ Earned(New("NONE"))
  BY NewInstance
<1>2. Free \in Lease
  BY DEF Free, Lease
<1>3. 0 \in 0 .. N
  BY StepFacts
<1>4. QED
  BY <1>1, <1>2, <1>3 DEF IdleCall, CallState, LocalInv, Point, Method, Value

\* One call moves to locals x, the row to a well-formed and earned one.
LEMMA CallStep ==
  ASSUME Inv, NEW c \in Call, NEW x \in CallState, LocalInv(x),
         call' = [call EXCEPT ![c] = x],
         row' \in Instance, Earned(row'), lease' \in Lease
  PROVE  Inv'
<1>1. call' \in [Call -> CallState]
  BY DEF Inv, TypeOK
<1>2. \A d \in Call : LocalInv(call[d])'
  <2>1. TAKE d \in Call
  <2>2. CASE d = c
    <3>1. call'[d] = x
      BY <2>2 DEF Inv, TypeOK
    <3>2. QED
      BY <3>1 DEF LocalInv, Earned
  <2>3. CASE d # c
    <3>1. call'[d] = call[d]
      BY <2>3 DEF Inv, TypeOK
    <3>2. LocalInv(call[d])
      BY DEF Inv
    <3>3. QED
      BY <3>1, <3>2 DEF LocalInv, Earned
  <2>4. QED
    BY <2>2, <2>3
<1>3. Earned(row)'
  BY DEF Earned
<1>4. QED
  BY <1>1, <1>2, <1>3 DEF Inv, TypeOK

\* A call returns.
LEMMA ReturnStep ==
  ASSUME Inv, NEW c \in Call, Return(c),
         row' \in Instance, Earned(row'), lease' \in Lease
  PROVE  Inv'
BY IdleFacts, CallStep, Zenon DEF Return

\* A write leaves the row and the lease well formed.
LEMMA PersistFacts ==
  ASSUME Inv, NEW c \in Call, NEW new \in Instance, Earned(new), Persist(c, new)
  PROVE  row' \in Instance /\ Earned(row') /\ lease' \in Lease
<1>1. row \in Instance /\ Earned(row) /\ lease \in Lease /\ call[c].seen \in Lease
  BY DEF Inv, TypeOK, CallState
<1>2. QED
  BY <1>1 DEF Persist, Earned

\* A call stores its copy and goes on at pc.
LEMMA StoreStep ==
  ASSUME Inv, NEW c \in Call, NEW new \in Instance, NEW pc \in Point,
         NEW i \in 0 .. N, NEW a \in Nat, NEW v \in Value,
         Store(c, new, pc, i, a, v), Earned(new),
         \/ pc = "release"
         \/ /\ pc \in {"loop", "attempt"}
            /\ new.status = "RUNNING"
            /\ \A k \in 0 .. i - 1 : new.results[k] # None
            /\ pc = "attempt" => i < N /\ new.step = i /\ new.results[i] = None
  PROVE  Inv'
<1> DEFINE x == [call[c] EXCEPT !.pc = pc, !.inst = new, !.i = i,
                                !.attempt = a, !.current = v]
<1>1. call[c] \in CallState
  BY DEF Inv, TypeOK
<1>2. x \in CallState
  BY <1>1, Zenon DEF CallState
<1>3. /\ x.pc = pc /\ x.inst = new /\ x.i = i
  BY <1>1 DEF CallState
<1>4. LocalInv(x)
  <2> HIDE DEF x
  <2>1. QED
    BY <1>3 DEF LocalInv
<1>5. call' = [call EXCEPT ![c] = x]
  BY <1>1, Zenon DEF Store, Inv, TypeOK
<1>6. row' \in Instance /\ Earned(row') /\ lease' \in Lease
  BY PersistFacts DEF Store
<1>7. QED
  <2> HIDE DEF x
  <2>1. QED
    BY <1>2, <1>4, <1>5, <1>6, CallStep, Zenon

\* A call only moves to another program point.
LEMMA MoveStep ==
  ASSUME Inv, NEW c \in Call, NEW pc \in Point,
         call' = [call EXCEPT ![c].pc = pc],
         LocalInv([call[c] EXCEPT !.pc = pc]),
         row' \in Instance, Earned(row'), lease' \in Lease
  PROVE  Inv'
<1> DEFINE x == [call[c] EXCEPT !.pc = pc]
<1>1. call[c] \in CallState
  BY DEF Inv, TypeOK
<1>2. x \in CallState
  BY <1>1 DEF CallState
<1>3. call' = [call EXCEPT ![c] = x]
  OBVIOUS
<1>4. LocalInv(x)
  OBVIOUS
<1>5. QED
  <2> HIDE DEF x
  <2>1. QED
    BY <1>2, <1>3, <1>4, CallStep, Zenon

\* The lease operations leave a lease, and the row is untouched.
LEMMA LeaseFacts ==
  ASSUME Inv, NEW e \in Engine
  PROVE  /\ Held(e) \in Lease /\ Free \in Lease
         /\ RenewLease(e) => lease' \in Lease
         /\ ReleaseLease(e) => lease' \in Lease
<1>1. Held(e) \in Lease /\ Free \in Lease
  BY DEF Held, Free, Lease
<1>2. lease \in Lease
  BY DEF Inv, TypeOK
<1>3. QED
  BY <1>1, <1>2 DEF RenewLease, ReleaseLease

\* A call that is past its last use of the copy.
LEMMA ReturnThroughDeferStep ==
  ASSUME Inv, NEW c \in Call, ReturnThroughDefer(c),
         row' \in Instance, Earned(row'), lease' \in Lease
  PROVE  Inv'
<1>1. CASE Deferred(c)
  <2>1. call' = [call EXCEPT ![c].pc = "deferred"]
    BY <1>1 DEF ReturnThroughDefer
  <2>2. call[c] \in CallState /\ LocalInv(call[c])
    BY DEF Inv, TypeOK
  <2>3. LocalInv([call[c] EXCEPT !.pc = "deferred"])
    BY <2>2 DEF LocalInv, CallState
  <2>4. "deferred" \in Point
    BY DEF Point
  <2>5. QED
    BY <2>1, <2>3, <2>4, MoveStep, Zenon
<1>2. CASE ~Deferred(c)
  BY <1>2, ReturnStep DEF ReturnThroughDefer
<1>3. QED
  BY <1>1, <1>2

\* The calls that start an instance, and those that load it.
LEMMA BeginInv ==
  ASSUME Inv, NEW c \in Call, Begin(c)
  PROVE  Inv'
<1>1. row \in Instance /\ Earned(row) /\ lease \in Lease
  BY DEF Inv, TypeOK
<1>2. CASE Run(c)
  <2> DEFINE x == [IdleCall EXCEPT !.pc = "loop", !.inst = New("RUNNING")]
  <2>1. New("RUNNING") \in Instance /\ Earned(New("RUNNING")) /\ New("RUNNING").status = "RUNNING"
    BY NewInstance DEF New
  <2>2. x \in CallState /\ x.pc = "loop" /\ x.inst = New("RUNNING") /\ x.i = 0
    BY <2>1, IdleFacts, Zenon DEF CallState, Point, IdleCall
  <2>3. call' = [call EXCEPT ![c] = x] /\ row' = New("RUNNING") /\ lease' = lease
    BY <1>2 DEF Run
  <2> HIDE DEF x
  <2>4. LocalInv(x)
    BY <2>1, <2>2 DEF LocalInv
  <2>5. QED
    BY <1>1, <2>1, <2>2, <2>3, <2>4, CallStep, Zenon
<1>3. CASE Start(c)
  <2>1. row' \in Instance /\ Earned(row') /\ lease' = lease /\ call' = call
    BY <1>3, NewInstance DEF Start
  <2>2. QED
    BY <1>1, <2>1 DEF Inv, TypeOK, LocalInv, Earned
<1>4. ASSUME NEW m \in Method, NEW pc \in Point, NEW v \in Value, Load(c, m, pc, v),
             pc \in {"acquire", "signal", "recover"},
             m = "SignalNow" => row.status = "WAITING"
      PROVE  Inv'
  <2> DEFINE x == [IdleCall EXCEPT !.pc = pc, !.op = m, !.inst = row,
                                   !.seen = lease, !.current = v]
  <2>1. x \in CallState /\ x.pc = pc /\ x.op = m /\ x.inst = row
    BY <1>1, IdleFacts, Zenon DEF CallState, IdleCall
  <2>2. call' = [call EXCEPT ![c] = x] /\ row' = row /\ lease' = lease
    BY <1>4 DEF Load
  <2> HIDE DEF x
  <2>3. LocalInv(x)
    BY <1>1, <1>4, <2>1 DEF LocalInv
  <2>4. QED
    BY <1>1, <2>1, <2>2, <2>3, CallStep, Zenon
<1>5. /\ {"RunInstance", "Resume", "SignalNow", "Signal", "RecoverStuckInstances"} \subseteq Method
      /\ {"acquire", "signal", "recover"} \subseteq Point
      /\ Data \in Value /\ Signal \subseteq Value
  BY DEF Method, Point, Value
<1>6. CASE RunInstance(c) \/ RunInstanceRefused(c) \/ Resume(c) \/ RecoverBegin(c)
  BY <1>4, <1>5, <1>6 DEF RunInstance, RunInstanceRefused, Resume, RecoverBegin
<1>7. ASSUME NEW s \in Signal, SignalNow(c, s) \/ SignalBegin(c, s)
      PROVE  Inv'
  BY <1>4, <1>5, <1>7 DEF SignalNow, SignalBegin
<1>8. QED
  BY <1>2, <1>3, <1>6, <1>7 DEF Begin

\* The calls that write the loaded instance back, or mark it as running.
LEMMA EntryInv ==
  ASSUME Inv, NEW c \in Call,
         \/ SignalStore(c) \/ RecoverStore(c) \/ Acquire(c) \/ Mark(c) \/ MarkFails(c)
  PROVE  Inv'
<1>1. row \in Instance /\ Earned(row) /\ lease \in Lease
  BY DEF Inv, TypeOK
<1>2. call[c] \in CallState /\ LocalInv(call[c])
  BY DEF Inv, TypeOK
<1>3. call[c].inst \in Instance /\ Earned(call[c].inst) /\ call[c].current \in Value
  BY <1>2 DEF CallState, LocalInv
<1>4. CASE SignalStore(c)
  <2> DEFINE new == [call[c].inst EXCEPT !.input = call[c].current]
  <2>1. new \in Instance /\ Earned(new)
    BY <1>3 DEF Instance, Earned
  <2>2. Persist(c, new) /\ Return(c)
    BY <1>4 DEF SignalStore
  <2> HIDE DEF new
  <2>3. QED
    BY <2>1, <2>2, PersistFacts, ReturnStep
<1>5. CASE RecoverStore(c)
  <2> DEFINE new == [call[c].inst EXCEPT !.status = "FAILED"]
  <2>1. new \in Instance /\ Earned(new)
    BY <1>3 DEF Instance, Earned, Status
  <2>2. Persist(c, new) /\ Return(c)
    BY <1>5 DEF RecoverStore
  <2> HIDE DEF new
  <2>3. QED
    BY <2>1, <2>2, PersistFacts, ReturnStep
<1>6. CASE Acquire(c)
  <2>1. CASE ~MayAcquire(EngineOf[c])
    BY <1>1, <1>6, <2>1, ReturnStep DEF Acquire
  <2>2. CASE MayAcquire(EngineOf[c])
    <3>1. /\ call' = [call EXCEPT ![c].pc = "mark"]
          /\ row' = row /\ lease' = Held(EngineOf[c])
      BY <1>6, <2>2 DEF Acquire
    <3>2. LocalInv([call[c] EXCEPT !.pc = "mark"])
      BY <1>2, <1>6 DEF LocalInv, CallState, Acquire
    <3>3. lease' \in Lease
      BY <3>1, LeaseFacts, EngineAssumption
    <3>4. "mark" \in Point
      BY DEF Point
    <3>5. QED
      BY <1>1, <3>1, <3>2, <3>3, <3>4, MoveStep, Zenon
  <2>3. QED
    BY <2>1, <2>2
<1>7. CASE Mark(c)
  <2> DEFINE new == Marked(c)
             x == [call[c] EXCEPT !.pc = "loop", !.inst = new, !.i = new.step,
                                  !.current = new.input]
  <2>1. /\ new \in Instance /\ new.status = "RUNNING"
        /\ \A k \in 0 .. new.step - 1 : new.results[k] # None
    <3>1. CASE call[c].op = "SignalNow"
      <4>1. call[c].inst.status = "WAITING"
        BY <1>2, <1>7, <3>1 DEF LocalInv, Mark
      <4>2. /\ new \in Instance /\ new.status = "RUNNING"
            /\ new.step = call[c].inst.step /\ new.results = call[c].inst.results
        BY <1>3, <3>1, Zenon DEF Marked, Instance, Status
      <4>3. QED
        BY <1>3, <4>1, <4>2 DEF Earned
    <3>2. CASE call[c].op # "SignalNow"
      <4>1. 0 \in 0 .. N /\ 0 .. (0 - 1) = {}
        BY StepFacts
      <4>2. new \in Instance /\ new.status = "RUNNING" /\ new.step = 0
        BY <1>3, <3>2, <4>1, Zenon DEF Marked, Instance, Status
      <4>3. QED
        BY <4>1, <4>2
    <3>3. QED
      BY <3>1, <3>2
  <2>2. call' = [call EXCEPT ![c] = x] /\ row' = new
    BY <1>2, <1>7, Zenon DEF Mark, Inv, TypeOK
  <2>3. lease' \in Lease
    BY <1>1, <1>2, <1>7 DEF Mark, CallState
  <2> HIDE DEF new
  <2>4. Earned(new)
    BY <2>1 DEF Earned
  <2>5. new.step \in 0 .. N /\ new.input \in Value
    BY <2>1 DEF Instance
  <2>6. x \in CallState /\ x.pc = "loop" /\ x.inst = new /\ x.i = new.step
    BY <1>2, <2>1, <2>5, Zenon DEF CallState, Point
  <2> HIDE DEF x
  <2>7. LocalInv(x)
    BY <2>1, <2>4, <2>6 DEF LocalInv
  <2>8. QED
    BY <2>1, <2>2, <2>3, <2>4, <2>6, <2>7, CallStep, Zenon
<1>8. CASE MarkFails(c)
  BY <1>1, <1>8, ReturnThroughDeferStep DEF MarkFails
<1>9. QED
  BY <1>4, <1>5, <1>6, <1>7, <1>8

\* The body of the loop of executeSteps up to the invocation of the step.
LEMMA LoopInv ==
  ASSUME Inv, NEW c \in Call,
         Renew(c) \/ Skip(c) \/ Enter(c) \/ Cancel(c) \/ Invoke(c)
  PROVE  Inv'
<1> DEFINE i == call[c].i
           inst == call[c].inst
<1>1. row \in Instance /\ Earned(row) /\ lease \in Lease
  BY DEF Inv, TypeOK
<1>2. call[c] \in CallState /\ LocalInv(call[c])
  BY DEF Inv, TypeOK
<1>3. inst \in Instance /\ Earned(inst) /\ call[c].current \in Value /\ i \in 0 .. N
  BY <1>2 DEF CallState, LocalInv
<1>4. {"top", "loop", "attempt", "invoked", "release"} \subseteq Point /\ 1 \in Nat
  BY DEF Point
<1>5. CASE Renew(c)
  <2>1. call' = [call EXCEPT ![c].pc = "top"] /\ row' = row
    BY <1>5 DEF Renew
  <2>2. LocalInv([call[c] EXCEPT !.pc = "top"])
    BY <1>2, <1>5 DEF LocalInv, CallState, Renew
  <2>3. lease' \in Lease
    BY <1>5, LeaseFacts, EngineAssumption DEF Renew
  <2>4. QED
    BY <1>1, <1>4, <2>1, <2>2, <2>3, MoveStep, Zenon
<1>6. CASE Skip(c)
  <2> DEFINE new == [inst EXCEPT !.step = i + 1]
  <2>1. /\ Store(c, new, "loop", i + 1, 1, inst.results[i])
        /\ inst.results[i] # None
        /\ i < N /\ inst.status = "RUNNING"
        /\ \A k \in 0 .. i - 1 : inst.results[k] # None
    BY <1>2, <1>6 DEF Skip, LocalInv
  <2>2. i \in StepIndex /\ i + 1 \in 0 .. N
    BY <1>3, <2>1, StepFacts DEF StepIndex
  <2>3. inst.results[i] \in Value
    BY <1>3, <2>1, <2>2 DEF Instance
  <2>4. new \in Instance /\ new.status = "RUNNING" /\ new.results = inst.results
    BY <1>3, <2>1, <2>2 DEF Instance
  <2> HIDE DEF new
  <2>5. \A k \in 0 .. (i + 1) - 1 : new.results[k] # None
    BY <1>3, <2>1, <2>4, StepFacts
  <2>6. Earned(new)
    BY <2>4 DEF Earned
  <2> HIDE DEF i, inst
  <2>7. QED
    BY <1>4, <2>1, <2>2, <2>3, <2>4, <2>5, <2>6, StoreStep
<1>7. CASE Enter(c)
  <2> DEFINE new == [inst EXCEPT !.step = i]
  <2>1. /\ Store(c, new, "attempt", i, 1, call[c].current)
        /\ inst.results[i] = None
        /\ i < N /\ inst.status = "RUNNING"
        /\ \A k \in 0 .. i - 1 : inst.results[k] # None
    BY <1>2, <1>7 DEF Enter, LocalInv
  <2>2. /\ new \in Instance /\ new.status = "RUNNING"
        /\ new.results = inst.results /\ new.step = i
    BY <1>3, <2>1 DEF Instance
  <2> HIDE DEF new
  <2>3. Earned(new)
    BY <2>2 DEF Earned
  <2> HIDE DEF i, inst
  <2>4. QED
    BY <1>3, <1>4, <2>1, <2>2, <2>3, StoreStep
<1>8. CASE Cancel(c)
  <2> DEFINE new == [inst EXCEPT !.status = "FAILED"]
  <2>1. new \in Instance /\ Earned(new)
    BY <1>3 DEF Instance, Earned, Status
  <2>2. Persist(c, new) /\ ReturnThroughDefer(c)
    BY <1>8 DEF Cancel
  <2> HIDE DEF new
  <2>3. QED
    BY <2>1, <2>2, PersistFacts, ReturnThroughDeferStep
<1>9. CASE Invoke(c)
  <2>1. call' = [call EXCEPT ![c].pc = "invoked"] /\ row' = row /\ lease' = lease
    BY <1>9 DEF Invoke
  <2>2. LocalInv([call[c] EXCEPT !.pc = "invoked"])
    BY <1>2, <1>9 DEF LocalInv, CallState, Invoke
  <2>3. QED
    BY <1>1, <1>4, <2>1, <2>2, MoveStep, Zenon
<1>10. QED
  BY <1>5, <1>6, <1>7, <1>8, <1>9

\* What follows the return of a step function, and the end of the loop.
LEMMA OutcomeInv ==
  ASSUME Inv, NEW c \in Call,
         \/ Succeed(c) \/ Park(c) \/ Retry(c) \/ Fail(c)
         \/ Complete(c) \/ Release(c) \/ DeferredRelease(c)
  PROVE  Inv'
<1> DEFINE i == call[c].i
           inst == call[c].inst
<1>1. row \in Instance /\ Earned(row) /\ lease \in Lease
  BY DEF Inv, TypeOK
<1>2. call[c] \in CallState /\ LocalInv(call[c])
  BY DEF Inv, TypeOK
<1>3. inst \in Instance /\ Earned(inst) /\ call[c].current \in Value /\ i \in 0 .. N
  BY <1>2 DEF CallState, LocalInv
<1>4. {"loop", "attempt", "release"} \subseteq Point /\ 1 \in Nat /\ Data \in Value
  BY DEF Point, Value
<1>5. ASSUME call[c].pc = "invoked"
      PROVE  /\ i < N /\ i \in StepIndex /\ inst.step = i /\ inst.results[i] = None
             /\ inst.status = "RUNNING"
             /\ \A k \in 0 .. i - 1 : inst.results[k] # None
  BY <1>2, <1>3, <1>5, StepFacts DEF LocalInv, StepIndex
<1>6. CASE Succeed(c)
  <2> DEFINE v == Returned(i, call[c].current)
             new == [inst EXCEPT !.results[i] = v]
  <2>1. Store(c, new, "loop", i + 1, 1, v) /\ call[c].pc = "invoked"
    BY <1>6 DEF Succeed
  <2>2. v \in Value /\ v # None
    BY <1>3, <1>4, EngineAssumption DEF Returned, Value
  <2> HIDE DEF v
  <2>3. inst.results \in [StepIndex -> Value \cup {None}]
    BY <1>3 DEF Instance
  <2>4. /\ new \in Instance /\ new.status = "RUNNING"
        /\ new.results = [inst.results EXCEPT ![i] = v]
    BY <1>3, <1>5, <2>1, <2>2, <2>3 DEF Instance
  <2> HIDE DEF new
  <2>5. i + 1 \in 0 .. N
    BY <1>3, <1>5, <2>1, StepFacts
  <2>6. \A k \in 0 .. (i + 1) - 1 : new.results[k] # None
    <3>1. TAKE k \in 0 .. (i + 1) - 1
    <3>2. k \in StepIndex /\ (k = i \/ k \in 0 .. i - 1)
      BY <1>3, <1>5, <2>1, StepFacts DEF StepIndex
    <3>3. QED
      BY <1>5, <2>1, <2>2, <2>3, <2>4, <3>2
  <2>7. Earned(new)
    BY <2>4 DEF Earned
  <2> HIDE DEF i, inst
  <2>8. QED
    BY <1>4, <2>1, <2>2, <2>4, <2>5, <2>6, <2>7, StoreStep, Zenon
<1>7. CASE Park(c)
  <2> DEFINE new == [inst EXCEPT !.status = "WAITING"]
  <2>1. /\ Store(c, new, "release", i, 1, Data) /\ call[c].pc = "invoked"
        /\ Step(i).kind # "task"
    BY <1>7 DEF Park
  <2>2. /\ new \in Instance /\ new.status = "WAITING"
        /\ new.results = inst.results /\ new.step = i
    BY <1>3, <1>5, <2>1 DEF Instance, Status
  <2> HIDE DEF new
  <2>3. Earned(new)
    BY <1>5, <2>1, <2>2 DEF Earned
  <2> HIDE DEF i, inst
  <2>4. QED
    BY <1>3, <1>4, <2>1, <2>2, <2>3, StoreStep
<1>8. CASE Retry(c)
  <2> DEFINE x == [call[c] EXCEPT !.pc = "attempt", !.attempt = @ + 1]
  <2>1. call' = [call EXCEPT ![c] = x] /\ row' = row /\ lease' = lease
    BY <1>2, <1>8, Zenon DEF Retry, Inv, TypeOK
  <2>2. x \in CallState
    <3>1. call[c].attempt + 1 \in Nat
      BY <1>2 DEF CallState
    <3>2. "attempt" \in Point
      BY DEF Point
    <3>3. QED
      BY <1>2, <3>1, <3>2, Zenon DEF CallState
  <2>3. /\ x.pc = "attempt" /\ x.inst = inst /\ x.i = i
    BY <1>2 DEF CallState
  <2> HIDE DEF x
  <2>4. LocalInv(x)
    BY <1>3, <1>5, <1>8, <2>3 DEF LocalInv, Retry
  <2>5. QED
    BY <1>1, <2>1, <2>2, <2>4, CallStep, Zenon
<1>9. CASE Fail(c)
  <2> DEFINE new == [inst EXCEPT !.status = "FAILED"]
  <2>1. Store(c, new, "release", i, 1, Data)
    BY <1>9 DEF Fail
  <2>2. new \in Instance /\ Earned(new)
    BY <1>3 DEF Instance, Earned, Status
  <2> HIDE DEF new
  <2> HIDE DEF i, inst
  <2>3. QED
    BY <1>3, <1>4, <2>1, <2>2, StoreStep
<1>10. CASE Complete(c)
  <2> DEFINE new == [inst EXCEPT !.status = "COMPLETED", !.step = N]
  <2>1. /\ Store(c, new, "release", N, 1, Data)
        /\ \A k \in 0 .. N - 1 : inst.results[k] # None
    BY <1>2, <1>10 DEF Complete, LocalInv
  <2>2. N \in 0 .. N
    BY StepFacts
  <2>3. /\ new \in Instance /\ new.status = "COMPLETED"
        /\ new.results = inst.results /\ new.step = N
    BY <1>3, <2>2, Zenon DEF Instance, Status
  <2> HIDE DEF new
  <2>4. Earned(new)
    BY <2>1, <2>3 DEF Earned, StepIndex
  <2> HIDE DEF i, inst
  <2>5. QED
    BY <1>4, <2>1, <2>2, <2>3, <2>4, StoreStep
<1>11. CASE Release(c)
  <2>1. lease' \in Lease /\ row' = row /\ ReturnThroughDefer(c)
    BY <1>11, LeaseFacts, EngineAssumption DEF Release
  <2>2. QED
    BY <1>1, <2>1, ReturnThroughDeferStep
<1>12. CASE DeferredRelease(c)
  <2>1. lease' \in Lease /\ row' = row /\ Return(c)
    BY <1>12, LeaseFacts, EngineAssumption DEF DeferredRelease
  <2>2. QED
    BY <1>1, <2>1, ReturnStep
<1>13. QED
  BY <1>6, <1>7, <1>8, <1>9, <1>10, <1>11, <1>12

\* Inspection, crashes and the passing of time.
LEMMA EnvironmentInv ==
  ASSUME Inv, NEW e \in Engine, GetInstance(e) \/ Crash(e) \/ Expire
  PROVE  Inv'
<1>1. row \in Instance /\ Earned(row) /\ lease \in Lease
  BY DEF Inv, TypeOK
<1>2. CASE GetInstance(e) \/ Expire
  <2>1. lease' \in Lease
    <3>1. CASE GetInstance(e)
      BY <3>1, LeaseFacts DEF GetInstance
    <3>2. CASE Expire
      <4>1. Free \in Lease
        BY DEF Free, Lease
      <4>2. [lease EXCEPT !.expired = TRUE] \in Lease
        BY <1>1, Zenon DEF Lease
      <4>3. QED
        BY <3>2, <4>1, <4>2 DEF Expire
    <3>3. QED
      BY <1>2, <3>1, <3>2
  <2>2. row' = row /\ call' = call
    BY <1>2 DEF GetInstance, Expire
  <2>3. QED
    BY <2>1, <2>2 DEF Inv, TypeOK, LocalInv, Earned
<1>3. CASE Crash(e)
  <2>1. row' = row /\ lease' = lease /\ call' \in [Call -> CallState]
    BY <1>3, IdleFacts DEF Crash, Inv, TypeOK
  <2>2. \A d \in Call : LocalInv(call'[d])
    <3>1. TAKE d \in Call
    <3>2. call'[d] = IdleCall \/ call'[d] = call[d]
      BY <1>3 DEF Crash
    <3>3. LocalInv(call[d]) /\ LocalInv(IdleCall)
      BY IdleFacts DEF Inv
    <3>4. QED
      BY <3>2, <3>3
  <2>3. QED
    BY <1>1, <2>1, <2>2 DEF Inv, TypeOK, Earned
<1>4. QED
  BY <1>2, <1>3

\* The inductive invariant holds: of every store, with calls that overlap or
\* not, steps of any length and writes that may fail.
THEOREM EngineInvariant == Spec => []Inv
<1>1. Init => Inv
  <2>1. SUFFICES ASSUME Init PROVE Inv
    OBVIOUS
  <2>2. row \in Instance /\ Earned(row)
    BY <2>1, NewInstance DEF Init
  <2>3. lease \in Lease
    BY <2>1 DEF Init, Free, Lease
  <2>4. QED
    BY <2>1, <2>2, <2>3, IdleFacts DEF Init, Inv, TypeOK
<1>2. Inv /\ [Next]_vars => Inv'
  <2>1. SUFFICES ASSUME Inv, [Next]_vars PROVE Inv'
    OBVIOUS
  <2>2. CASE UNCHANGED vars
    BY <2>1, <2>2 DEF vars, Inv, TypeOK, LocalInv, Earned
  <2>3. ASSUME NEW c \in Call, Begin(c) \/ Proceed(c) PROVE Inv'
    BY <2>1, <2>3, BeginInv, EntryInv, LoopInv, OutcomeInv DEF Proceed
  <2>4. ASSUME NEW e \in Engine, GetInstance(e) \/ Crash(e) PROVE Inv'
    BY <2>1, <2>4, EnvironmentInv
  <2>5. CASE Expire
    <3>1. PICK e \in Engine : TRUE
      BY <2>1, <2>5 DEF Expire, Inv, TypeOK, Lease
    <3>2. QED
      BY <2>1, <2>5, <3>1, EnvironmentInv
  <2>6. QED
    BY <2>1, <2>2, <2>3, <2>4, <2>5 DEF Next
<1>3. QED
  BY <1>1, <1>2, PTL DEF Spec

\* The state of the engine is well typed.
THEOREM TypeCorrect == Spec => []TypeOK
<1>1. Inv => TypeOK
  BY DEF Inv
<1>2. QED
  BY <1>1, EngineInvariant, PTL

\* A stored status is always earned by the stored results.
THEOREM StatusEarned == Spec => []StatusIsEarned
<1>1. Inv => StatusIsEarned
  BY DEF Inv, StatusIsEarned
<1>2. QED
  BY <1>1, EngineInvariant, PTL

-----------------------------------------------------------------------------
\* The circumstances under which the lease is a lock: a store that keeps it
\* apart from the instance, one goroutine per engine identity, steps shorter
\* than the lease, and no use of the two methods that go around it.
Protected ==
  /\ Backend # "sql"
  /\ \A c, d \in Call : EngineOf[c] = EngineOf[d] => c = d
  /\ ~SlowSteps
  /\ Api \cap {"Run", "GetInstance"} = {}

\* The strengthening that makes LeaseExclusive inductive: whoever executes
\* holds the lease, and it has not expired.
LeaseInv ==
  \A c \in Call : Executing(c) => lease.owner = EngineOf[c] /\ ~lease.expired

\* A step of one call that ends outside the executing section, or does not
\* enter it, and leaves alone a lease that is not its own.
LEMMA LeaseStep ==
  ASSUME Inv, LeaseInv, Protected, NEW c \in Call,
         \A d \in Call \ {c} : call'[d] = call[d],
         Executing(c)' => lease'.owner = EngineOf[c] /\ ~lease'.expired,
         lease' = lease \/ (lease.owner = EngineOf[c]) \/ MayAcquire(EngineOf[c])
  PROVE  LeaseInv'
<1>1. SUFFICES ASSUME NEW d \in Call, Executing(d)'
              PROVE  lease'.owner = EngineOf[d] /\ ~lease'.expired
  BY DEF LeaseInv
<1>2. CASE d = c
  BY <1>1, <1>2
<1>3. CASE d # c
  <2>1. Executing(d)
    BY <1>1, <1>3 DEF Executing
  <2>2. lease.owner = EngineOf[d] /\ ~lease.expired
    BY <2>1 DEF LeaseInv
  <2>3. EngineOf[d] # EngineOf[c] /\ EngineOf[d] # NoEngine
    BY <1>3, EngineAssumption DEF Protected
  <2>4. lease' = lease
    BY <2>2, <2>3 DEF MayAcquire
  <2>5. QED
    BY <2>2, <2>4
<1>4. QED
  BY <1>2, <1>3

\* A return, with or without the deferred release, leaves the executing
\* section and touches no other call.
LEMMA ReturnLeaves ==
  ASSUME Inv, NEW c \in Call, Return(c) \/ ReturnThroughDefer(c)
  PROVE  (\A d \in Call \ {c} : call'[d] = call[d]) /\ ~Executing(c)'
<1>1. call \in [Call -> CallState] /\ call[c] \in CallState
  BY DEF Inv, TypeOK
<1>2. CASE Return(c)
  <2>1. call'[c] = IdleCall
    BY <1>1, <1>2 DEF Return
  <2>2. QED
    BY <1>1, <1>2, <2>1 DEF Return, Executing, IdleCall
<1>3. CASE ~Return(c)
  <2>1. call' = [call EXCEPT ![c].pc = "deferred"]
    BY <1>3 DEF ReturnThroughDefer
  <2>2. call'[c].pc = "deferred"
    BY <1>1, <2>1 DEF CallState
  <2>3. QED
    BY <1>1, <2>1, <2>2 DEF Executing
<1>4. QED
  BY <1>2, <1>3

\* The steps of calls keep the strengthening.
LEMMA CallKeepsLease ==
  ASSUME Inv, LeaseInv, Protected, NEW c \in Call, Begin(c) \/ Proceed(c)
  PROVE  LeaseInv'
<1>1. call \in [Call -> CallState] /\ call[c] \in CallState
  BY DEF Inv, TypeOK
<1>2. \A new : Persist(c, new) => lease' = lease
  BY DEF Persist, Protected
<1>3. ASSUME lease' = lease, \A d \in Call \ {c} : call'[d] = call[d],
             Executing(c)' => Executing(c)
      PROVE  LeaseInv'
  BY <1>3, LeaseStep DEF LeaseInv
<1>4. CASE Begin(c)
  <2>1. ~Run(c)
    BY DEF Run, MayCall, Protected
  <2>2. CASE Start(c)
    BY <1>3, <2>2 DEF Start, Executing
  <2>3. ASSUME NEW m, NEW pc \in {"acquire", "signal", "recover"}, NEW v, Load(c, m, pc, v)
        PROVE  LeaseInv'
    <3>1. lease' = lease /\ \A d \in Call \ {c} : call'[d] = call[d]
      BY <1>1, <2>3 DEF Load
    <3>2. call'[c].pc = pc
      BY <1>1, <2>3 DEF Load, IdleCall
    <3>3. QED
      BY <1>3, <2>3, <3>1, <3>2 DEF Executing
  <2>4. QED
    BY <1>4, <2>1, <2>2, <2>3
       DEF Begin, RunInstance, RunInstanceRefused, Resume, RecoverBegin, SignalNow, SignalBegin
<1>5. CASE SignalStore(c) \/ RecoverStore(c) \/ MarkFails(c) \/ Cancel(c)
  <2>1. lease' = lease /\ (Return(c) \/ ReturnThroughDefer(c))
    BY <1>2, <1>5 DEF SignalStore, RecoverStore, MarkFails, Cancel
  <2>2. QED
    BY <1>3, <2>1, ReturnLeaves
<1>6. CASE Acquire(c)
  <2>1. CASE ~MayAcquire(EngineOf[c])
    BY <1>3, <1>6, <2>1, ReturnLeaves DEF Acquire
  <2>2. CASE MayAcquire(EngineOf[c])
    <3>1. call' = [call EXCEPT ![c].pc = "mark"] /\ lease' = Held(EngineOf[c])
      BY <1>6, <2>2 DEF Acquire
    <3>2. \A d \in Call \ {c} : call'[d] = call[d]
      BY <1>1, <3>1
    <3>3. lease'.owner = EngineOf[c] /\ ~lease'.expired
      BY <3>1 DEF Held
    <3>4. QED
      BY <2>2, <3>2, <3>3, LeaseStep
  <2>3. QED
    BY <2>1, <2>2
<1>7. CASE Renew(c)
  <2>1. call' = [call EXCEPT ![c].pc = "top"] /\ RenewLease(EngineOf[c])
    BY <1>7 DEF Renew
  <2>2. lease.owner = EngineOf[c]
    BY <1>7 DEF Renew, Executing, LeaseInv
  <2>3. lease'.owner = EngineOf[c] /\ ~lease'.expired
    BY <2>1, <2>2 DEF RenewLease, Held
  <2>4. \A d \in Call \ {c} : call'[d] = call[d]
    BY <1>1, <2>1
  <2>5. QED
    BY <2>2, <2>3, <2>4, LeaseStep
<1>8. CASE Mark(c) \/ Invoke(c) \/ Retry(c)
  <2>1. lease' = lease /\ Executing(c)
    BY <1>8 DEF Mark, Invoke, Retry, Executing, Protected
  <2>2. \A d \in Call \ {c} : call'[d] = call[d]
    BY <1>1, <1>8 DEF Mark, Invoke, Retry
  <2>3. QED
    BY <1>3, <2>1, <2>2
<1>9. CASE Skip(c) \/ Enter(c) \/ Succeed(c) \/ Park(c) \/ Fail(c) \/ Complete(c)
  <2>1. Executing(c)
    BY <1>9 DEF Skip, Enter, Succeed, Park, Fail, Complete, Executing
  <2>2. \E new, pc, i, a, v : Store(c, new, pc, i, a, v)
    BY <1>9 DEF Skip, Enter, Succeed, Park, Fail, Complete
  <2>3. lease' = lease /\ \A d \in Call \ {c} : call'[d] = call[d]
    BY <1>1, <1>2, <2>2 DEF Store
  <2>4. QED
    BY <1>3, <2>1, <2>3
<1>10. CASE Release(c) \/ DeferredRelease(c)
  <2>1. ReleaseLease(EngineOf[c]) /\ (Return(c) \/ ReturnThroughDefer(c))
    BY <1>10 DEF Release, DeferredRelease
  <2>2. lease' = lease \/ lease.owner = EngineOf[c]
    BY <2>1 DEF ReleaseLease
  <2>3. QED
    BY <2>1, <2>2, ReturnLeaves, LeaseStep
<1>11. QED
  BY <1>4, <1>5, <1>6, <1>7, <1>8, <1>9, <1>10 DEF Proceed

\* So do the steps of the environment: a crash only ends calls, and the lease
\* of a call that executes does not expire.
LEMMA EnvironmentKeepsLease ==
  ASSUME Inv, LeaseInv, Protected,
         (\E e \in Engine : GetInstance(e) \/ Crash(e)) \/ Expire \/ UNCHANGED vars
  PROVE  LeaseInv'
<1>1. \A e \in Engine : ~GetInstance(e)
  BY DEF GetInstance, Protected
<1>2. ASSUME NEW e \in Engine, Crash(e) PROVE LeaseInv'
  <2>1. \A d \in Call : call'[d] = IdleCall \/ call'[d] = call[d]
    BY <1>2 DEF Crash
  <2>2. \A d \in Call : Executing(d)' => Executing(d)
    BY <2>1 DEF Executing, IdleCall
  <2>3. QED
    BY <1>2, <2>2 DEF Crash, LeaseInv
<1>3. CASE Expire
  <2>1. \A d \in Call : Executing(d)' <=> Executing(d)
    BY <1>3 DEF Expire, Executing
  <2>2. \A d \in Call : Executing(d) => EngineOf[d] # lease.owner
    BY <1>3 DEF Expire, Protected
  <2>3. QED
    BY <2>1, <2>2 DEF LeaseInv
<1>4. CASE UNCHANGED vars
  BY <1>4 DEF vars, LeaseInv, Executing
<1>5. QED
  BY <1>1, <1>2, <1>3, <1>4

\* Under those circumstances the lease keeps calls from executing the instance
\* together, for any number of engines and steps and with crashes, late
\* releases and failing writes at any point.
THEOREM LeaseIsExclusive == Protected => (Spec => []LeaseExclusive)
<1>1. SUFFICES ASSUME Protected PROVE Spec => []LeaseExclusive
  OBVIOUS
<1>2. Init => LeaseInv
  BY DEF Init, LeaseInv, Executing, IdleCall
<1>3. Inv /\ LeaseInv /\ [Next]_vars => LeaseInv'
  BY <1>1, CallKeepsLease, EnvironmentKeepsLease DEF Next
<1>4. LeaseInv => LeaseExclusive
  BY <1>1 DEF LeaseInv, LeaseExclusive, Protected
<1>5. QED
  BY <1>2, <1>3, <1>4, EngineInvariant, PTL DEF Spec

-----------------------------------------------------------------------------
(* Replay: what the results in the store are worth to a call.              *)

\* The copy inst has every result that the row r has.
Covers(inst, r) ==
  \A k \in StepIndex : r.results[k] # None => inst.results[k] = r.results[k]

\* Without overlapping calls, the one call that is in progress has in its copy
\* whatever is in the store; it may have more, after a write that failed.
SoloInv ==
  /\ \A c, d \in Call : call[c].pc # "idle" /\ call[d].pc # "idle" => c = d
  /\ row.status = "NONE" => row.results = NoResults
  /\ \A c \in Call : call[c].pc # "idle" =>
       call[c].inst.status # "NONE" /\ Covers(call[c].inst, row)

\* The results in the store stay there in this step.
Kept == Covers(row', row)

\* The one call in progress goes on as x, and has maybe written the row.
LEMMA SoloWrite ==
  ASSUME Inv, SoloInv, NEW c \in Call, call[c].pc # "idle",
         NEW new \in Instance, Covers(new, row), new.status # "NONE",
         row' = row \/ row' = new,
         NEW x, call' = [call EXCEPT ![c] = x],
         x.pc # "idle" => x.inst.results = new.results /\ x.inst.status # "NONE"
  PROVE  SoloInv' /\ Kept
<1>1. call'[c] = x /\ \A d \in Call \ {c} : call'[d] = call[d] /\ call[d].pc = "idle"
  BY DEF Inv, TypeOK, SoloInv
<1>2. Covers(new, row') /\ Kept
  BY DEF Covers, Kept
<1>3. row'.status = "NONE" => row'.results = NoResults
  BY DEF SoloInv
<1>4. x.pc # "idle" => Covers(x.inst, row')
  BY <1>2 DEF Covers
<1>5. \A d \in Call : call'[d].pc # "idle" => d = c
  BY <1>1
<1>6. \A d \in Call : call'[d].pc # "idle" =>
        call'[d].inst.status # "NONE" /\ Covers(call'[d].inst, row')
  BY <1>1, <1>4, <1>5
<1>7. SoloInv'
  BY <1>3, <1>5, <1>6 DEF SoloInv, Covers
<1>8. QED
  BY <1>2, <1>7

\* It only changes its other locals, or returns.
LEMMA SoloMove ==
  ASSUME Inv, SoloInv, NEW c \in Call, call[c].pc # "idle", row' = row,
         NEW x, call' = [call EXCEPT ![c] = x],
         x.pc # "idle" => x.inst = call[c].inst
  PROVE  SoloInv' /\ Kept
<1>1. call[c].inst \in Instance /\ call[c].inst.status # "NONE" /\ Covers(call[c].inst, row)
  BY DEF Inv, TypeOK, CallState, SoloInv
<1>2. QED
  BY <1>1, SoloWrite, Zenon

\* A write that ends with the call, or with its deferred release.
LEMMA SoloReturn ==
  ASSUME Inv, SoloInv, NEW c \in Call, call[c].pc # "idle",
         NEW new \in Instance, new.results = call[c].inst.results, new.status # "NONE",
         row' = row \/ row' = new, Return(c) \/ ReturnThroughDefer(c)
  PROVE  SoloInv' /\ Kept
<1>1. call[c] \in CallState /\ call[c].inst.status # "NONE" /\ Covers(call[c].inst, row)
  BY DEF Inv, TypeOK, SoloInv
<1>2. Covers(new, row)
  BY <1>1 DEF Covers
<1>3. CASE call' = [call EXCEPT ![c] = IdleCall]
  <2>1. IdleCall.pc = "idle"
    BY DEF IdleCall
  <2>2. QED
    BY <1>2, <1>3, <2>1, SoloWrite, Zenon
<1>4. CASE call' = [call EXCEPT ![c].pc = "deferred"]
  <2> DEFINE x == [call[c] EXCEPT !.pc = "deferred"]
  <2>1. call' = [call EXCEPT ![c] = x] /\ x.inst = call[c].inst
    BY <1>1, <1>4 DEF CallState
  <2> HIDE DEF x
  <2>2. QED
    BY <1>1, <1>2, <2>1, SoloWrite, Zenon
<1>5. QED
  BY <1>3, <1>4 DEF Return, ReturnThroughDefer

\* A store of executeSteps.
LEMMA SoloStore ==
  ASSUME Inv, SoloInv, NEW c \in Call, call[c].pc # "idle",
         NEW new \in Instance, NEW pc, NEW i, NEW a, NEW v, Store(c, new, pc, i, a, v),
         new.status # "NONE", Covers(new, row)
  PROVE  SoloInv' /\ Kept
<1> DEFINE x == [call[c] EXCEPT !.pc = pc, !.inst = new, !.i = i,
                                !.attempt = a, !.current = v]
<1>1. call[c] \in CallState
  BY DEF Inv, TypeOK
<1>2. call' = [call EXCEPT ![c] = x] /\ x.inst = new /\ (row' = row \/ row' = new)
  BY <1>1, Zenon DEF Store, Persist, CallState
<1> HIDE DEF x
<1>3. QED
  BY <1>2, SoloWrite, Zenon

\* When calls do not overlap, one begins only while all are idle.
LEMMA AloneBegins ==
  ASSUME Solo, NEW c \in Call, Begin(c)
  PROVE  \A d \in Call : call[d].pc = "idle"
<1>1. CASE Run(c) \/ Start(c) \/ RunInstance(c) \/ RunInstanceRefused(c)
  BY <1>1 DEF Run, Start, RunInstance, RunInstanceRefused, Load, MayCall
<1>2. CASE \/ Resume(c) \/ RecoverBegin(c)
           \/ \E s \in Signal : SignalNow(c, s) \/ SignalBegin(c, s)
  BY <1>2, Zenon DEF Resume, RecoverBegin, SignalNow, SignalBegin, Load, MayCall
<1>3. QED
  BY <1>1, <1>2 DEF Begin

\* A call begins when no other is in progress, with what is in the store.
LEMMA SoloBegin ==
  ASSUME Solo, Inv, SoloInv, NEW c \in Call, Begin(c)
  PROVE  SoloInv' /\ Kept
<1>1. \A d \in Call : call[d].pc = "idle"
  BY AloneBegins
<1>2. row \in Instance /\ call \in [Call -> CallState]
  BY DEF Inv, TypeOK
<1>3. CASE Run(c)
  <2> DEFINE x == [IdleCall EXCEPT !.pc = "loop", !.inst = New("RUNNING")]
  <2>1. x.pc = "loop" /\ x.inst = New("RUNNING")
    BY DEF IdleCall
  <2>2. call' = [call EXCEPT ![c] = x] /\ row' = New("RUNNING") /\ row.status = "NONE"
    BY <1>3 DEF Run
  <2> HIDE DEF x
  <2>3. call'[c] = x /\ \A d \in Call \ {c} : call'[d].pc = "idle"
    BY <1>1, <1>2, <2>2
  <2>4. row.results = NoResults /\ New("RUNNING").status = "RUNNING"
    BY <2>2 DEF SoloInv, New
  <2>5. Kept
    BY <2>4 DEF Kept, Covers, NoResults
  <2>6. SoloInv'
    BY <2>1, <2>2, <2>3, <2>4 DEF SoloInv, Covers
  <2>7. QED
    BY <2>5, <2>6
<1>4. CASE Start(c)
  <2>1. call' = call /\ row' = New("PENDING") /\ row.status = "NONE"
    BY <1>4 DEF Start
  <2>2. row.results = NoResults /\ New("PENDING").status = "PENDING"
    BY <2>1 DEF SoloInv, New
  <2>3. Kept
    BY <2>2 DEF Kept, Covers, NoResults
  <2>4. QED
    BY <1>1, <2>1, <2>2, <2>3 DEF SoloInv
<1>5. ASSUME NEW m, NEW pc, NEW v, Load(c, m, pc, v), row.status # "NONE"
      PROVE  SoloInv' /\ Kept
  <2> DEFINE x == [IdleCall EXCEPT !.pc = pc, !.op = m, !.inst = row, !.seen = lease, !.current = v]
  <2>1. x.inst = row
    BY DEF IdleCall
  <2>2. call' = [call EXCEPT ![c] = x] /\ row' = row
    BY <1>5 DEF Load
  <2> HIDE DEF x
  <2>3. call'[c] = x /\ \A d \in Call \ {c} : call'[d].pc = "idle"
    BY <1>1, <1>2, <2>2
  <2>4. Kept
    BY <2>2 DEF Kept, Covers
  <2>5. SoloInv'
    BY <1>5, <2>1, <2>2, <2>3 DEF SoloInv, Covers
  <2>6. QED
    BY <2>4, <2>5
<1>6. QED
  BY <1>3, <1>4, <1>5 DEF Begin, RunInstance, RunInstanceRefused, Resume, RecoverBegin,
                          SignalNow, SignalBegin

\* The steps of a call that leave its results as they are.
LEMMA SoloProceed ==
  ASSUME Inv, SoloInv, NEW c \in Call, Proceed(c), ~Succeed(c)
  PROVE  SoloInv' /\ Kept
<1> DEFINE inst == call[c].inst
<1>1. call[c].pc # "idle"
  BY DEF Proceed, SignalStore, RecoverStore, Acquire, Mark, MarkFails, Renew, Skip, Enter,
         Cancel, Invoke, Park, Retry, Fail, Complete, Release, DeferredRelease
<1>2. call[c] \in CallState /\ inst \in Instance /\ LocalInv(call[c])
  BY DEF Inv, TypeOK, CallState
<1>3. inst.status # "NONE" /\ Covers(inst, row)
  BY <1>1 DEF SoloInv
<1>4. ASSUME NEW new \in Instance, new.results = inst.results PROVE Covers(new, row)
  BY <1>3, <1>4 DEF Covers
<1>5. 0 \in 0 .. N /\ N \in 0 .. N
  BY StepFacts
<1>6. CASE SignalStore(c)
  <2> DEFINE new == [inst EXCEPT !.input = call[c].current]
  <2>1. new \in Instance /\ new.results = inst.results /\ new.status = inst.status
    BY <1>2 DEF Instance, CallState
  <2>2. (row' = new \/ row' = row) /\ Return(c)
    BY <1>6 DEF SignalStore, Persist
  <2> HIDE DEF new
  <2>3. QED
    BY <1>1, <1>3, <2>1, <2>2, SoloReturn
<1>7. CASE RecoverStore(c) \/ Cancel(c)
  <2> DEFINE new == [inst EXCEPT !.status = "FAILED"]
  <2>1. new \in Instance /\ new.results = inst.results /\ new.status = "FAILED"
    BY <1>2 DEF Instance, Status
  <2>2. (row' = new \/ row' = row) /\ (Return(c) \/ ReturnThroughDefer(c))
    BY <1>7 DEF RecoverStore, Cancel, Persist
  <2> HIDE DEF new
  <2>3. QED
    BY <1>1, <2>1, <2>2, SoloReturn
<1>8. CASE MarkFails(c) \/ Release(c) \/ DeferredRelease(c)
  <2>1. row' = row /\ (Return(c) \/ ReturnThroughDefer(c))
    BY <1>8 DEF MarkFails, Release, DeferredRelease
  <2>2. QED
    BY <1>1, <1>2, <1>3, <2>1, SoloReturn
<1>9. CASE Mark(c)
  <2> DEFINE new == Marked(c)
             x == [call[c] EXCEPT !.pc = "loop", !.inst = new, !.i = new.step,
                                  !.current = new.input]
  <2>1. new \in Instance /\ new.results = inst.results /\ new.status = "RUNNING"
    BY <1>2, <1>5, Zenon DEF Marked, Instance, Status, CallState
  <2>2. row' = new
    BY <1>9 DEF Mark
  <2>3. call' = [call EXCEPT ![c] = x] /\ x.inst = new
    <3> HIDE DEF inst
    <3>1. QED
      BY <1>2, <1>9, Zenon DEF Mark, CallState
  <2> HIDE DEF new, x
  <2>4. QED
    BY <1>1, <1>4, <2>1, <2>2, <2>3, SoloWrite, Zenon
<1>10. CASE Acquire(c)
  <2>1. CASE Return(c)
    BY <1>1, <1>2, <1>3, <1>10, <2>1, SoloReturn DEF Acquire
  <2>2. CASE call' = [call EXCEPT ![c].pc = "mark"]
    <3> DEFINE x == [call[c] EXCEPT !.pc = "mark"]
    <3>1. call' = [call EXCEPT ![c] = x] /\ x.inst = inst /\ row' = row
      BY <1>2, <1>10, <2>2 DEF CallState, Acquire
    <3> HIDE DEF x
    <3>2. QED
      BY <1>1, <3>1, SoloMove, Zenon
  <2>3. QED
    BY <1>10, <2>1, <2>2 DEF Acquire
<1>11. CASE Renew(c) \/ Invoke(c)
  <2> DEFINE x(pc) == [call[c] EXCEPT !.pc = pc]
  <2>1. row' = row /\ \E pc \in {"top", "invoked"} : call' = [call EXCEPT ![c] = x(pc)]
    BY <1>11 DEF Renew, Invoke
  <2>2. \A pc : x(pc).inst = inst
    BY <1>2 DEF CallState
  <2> HIDE DEF x
  <2>3. QED
    BY <1>1, <2>1, <2>2, SoloMove, Zenon
<1>12. CASE Retry(c)
  <2> DEFINE x == [call[c] EXCEPT !.pc = "attempt", !.attempt = @ + 1]
  <2>1. call' = [call EXCEPT ![c] = x] /\ row' = row
    BY <1>2, <1>12, Zenon DEF CallState, Retry
  <2>2. x.inst = inst
    BY <1>2 DEF CallState
  <2> HIDE DEF x
  <2>3. QED
    BY <1>1, <2>1, <2>2, SoloMove, Zenon
<1>13. CASE Skip(c) \/ Enter(c) \/ Park(c) \/ Fail(c) \/ Complete(c)
  <2>1. \E new \in Instance : \E pc, i, a, v :
          /\ Store(c, new, pc, i, a, v)
          /\ new.results = inst.results /\ new.status # "NONE"
    <3>1. CASE Skip(c)
      <4> DEFINE new == [inst EXCEPT !.step = call[c].i + 1]
      <4>1. call[c].i + 1 \in 0 .. N
        BY <1>2, <3>1, StepFacts DEF Skip, LocalInv, CallState
      <4>2. new \in Instance /\ new.results = inst.results /\ new.status = inst.status
        BY <1>2, <4>1 DEF Instance
      <4>3. Store(c, new, "loop", call[c].i + 1, 1, inst.results[call[c].i])
        BY <3>1 DEF Skip
      <4>4. QED
        BY <1>3, <4>2, <4>3, Zenon
    <3>2. CASE Enter(c)
      <4> DEFINE new == [inst EXCEPT !.step = call[c].i]
      <4>1. new \in Instance /\ new.results = inst.results /\ new.status = inst.status
        BY <1>2 DEF Instance, CallState
      <4>2. Store(c, new, "attempt", call[c].i, 1, call[c].current)
        BY <3>2 DEF Enter
      <4>3. QED
        BY <1>3, <4>1, <4>2, Zenon
    <3>3. CASE Park(c) \/ Fail(c)
      <4> DEFINE new(s) == [inst EXCEPT !.status = s]
      <4>1. \A s \in {"WAITING", "FAILED"} :
              new(s) \in Instance /\ new(s).results = inst.results /\ new(s).status # "NONE"
        BY <1>2 DEF Instance, Status
      <4>2. \E s \in {"WAITING", "FAILED"} : Store(c, new(s), "release", call[c].i, 1, Data)
        BY <3>3 DEF Park, Fail
      <4>3. QED
        BY <4>1, <4>2, Zenon
    <3>4. CASE Complete(c)
      <4> DEFINE new == [inst EXCEPT !.status = "COMPLETED", !.step = N]
      <4>1. new \in Instance /\ new.results = inst.results /\ new.status # "NONE"
        BY <1>2, <1>5, Zenon DEF Instance, Status
      <4>2. Store(c, new, "release", N, 1, Data)
        BY <3>4 DEF Complete
      <4>3. QED
        BY <4>1, <4>2, Zenon
    <3>5. QED
      BY <1>13, <3>1, <3>2, <3>3, <3>4
  <2>2. QED
    BY <1>1, <1>4, <2>1, SoloStore
<1> HIDE DEF inst
<1>14. QED
  BY ZenonT(30), <1>6, <1>7, <1>8, <1>9, <1>10, <1>11, <1>12, <1>13 DEF Proceed

\* The step that adds a result: the copy has none for it, so neither does the
\* store.
LEMMA SoloSucceed ==
  ASSUME Inv, SoloInv, NEW c \in Call, Succeed(c)
  PROVE  SoloInv' /\ Kept
<1> DEFINE i == call[c].i
           inst == call[c].inst
           v == Returned(i, call[c].current)
           new == [inst EXCEPT !.results[i] = v]
<1>1. call[c].pc = "invoked" /\ Store(c, new, "loop", i + 1, 1, v)
  BY DEF Succeed
<1>2. call[c] \in CallState /\ inst \in Instance /\ LocalInv(call[c])
  BY DEF Inv, TypeOK, CallState
<1>3. i \in StepIndex /\ inst.results[i] = None /\ v \in Value
  BY <1>1, <1>2, StepFacts DEF LocalInv, CallState, StepIndex, Returned, Value
<1>4. inst.status # "NONE" /\ Covers(inst, row)
  BY <1>1 DEF SoloInv
<1> HIDE DEF v, i
<1>5. inst.results \in [StepIndex -> Value \cup {None}]
  BY <1>2 DEF Instance
<1>6. /\ new \in Instance /\ new.status = inst.status
      /\ new.results = [inst.results EXCEPT ![i] = v]
  BY <1>2, <1>3, <1>5 DEF Instance
<1> HIDE DEF new
<1>7. Covers(new, row)
  BY <1>3, <1>4, <1>5, <1>6 DEF Covers
<1> HIDE DEF inst
<1>8. QED
  BY <1>1, <1>4, <1>6, <1>7, SoloStore

\* Every step of an engine whose calls do not overlap keeps SoloInv and the
\* results in the store.
LEMMA SoloStep ==
  ASSUME Solo, Inv, SoloInv, [Next]_vars
  PROVE  SoloInv' /\ Kept
<1>1. CASE UNCHANGED vars
  BY <1>1 DEF vars, SoloInv, Covers, Kept
<1>2. ASSUME NEW c \in Call, Begin(c) \/ Proceed(c) PROVE SoloInv' /\ Kept
  BY <1>2, SoloBegin, SoloProceed, SoloSucceed
<1>3. ASSUME NEW e \in Engine, Crash(e) PROVE SoloInv' /\ Kept
  <2>1. row' = row /\ \A c \in Call : call'[c] = IdleCall \/ call'[c] = call[c]
    BY <1>3 DEF Crash
  <2>2. IdleCall.pc = "idle"
    BY DEF IdleCall
  <2>3. QED
    BY <2>1, <2>2 DEF SoloInv, Covers, Kept
<1>4. CASE Expire \/ \E e \in Engine : GetInstance(e)
  <2>1. row' = row /\ call' = call
    BY <1>4 DEF Expire, GetInstance
  <2>2. QED
    BY <2>1 DEF SoloInv, Covers, Kept
<1>5. QED
  BY <1>1, <1>2, <1>3, <1>4 DEF Next

\* The invariant of the replay.
LEMMA SoloInvariant == Solo => (Spec => [](Inv /\ SoloInv))
<1>1. SUFFICES ASSUME Solo PROVE Spec => [](Inv /\ SoloInv)
  OBVIOUS
<1>2. Init => SoloInv
  BY DEF Init, SoloInv, IdleCall, New
<1>3. Inv /\ SoloInv /\ [Next]_vars => SoloInv'
  BY <1>1, SoloStep
<1>4. QED
  BY <1>2, <1>3, EngineInvariant, PTL DEF Spec

\* Step-level idempotency (NoStepRepeated): without overlapping calls a step
\* whose result is in the store is never invoked again, for every store,
\* whatever crashes, expires or fails to be written in between.
THEOREM StepsNotRepeated == Solo => (Spec => NoStepRepeated)
<1>1. SUFFICES ASSUME Solo PROVE Spec => NoStepRepeated
  OBVIOUS
<1>2. Inv /\ SoloInv => \A c \in Call : Invoke(c) => row.results[call[c].i] = None
  <2>1. SUFFICES ASSUME Inv, SoloInv, NEW c \in Call, Invoke(c)
                 PROVE  row.results[call[c].i] = None
    OBVIOUS
  <2>2. call[c].pc = "attempt"
    BY <2>1 DEF Invoke
  <2>3. call[c] \in CallState /\ LocalInv(call[c])
    BY <2>1 DEF Inv, TypeOK
  <2>4. call[c].i \in StepIndex /\ call[c].inst.results[call[c].i] = None
    BY <2>2, <2>3, StepFacts DEF LocalInv, CallState, StepIndex
  <2>5. QED
    BY <2>1, <2>2, <2>4 DEF SoloInv, Covers
<1>3. QED
  BY <1>1, <1>2, SoloInvariant, PTL DEF NoStepRepeated

\* A result that reached the store is neither dropped nor changed by any
\* later write (ResultsAreKept), without overlapping calls.
THEOREM ResultsStay == Solo => (Spec => ResultsAreKept)
<1>1. SUFFICES ASSUME Solo PROVE Spec => ResultsAreKept
  OBVIOUS
<1>2. Inv /\ SoloInv /\ [Next]_vars =>
        \A k \in StepIndex : row.results[k] # None => row'.results[k] = row.results[k]
  BY <1>1, SoloStep DEF Kept, Covers
<1>3. QED
  BY <1>1, <1>2, SoloInvariant, PTL DEF Spec, ResultsAreKept

-----------------------------------------------------------------------------
(* How far an instance got: StepResults and CurrentStep.                   *)

\* The row and every copy of it record an uninterrupted beginning.  A stale
\* copy may go back in the row, but to a shorter beginning.
OrderInv == InOrder(row) /\ \A c \in Call : InOrder(call[c].inst)

\* InOrder says nothing of the status and the input.
LEMMA SameOrder ==
  ASSUME NEW x, NEW y, InOrder(x), y.results = x.results, y.step = x.step
  PROVE  InOrder(y)
BY DEF InOrder

\* CurrentStep may be set to any step that every earlier one has a result of.
LEMMA StepOrder ==
  ASSUME NEW x, NEW y, InOrder(x), y.results = x.results,
         \A j \in 0 .. y.step - 1 : x.results[j] # None
  PROVE  InOrder(y)
BY DEF InOrder

\* A new instance has nothing to be out of order.
LEMMA NewOrder == \A s : InOrder(New(s)) /\ InOrder(IdleCall.inst)
<1>1. 0 .. (0 - 1) = {}
  BY SMT
<1>2. \A s : New(s).step = 0 /\ \A k \in StepIndex : New(s).results[k] = None
  BY DEF New, NoResults
<1>3. IdleCall.inst = New("NONE")
  BY DEF IdleCall
<1> QED
  BY <1>1, <1>2, <1>3 DEF InOrder

\* One call moves to the locals x, and has maybe written new to the row.
LEMMA OrderWrite ==
  ASSUME Inv, OrderInv, NEW c \in Call, NEW new, InOrder(new), row' = row \/ row' = new,
         NEW x, call' = [call EXCEPT ![c] = x], InOrder(x.inst)
  PROVE  OrderInv'
<1>1. call'[c] = x /\ \A d \in Call \ {c} : call'[d] = call[d]
  BY DEF Inv, TypeOK
<1>2. \A d \in Call : InOrder(call'[d].inst)
  BY <1>1 DEF OrderInv
<1>3. InOrder(row')
  BY DEF OrderInv
<1> QED
  BY <1>2, <1>3 DEF OrderInv, InOrder

\* It returns, at once or through its deferred release.
LEMMA OrderReturn ==
  ASSUME Inv, OrderInv, NEW c \in Call, NEW new, InOrder(new), row' = row \/ row' = new,
         Return(c) \/ ReturnThroughDefer(c)
  PROVE  OrderInv'
<1>1. call[c] \in CallState /\ InOrder(call[c].inst)
  BY DEF Inv, TypeOK, OrderInv
<1>2. CASE call' = [call EXCEPT ![c] = IdleCall]
  BY <1>2, NewOrder, OrderWrite, Zenon
<1>3. CASE call' = [call EXCEPT ![c].pc = "deferred"]
  <2> DEFINE x == [call[c] EXCEPT !.pc = "deferred"]
  <2>1. call' = [call EXCEPT ![c] = x] /\ x.inst = call[c].inst
    BY <1>1, <1>3 DEF CallState
  <2> HIDE DEF x
  <2> QED
    BY <1>1, <2>1, OrderWrite, Zenon
<1> QED
  BY <1>2, <1>3 DEF Return, ReturnThroughDefer

\* It stores its new copy.
LEMMA OrderStore ==
  ASSUME Inv, OrderInv, NEW c \in Call, NEW new, InOrder(new),
         NEW pc, NEW i, NEW a, NEW v, Store(c, new, pc, i, a, v)
  PROVE  OrderInv'
<1> DEFINE x == [call[c] EXCEPT !.pc = pc, !.inst = new, !.i = i,
                                !.attempt = a, !.current = v]
<1>1. call[c] \in CallState
  BY DEF Inv, TypeOK
<1>2. call' = [call EXCEPT ![c] = x] /\ x.inst = new /\ (row' = row \/ row' = new)
  BY <1>1, Zenon DEF Store, Persist, CallState
<1> HIDE DEF x
<1> QED
  BY <1>2, OrderWrite, Zenon

\* It only moves on.
LEMMA OrderMove ==
  ASSUME Inv, OrderInv, NEW c \in Call, row' = row,
         NEW x, call' = [call EXCEPT ![c] = x], x.inst = call[c].inst
  PROVE  OrderInv'
BY OrderWrite DEF OrderInv

\* The steps of a call that leave the results of its copy as they are: they
\* move CurrentStep back to 0, to the step that is about to run, or past a step
\* that has its result.
LEMMA OrderProceed ==
  ASSUME Inv, OrderInv, NEW c \in Call, Proceed(c), ~Succeed(c)
  PROVE  OrderInv'
<1> DEFINE i == call[c].i
           inst == call[c].inst
<1>1. /\ call[c] \in CallState /\ inst \in Instance /\ LocalInv(call[c])
      /\ InOrder(inst) /\ InOrder(row)
  BY DEF Inv, TypeOK, CallState, OrderInv
<1>2. \A s : /\ [inst EXCEPT !.status = s].results = inst.results
             /\ [inst EXCEPT !.status = s].step = inst.step
  BY <1>1 DEF Instance
<1>3. CASE SignalStore(c)
  <2> DEFINE new == [inst EXCEPT !.input = call[c].current]
  <2>1. new.results = inst.results /\ new.step = inst.step
    BY <1>1 DEF Instance
  <2>2. (row' = row \/ row' = new) /\ Return(c)
    BY <1>3 DEF SignalStore, Persist
  <2> HIDE DEF new
  <2>3. InOrder(new)
    BY <1>1, <2>1, SameOrder
  <2> QED
    BY <2>2, <2>3, OrderReturn
<1>4. CASE RecoverStore(c) \/ Cancel(c)
  <2> DEFINE new == [inst EXCEPT !.status = "FAILED"]
  <2>1. (row' = row \/ row' = new) /\ (Return(c) \/ ReturnThroughDefer(c))
    BY <1>4 DEF RecoverStore, Cancel, Persist
  <2>2. new.results = inst.results /\ new.step = inst.step
    BY <1>2
  <2> HIDE DEF new
  <2>3. InOrder(new)
    BY <1>1, <2>2, SameOrder
  <2> QED
    BY <2>1, <2>3, OrderReturn
<1>5. CASE MarkFails(c) \/ Release(c) \/ DeferredRelease(c)
  <2>1. row' = row /\ (Return(c) \/ ReturnThroughDefer(c))
    BY <1>5 DEF MarkFails, Release, DeferredRelease
  <2> QED
    BY <1>1, <2>1, OrderReturn
<1>6. CASE Mark(c)
  <2> DEFINE new == Marked(c)
             x == [call[c] EXCEPT !.pc = "loop", !.inst = new, !.i = new.step,
                                  !.current = new.input]
  <2>1. new.results = inst.results /\ (new.step = inst.step \/ new.step = 0)
    BY <1>1 DEF Marked, Instance
  <2>2. row' = new
    BY <1>6 DEF Mark
  <2>3. call' = [call EXCEPT ![c] = x] /\ x.inst = new
    <3> HIDE DEF inst
    <3> QED
      BY <1>1, <1>6, Zenon DEF Mark, CallState
  <2> HIDE DEF new, x
  <2>4. 0 .. (0 - 1) = {}
    BY SMT
  <2>5. InOrder(new)
    BY <1>1, <2>1, <2>4, SameOrder, StepOrder
  <2> QED
    BY <2>2, <2>3, <2>5, OrderWrite, Zenon
<1>7. CASE Acquire(c)
  <2>1. CASE Return(c)
    BY <1>1, <1>7, <2>1, OrderReturn DEF Acquire
  <2>2. CASE call' = [call EXCEPT ![c].pc = "mark"]
    <3> DEFINE x == [call[c] EXCEPT !.pc = "mark"]
    <3>1. call' = [call EXCEPT ![c] = x] /\ x.inst = inst /\ row' = row
      BY <1>1, <1>7, <2>2 DEF CallState, Acquire
    <3> HIDE DEF x
    <3> QED
      BY <3>1, OrderMove, Zenon
  <2> QED
    BY <1>7, <2>1, <2>2 DEF Acquire
<1>8. CASE Renew(c) \/ Invoke(c)
  <2> DEFINE x(pc) == [call[c] EXCEPT !.pc = pc]
  <2>1. row' = row /\ \E pc \in {"top", "invoked"} : call' = [call EXCEPT ![c] = x(pc)]
    BY <1>8 DEF Renew, Invoke
  <2>2. \A pc : x(pc).inst = inst
    BY <1>1 DEF CallState
  <2> HIDE DEF x
  <2> QED
    BY <2>1, <2>2, OrderMove, Zenon
<1>9. CASE Retry(c)
  <2> DEFINE x == [call[c] EXCEPT !.pc = "attempt", !.attempt = @ + 1]
  <2>1. call' = [call EXCEPT ![c] = x] /\ row' = row /\ x.inst = inst
    BY <1>1, <1>9, Zenon DEF CallState, Retry
  <2> HIDE DEF x
  <2> QED
    BY <2>1, OrderMove, Zenon
<1>10. CASE Skip(c)
  <2> DEFINE new == [inst EXCEPT !.step = i + 1]
  <2>1. Store(c, new, "loop", i + 1, 1, inst.results[i])
    BY <1>10 DEF Skip
  <2>2. new.results = inst.results /\ new.step = i + 1
    BY <1>1 DEF Instance
  <2>3. inst.results[i] # None /\ \A j \in 0 .. i - 1 : inst.results[j] # None
    BY <1>1, <1>10 DEF Skip, LocalInv
  <2>4. \A j \in 0 .. (i + 1) - 1 : j = i \/ j \in 0 .. i - 1
    BY <1>1, StepFacts DEF CallState
  <2> HIDE DEF new, i, inst
  <2>5. InOrder(new)
    BY <1>1, <2>2, <2>3, <2>4, StepOrder
  <2> QED
    BY <2>1, <2>5, OrderStore
<1>11. CASE Enter(c)
  <2> DEFINE new == [inst EXCEPT !.step = i]
  <2>1. Store(c, new, "attempt", i, 1, call[c].current)
    BY <1>11 DEF Enter
  <2>2. new.results = inst.results /\ new.step = i
    BY <1>1 DEF Instance
  <2>3. \A j \in 0 .. i - 1 : inst.results[j] # None
    BY <1>1, <1>11 DEF Enter, LocalInv
  <2> HIDE DEF new, i, inst
  <2>4. InOrder(new)
    BY <1>1, <2>2, <2>3, StepOrder
  <2> QED
    BY <2>1, <2>4, OrderStore
<1>12. CASE Park(c) \/ Fail(c)
  <2> DEFINE new(s) == [inst EXCEPT !.status = s]
  <2>1. \E s : Store(c, new(s), "release", i, 1, Data)
    BY <1>12, Zenon DEF Park, Fail
  <2>2. \A s : new(s).results = inst.results /\ new(s).step = inst.step
    BY <1>2
  <2> HIDE DEF new
  <2>3. \A s : InOrder(new(s))
    BY <1>1, <2>2, SameOrder
  <2> QED
    BY <2>1, <2>3, OrderStore
<1>13. CASE Complete(c)
  <2> DEFINE new == [inst EXCEPT !.status = "COMPLETED", !.step = N]
  <2>1. Store(c, new, "release", N, 1, Data)
    BY <1>13 DEF Complete
  <2>2. new.results = inst.results /\ new.step = N
    BY <1>1 DEF Instance
  <2>3. \A j \in 0 .. N - 1 : inst.results[j] # None
    BY <1>1, <1>13 DEF Complete, LocalInv
  <2> HIDE DEF new, inst
  <2>4. InOrder(new)
    BY <1>1, <2>2, <2>3, StepOrder
  <2> QED
    BY <2>1, <2>4, OrderStore
<1> HIDE DEF i, inst
<1> QED
  BY <1>3, <1>4, <1>5, <1>6, <1>7, <1>8, <1>9, <1>10, <1>11, <1>12, <1>13 DEF Proceed

\* The step that adds a result adds it right after the ones there are: it is
\* the first that has none.
LEMMA OrderSucceed ==
  ASSUME Inv, OrderInv, NEW c \in Call, Succeed(c)
  PROVE  OrderInv'
<1> DEFINE i == call[c].i
           inst == call[c].inst
           v == Returned(i, call[c].current)
           new == [inst EXCEPT !.results[i] = v]
<1>1. call[c].pc = "invoked" /\ Store(c, new, "loop", i + 1, 1, v)
  BY DEF Succeed
<1>2. /\ call[c] \in CallState /\ inst \in Instance /\ LocalInv(call[c]) /\ InOrder(inst)
  BY DEF Inv, TypeOK, CallState, OrderInv
<1>3. /\ i \in StepIndex /\ inst.step = i /\ v \in Value /\ v # None
      /\ \A j \in 0 .. i - 1 : inst.results[j] # None
  <2>1. i \in StepIndex /\ inst.step = i /\ \A j \in 0 .. i - 1 : inst.results[j] # None
    BY <1>1, <1>2, StepFacts DEF LocalInv, CallState, StepIndex
  <2>2. v \in Value
    BY <1>2 DEF CallState, Returned, Value
  <2> QED
    BY <2>1, <2>2, EngineAssumption DEF Value
<1> HIDE DEF v, i
<1>4. inst.results \in [StepIndex -> Value \cup {None}]
  BY <1>2 DEF Instance
<1>5. new.step = i /\ new.results = [inst.results EXCEPT ![i] = v]
  BY <1>2, <1>3 DEF Instance
<1>6. \A j \in StepIndex : inst.results[j] # None => new.results[j] # None
  BY <1>3, <1>4, <1>5
<1>7. \A k \in StepIndex : 0 .. k - 1 \subseteq StepIndex
  BY StepFacts DEF StepIndex
<1>8. \A k \in StepIndex : k # i => new.results[k] = inst.results[k]
  BY <1>3, <1>4, <1>5
<1> HIDE DEF new, inst
<1>9. InOrder(new)
  <2>1. \A j \in 0 .. i - 1 : new.results[j] # None
    BY <1>3, <1>6, <1>7
  <2>2. ASSUME NEW k \in StepIndex, k # i, new.results[k] # None
        PROVE  \A j \in 0 .. k - 1 : new.results[j] # None
    BY <1>2, <1>6, <1>7, <1>8, <2>2 DEF InOrder
  <2> QED
    BY <1>5, <2>1, <2>2 DEF InOrder
<1> QED
  BY <1>1, <1>9, OrderStore

\* A call begins with a new instance or with a copy of the row.
LEMMA OrderBegin ==
  ASSUME Inv, OrderInv, NEW c \in Call, Begin(c)
  PROVE  OrderInv'
<1>1. CASE Run(c)
  <2> DEFINE x == [IdleCall EXCEPT !.pc = "loop", !.inst = New("RUNNING")]
  <2>1. x.inst = New("RUNNING")
    BY DEF IdleCall
  <2>2. call' = [call EXCEPT ![c] = x] /\ row' = New("RUNNING")
    BY <1>1 DEF Run
  <2> HIDE DEF x
  <2> QED
    BY <2>1, <2>2, NewOrder, OrderWrite, Zenon
<1>2. CASE Start(c)
  <2>1. call' = call /\ row' = New("PENDING")
    BY <1>2 DEF Start
  <2> QED
    BY <2>1, NewOrder DEF OrderInv, InOrder
<1>3. ASSUME NEW m, NEW pc, NEW v, Load(c, m, pc, v) PROVE OrderInv'
  <2> DEFINE x == [IdleCall EXCEPT !.pc = pc, !.op = m, !.inst = row, !.seen = lease, !.current = v]
  <2>1. x.inst = row
    BY DEF IdleCall
  <2>2. call' = [call EXCEPT ![c] = x] /\ row' = row
    BY <1>3 DEF Load
  <2> HIDE DEF x
  <2> QED
    BY <2>1, <2>2, OrderWrite DEF OrderInv
<1> QED
  BY <1>1, <1>2, <1>3 DEF Begin, RunInstance, RunInstanceRefused, Resume, RecoverBegin,
                          SignalNow, SignalBegin

\* Every step of the engine keeps OrderInv.
LEMMA OrderStep ==
  ASSUME Inv, OrderInv, [Next]_vars
  PROVE  OrderInv'
<1>1. CASE UNCHANGED vars
  BY <1>1 DEF vars, OrderInv, InOrder
<1>2. ASSUME NEW c \in Call, Begin(c) \/ Proceed(c) PROVE OrderInv'
  BY <1>2, OrderBegin, OrderProceed, OrderSucceed
<1>3. ASSUME NEW e \in Engine, Crash(e) PROVE OrderInv'
  <2>1. row' = row /\ \A d \in Call : call'[d] = IdleCall \/ call'[d] = call[d]
    BY <1>3 DEF Crash
  <2>2. InOrder(row') /\ \A d \in Call : InOrder(call'[d].inst)
    BY <2>1, NewOrder DEF OrderInv
  <2> QED
    BY <2>2 DEF OrderInv, InOrder
<1>4. CASE Expire \/ \E e \in Engine : GetInstance(e)
  <2>1. row' = row /\ call' = call
    BY <1>4 DEF Expire, GetInstance
  <2> QED
    BY <2>1 DEF OrderInv, InOrder
<1> QED
  BY <1>1, <1>2, <1>3, <1>4 DEF Next

\* The invariant of the order of results.
LEMMA OrderInvariant == Spec => [](Inv /\ OrderInv)
<1>1. Init => OrderInv
  BY NewOrder DEF Init, OrderInv
<1>2. Inv /\ OrderInv /\ [Next]_vars => OrderInv'
  BY OrderStep
<1> QED
  BY <1>1, <1>2, EngineInvariant, PTL DEF Spec

\* StepResults in the store never has a gap and CurrentStep never runs ahead of
\* it (ResultsInOrder): for every store and any number of engines, with calls
\* that overlap, write stale copies, fail to write or crash.
THEOREM ResultsOrdered == Spec => []ResultsInOrder
<1>1. OrderInv => ResultsInOrder
  BY DEF OrderInv, ResultsInOrder
<1> QED
  BY <1>1, OrderInvariant, PTL

-----------------------------------------------------------------------------
(* The life of the stored instance, as the module Lifecycle has it.        *)

\* The locals x of the call in progress and the row r: until the call writes,
\* its copy is the row, and while it executes steps, the row says RUNNING.
Synced(x, r) ==
  /\ x.pc \in {"acquire", "mark", "signal", "recover"} => x.inst = r
  /\ x.pc \in {"loop", "top", "attempt", "invoked"} => r.status = "RUNNING"

SyncInv == \A c \in Call : Synced(call[c], row)

\* A step of the abstract specification, or a stutter.
LifeStep == [Abstract!Next]_<<row.status, row.results>>

\* Whatever is written over a RUNNING row is progress, provided that the new
\* row is in order, earns its status and keeps the results.
LEMMA LifeGoesOn ==
  ASSUME Inv', OrderInv', Kept, row.status = "RUNNING",
         row'.status \notin {"NONE", "PENDING"}
  PROVE  LifeStep
<1>1. row' \in Instance /\ Earned(row')
  <2>1. Inv' => row' \in Instance /\ Earned(row)'
    BY DEF Inv, TypeOK
  <2> QED
    BY <2>1 DEF Earned
<1>2. InOrder(row')
  BY DEF OrderInv, InOrder
<1>3. StepIndex = Abstract!StepIndex
  BY DEF StepIndex, Abstract!StepIndex
<1>4. Abstract!Progress
  BY <1>1, <1>2, <1>3 DEF Abstract!Progress, Abstract!NoGap, InOrder, Instance, Kept, Covers
<1>5. row'.status \in {"RUNNING", "WAITING", "COMPLETED", "FAILED"}
  BY <1>1 DEF Instance, Status
<1>6. row'.status = "COMPLETED" => \A k \in Abstract!StepIndex : row'.results[k] # None
  BY <1>1, <1>3 DEF Earned
<1>7. row'.status = "WAITING" => \E k \in Abstract!StepIndex : row'.results[k] = None
  BY <1>1, <1>3 DEF Earned
<1> QED
  BY <1>4, <1>5, <1>6, <1>7 DEF LifeStep, Abstract!Next, Abstract!Record, Abstract!Settle

\* A row whose status and results are left alone is a stutter.
LEMMA LifeStays ==
  ASSUME row'.status = row.status, row'.results = row.results
  PROVE  LifeStep
BY DEF LifeStep

\* Only the call in progress has to agree with the row.
LEMMA SyncMove ==
  ASSUME Inv, SoloInv, NEW c \in Call, call[c].pc # "idle",
         NEW x, call' = [call EXCEPT ![c] = x], Synced(x, row')
  PROVE  SyncInv'
<1>1. call'[c] = x /\ \A d \in Call \ {c} : call'[d] = call[d] /\ call[d].pc = "idle"
  BY DEF Inv, TypeOK, SoloInv
<1>2. \A d \in Call : Synced(call'[d], row')
  BY <1>1 DEF Synced
<1> QED
  BY <1>2 DEF SyncInv, Synced

\* A call that is through with its copy.
LEMMA SyncReturn ==
  ASSUME Inv, SoloInv, NEW c \in Call, call[c].pc # "idle",
         Return(c) \/ ReturnThroughDefer(c)
  PROVE  SyncInv'
<1>1. call[c] \in CallState
  BY DEF Inv, TypeOK
<1>2. CASE call' = [call EXCEPT ![c] = IdleCall]
  <2>1. Synced(IdleCall, row')
    BY DEF Synced, IdleCall
  <2> QED
    BY <1>2, <2>1, SyncMove, Zenon
<1>3. CASE call' = [call EXCEPT ![c].pc = "deferred"]
  <2> DEFINE x == [call[c] EXCEPT !.pc = "deferred"]
  <2>1. call' = [call EXCEPT ![c] = x] /\ x.pc = "deferred"
    BY <1>1, <1>3 DEF CallState
  <2> HIDE DEF x
  <2>2. Synced(x, row')
    BY <2>1 DEF Synced
  <2> QED
    BY <2>1, <2>2, SyncMove, Zenon
<1> QED
  BY <1>2, <1>3 DEF Return, ReturnThroughDefer

\* The calls that begin: an instance is created, or loaded and not written yet.
LEMMA LifeBegin ==
  ASSUME Solo, Inv, SoloInv, NEW c \in Call, Begin(c)
  PROVE  SyncInv' /\ LifeStep
<1>1. \A d \in Call : call[d].pc = "idle"
  BY AloneBegins
<1>2. call \in [Call -> CallState]
  BY DEF Inv, TypeOK
<1>3. ASSUME NEW x, call' = [call EXCEPT ![c] = x], Synced(x, row') PROVE SyncInv'
  <2>1. call'[c] = x /\ \A d \in Call \ {c} : call'[d].pc = "idle"
    BY <1>1, <1>2, <1>3
  <2>2. \A d \in Call : Synced(call'[d], row')
    BY <1>3, <2>1 DEF Synced
  <2> QED
    BY <2>2 DEF SyncInv, Synced
<1>4. ASSUME NEW s \in {"RUNNING", "PENDING"}, row.status = "NONE", row' = New(s)
      PROVE  LifeStep
  <2>1. row'.status = s /\ row'.results = row.results
    BY <1>4 DEF SoloInv, New
  <2> QED
    BY <1>4, <2>1 DEF LifeStep, Abstract!Next, Abstract!Create
<1>5. CASE Run(c)
  <2> DEFINE x == [IdleCall EXCEPT !.pc = "loop", !.inst = New("RUNNING")]
  <2>1. call' = [call EXCEPT ![c] = x] /\ row' = New("RUNNING") /\ row.status = "NONE"
    BY <1>5 DEF Run
  <2>2. x.pc = "loop" /\ row'.status = "RUNNING"
    BY <2>1 DEF IdleCall, New
  <2> HIDE DEF x
  <2>3. Synced(x, row')
    BY <2>2 DEF Synced
  <2> QED
    BY <1>3, <1>4, <2>1, <2>3, Zenon
<1>6. CASE Start(c)
  <2>1. call' = call /\ row' = New("PENDING") /\ row.status = "NONE"
    BY <1>6 DEF Start
  <2>2. SyncInv'
    BY <1>1, <2>1 DEF SyncInv, Synced
  <2> QED
    BY <1>4, <2>1, <2>2
<1>7. ASSUME NEW m, NEW pc \in {"acquire", "signal", "recover"}, NEW v, Load(c, m, pc, v)
      PROVE  SyncInv' /\ LifeStep
  <2> DEFINE x == [IdleCall EXCEPT !.pc = pc, !.op = m, !.inst = row, !.seen = lease, !.current = v]
  <2>1. x.inst = row /\ x.pc = pc
    BY DEF IdleCall
  <2>2. call' = [call EXCEPT ![c] = x] /\ row' = row
    BY <1>7 DEF Load
  <2> HIDE DEF x
  <2>3. Synced(x, row')
    BY <1>7, <2>1, <2>2 DEF Synced
  <2> QED
    BY <1>3, <2>2, <2>3, LifeStays, Zenon
<1> QED
  BY <1>5, <1>6, <1>7 DEF Begin, RunInstance, RunInstanceRefused, Resume, RecoverBegin,
                          SignalNow, SignalBegin

\* The calls that write what they loaded: the results of the row stay.
LEMMA LifeEntry ==
  ASSUME Inv, SoloInv, SyncInv, NEW c \in Call,
         \/ SignalStore(c) \/ RecoverStore(c) \/ Acquire(c) \/ Mark(c) \/ MarkFails(c)
         \/ Release(c) \/ DeferredRelease(c)
  PROVE  SyncInv' /\ LifeStep
<1> DEFINE inst == call[c].inst
<1>1. call[c].pc \in {"acquire", "mark", "signal", "recover", "release", "deferred"}
  BY DEF SignalStore, RecoverStore, Acquire, Mark, MarkFails, Release, DeferredRelease
<1>2. call[c] \in CallState /\ inst \in Instance /\ inst.status # "NONE"
  BY <1>1 DEF Inv, TypeOK, CallState, SoloInv
<1>3. call[c].pc \in {"acquire", "mark", "signal", "recover"} => inst = row
  BY DEF SyncInv, Synced
<1>4. CASE SignalStore(c)
  <2> DEFINE new == [inst EXCEPT !.input = call[c].current]
  <2>1. new.results = inst.results /\ new.status = inst.status
    BY <1>2 DEF Instance
  <2>2. (row' = new \/ row' = row) /\ Return(c) /\ inst = row
    BY <1>3, <1>4 DEF SignalStore, Persist
  <2> HIDE DEF new, inst
  <2> QED
    BY <1>1, <2>1, <2>2, SyncReturn, LifeStays
<1>5. CASE RecoverStore(c)
  <2> DEFINE new == [inst EXCEPT !.status = "FAILED"]
  <2>1. new.results = inst.results /\ new.status = "FAILED"
    BY <1>2 DEF Instance
  <2>2. (row' = new \/ row' = row) /\ Return(c) /\ inst = row
    BY <1>3, <1>5 DEF RecoverStore, Persist
  <2> HIDE DEF new, inst
  <2>3. LifeStep
    BY <1>2, <2>1, <2>2, LifeStays DEF LifeStep, Abstract!Next, Abstract!Interrupt
  <2> QED
    BY <1>1, <2>2, <2>3, SyncReturn
<1>6. CASE MarkFails(c) \/ Release(c) \/ DeferredRelease(c)
  <2>1. row' = row /\ (Return(c) \/ ReturnThroughDefer(c))
    BY <1>6 DEF MarkFails, Release, DeferredRelease
  <2> QED
    BY <1>1, <2>1, SyncReturn, LifeStays
<1>7. CASE Acquire(c)
  <2>1. row' = row
    BY <1>7 DEF Acquire
  <2>2. CASE Return(c)
    BY <1>1, <2>1, <2>2, SyncReturn, LifeStays
  <2>3. CASE call' = [call EXCEPT ![c].pc = "mark"]
    <3> DEFINE x == [call[c] EXCEPT !.pc = "mark"]
    <3>1. call' = [call EXCEPT ![c] = x] /\ x.pc = "mark" /\ x.inst = inst
      BY <1>2, <2>3 DEF CallState
    <3>2. inst = row
      BY <1>3, <1>7 DEF Acquire
    <3> HIDE DEF x, inst
    <3>3. Synced(x, row')
      BY <2>1, <3>1, <3>2 DEF Synced
    <3> QED
      BY <1>1, <2>1, <3>1, <3>3, SyncMove, LifeStays, Zenon
  <2> QED
    BY <1>7, <2>2, <2>3 DEF Acquire
<1>8. CASE Mark(c)
  <2> DEFINE new == Marked(c)
             x == [call[c] EXCEPT !.pc = "loop", !.inst = new, !.i = new.step,
                                  !.current = new.input]
  <2>1. new.results = inst.results /\ new.status = "RUNNING"
    BY <1>2 DEF Marked, Instance
  <2>2. row' = new /\ inst = row
    BY <1>3, <1>8 DEF Mark
  <2>3. call' = [call EXCEPT ![c] = x] /\ x.pc = "loop"
    <3> HIDE DEF inst
    <3> QED
      BY <1>2, <1>8, Zenon DEF Mark, CallState
  <2> HIDE DEF new, x, inst
  <2>4. LifeStep
    BY <1>2, <2>1, <2>2 DEF LifeStep, Abstract!Next, Abstract!Begin
  <2>5. Synced(x, row')
    BY <2>1, <2>2, <2>3 DEF Synced
  <2> QED
    BY <1>1, <2>3, <2>4, <2>5, SyncMove, Zenon
<1> HIDE DEF inst
<1> QED
  BY <1>4, <1>5, <1>6, <1>7, <1>8

\* The steps of executeSteps: the row is RUNNING before and, unless the call
\* has left the loop, after.
LEMMA LifeExecute ==
  ASSUME Inv, SoloInv, SyncInv, Inv', OrderInv', Kept, NEW c \in Call,
         \/ Renew(c) \/ Skip(c) \/ Enter(c) \/ Cancel(c) \/ Invoke(c)
         \/ Succeed(c) \/ Park(c) \/ Retry(c) \/ Fail(c) \/ Complete(c)
  PROVE  SyncInv' /\ LifeStep
<1> DEFINE inst == call[c].inst
<1>1. call[c].pc \in {"loop", "top", "attempt", "invoked"}
  BY DEF Renew, Skip, Enter, Cancel, Invoke, Succeed, Park, Retry, Fail, Complete
<1>2. call[c] \in CallState /\ inst \in Instance /\ inst.status = "RUNNING"
  BY <1>1, Zenon DEF Inv, TypeOK, CallState, LocalInv
<1>3. row.status = "RUNNING"
  BY <1>1, Zenon DEF SyncInv, Synced
<1>4. ASSUME NEW x, call' = [call EXCEPT ![c] = x], Synced(x, row'),
             row'.status \notin {"NONE", "PENDING"}
      PROVE  SyncInv' /\ LifeStep
  BY <1>1, <1>3, <1>4, SyncMove, LifeGoesOn, Zenon
<1>5. CASE Renew(c) \/ Invoke(c)
  <2> DEFINE x(pc) == [call[c] EXCEPT !.pc = pc]
  <2>1. row' = row /\ \E pc \in {"top", "invoked"} : call' = [call EXCEPT ![c] = x(pc)]
    BY <1>5 DEF Renew, Invoke
  <2>2. \A pc : x(pc).pc = pc
    BY <1>2 DEF CallState
  <2> HIDE DEF x
  <2>3. \A pc \in {"top", "invoked"} : Synced(x(pc), row')
    BY <1>3, <2>1, <2>2 DEF Synced
  <2> QED
    BY <1>3, <1>4, <2>1, <2>3, Zenon
<1>r. CASE Retry(c)
  <2> DEFINE x == [call[c] EXCEPT !.pc = "attempt", !.attempt = @ + 1]
  <2>1. call' = [call EXCEPT ![c] = x] /\ row' = row /\ x.pc = "attempt"
    BY <1>2, <1>r, Zenon DEF CallState, Retry
  <2> HIDE DEF x
  <2>2. Synced(x, row')
    BY <1>3, <2>1 DEF Synced
  <2> QED
    BY <1>3, <1>4, <2>1, <2>2, Zenon
<1>6. CASE Cancel(c)
  <2> DEFINE new == [inst EXCEPT !.status = "FAILED"]
  <2>1. (row' = new \/ row' = row) /\ ReturnThroughDefer(c)
    BY <1>6 DEF Cancel, Persist
  <2>2. new.status = "FAILED"
    BY <1>2 DEF Instance
  <2> HIDE DEF new
  <2> QED
    BY <1>1, <1>3, <2>1, <2>2, SyncReturn, LifeGoesOn
<1>7. ASSUME NEW new, NEW pc, NEW i, NEW a, NEW v, Store(c, new, pc, i, a, v),
             \/ pc \in {"loop", "attempt"} /\ new.status = "RUNNING"
             \/ pc = "release" /\ new.status \in {"WAITING", "FAILED", "COMPLETED"}
      PROVE  SyncInv' /\ LifeStep
  <2> DEFINE x == [call[c] EXCEPT !.pc = pc, !.inst = new, !.i = i,
                                  !.attempt = a, !.current = v]
  <2>1. row' = new \/ row' = row
    BY <1>7 DEF Store, Persist
  <2>2. call' = [call EXCEPT ![c] = x] /\ x.pc = pc
    BY <1>2, <1>7, Zenon DEF Store, CallState
  <2> HIDE DEF x
  <2>3. Synced(x, row')
    BY <1>3, <1>7, <2>1, <2>2, Zenon DEF Synced
  <2> QED
    BY <1>3, <1>4, <1>7, <2>1, <2>2, <2>3, Zenon
<1>8. CASE Skip(c) \/ Enter(c) \/ Succeed(c)
  <2>1. \A k : [inst EXCEPT !.step = k].status = "RUNNING"
    BY <1>2 DEF Instance
  <2>2. \A k, v : [inst EXCEPT !.results[k] = v].status = "RUNNING"
    BY <1>2 DEF Instance
  <2>3. \E new, i, a, v : /\ Store(c, new, "loop", i, a, v) \/ Store(c, new, "attempt", i, a, v)
                          /\ new.status = "RUNNING"
    <3>1. CASE Skip(c)
      BY <2>1, <3>1, Zenon DEF Skip
    <3>2. CASE Enter(c)
      BY <2>1, <3>2, Zenon DEF Enter
    <3>3. CASE Succeed(c)
      BY <2>2, <3>3, Zenon DEF Succeed
    <3>4. QED
      BY <1>8, <3>1, <3>2, <3>3
  <2> QED
    BY <1>7, <2>3
<1>9. CASE Park(c) \/ Fail(c) \/ Complete(c)
  <2>1. \A s : [inst EXCEPT !.status = s].status = s
    BY <1>2 DEF Instance
  <2>2. [inst EXCEPT !.status = "COMPLETED", !.step = N].status = "COMPLETED"
    BY <1>2 DEF Instance
  <2>3. \E new, i, a, v : /\ Store(c, new, "release", i, a, v)
                          /\ new.status \in {"WAITING", "FAILED", "COMPLETED"}
    BY <1>9, <2>1, <2>2, Zenon DEF Park, Fail, Complete
  <2> QED
    BY <1>7, <2>3
<1> HIDE DEF inst
<1> QED
  BY <1>5, <1>r, <1>6, <1>8, <1>9

\* The invariant of the refinement, and that every step is one of Lifecycle.
LEMMA LifeFollows ==
  ASSUME Solo, Inv, SoloInv, SyncInv, Inv', OrderInv', Kept, [Next]_vars
  PROVE  SyncInv' /\ LifeStep
<1>1. CASE UNCHANGED vars
  BY <1>1, LifeStays DEF vars, SyncInv, Synced
<1>2. ASSUME NEW c \in Call, Begin(c) \/ Proceed(c) PROVE SyncInv' /\ LifeStep
  <2>1. CASE Begin(c)
    BY <2>1, LifeBegin
  <2>2. CASE Proceed(c)
    BY <2>2, LifeEntry, LifeExecute DEF Proceed
  <2> QED
    BY <1>2, <2>1, <2>2
<1>3. ASSUME NEW e \in Engine, Crash(e) PROVE SyncInv' /\ LifeStep
  <2>1. row' = row /\ \A d \in Call : call'[d] = IdleCall \/ call'[d] = call[d]
    BY <1>3 DEF Crash
  <2>2. IdleCall.pc = "idle"
    BY DEF IdleCall
  <2>3. SyncInv'
    BY <2>1, <2>2 DEF SyncInv, Synced
  <2> QED
    BY <2>1, <2>3, LifeStays
<1>4. CASE Expire \/ \E e \in Engine : GetInstance(e)
  <2>1. row' = row /\ call' = call
    BY <1>4 DEF Expire, GetInstance
  <2> QED
    BY <2>1, LifeStays DEF SyncInv, Synced
<1> QED
  BY <1>1, <1>2, <1>3, <1>4 DEF Next

\* An engine whose calls do not overlap implements Lifecycle (KeepsLifecycle):
\* for every store, any definition, and with crashes, expiring leases and
\* writes that fail at any point.
THEOREM LifecycleKept == Solo => (Spec => KeepsLifecycle)
<1>1. SUFFICES ASSUME Solo PROVE Spec => KeepsLifecycle
  OBVIOUS
<1>2. Init => SyncInv
  BY DEF Init, SyncInv, Synced, IdleCall
<1>3. Init => Abstract!Init
  BY DEF Init, New, NoResults, StepIndex, Abstract!Init, Abstract!StepIndex
<1>4. Inv /\ SoloInv /\ SyncInv /\ Inv' /\ OrderInv' /\ [Next]_vars => SyncInv' /\ LifeStep
  BY <1>1, SoloStep, LifeFollows
<1> QED
  BY <1>1, <1>2, <1>3, <1>4, SoloInvariant, OrderInvariant, PTL
     DEF Spec, KeepsLifecycle, Abstract!Spec, LifeStep
=============================================================================
