------------------------- MODULE LocalRunnerProofs --------------------------
(***************************************************************************)
(* The safety properties of LocalRunner and Parallel, for any number of    *)
(* goroutines, child steps, tasks, and calls of StartWorkers and Stop.     *)
(***************************************************************************)
EXTENDS LocalRunner, FiniteSetTheorems, TLAPS

\* What holds of the locals of one execution: the error of its context comes
\* from its context, whoever cancels the siblings has recorded an error, and
\* whoever is done has a result or has recorded an error.
FanInv(x) ==
  /\ fan[x].firstErr = "ctx" => x \in cancelled
  /\ fan[x].stop => fan[x].firstErr # "none"
  /\ \A b \in Branch : fan[x].branch[b] = "cancel" => fan[x].firstErr # "none"
  /\ fan[x].forked => \A b \in Branch :
       fan[x].branch[b] = "done" => b \in fan[x].results \/ fan[x].firstErr # "none"
  /\ ~fan[x].forked => Finished(x) /\ ~fan[x].stop

\* Goroutines fork in their step only, and have a task from Dequeue to Ack.
LoopInv(x) ==
  /\ fan[x].forked => loop[x] = "step"
  /\ loop[x] \in {"off", "dequeue"} <=> hand[x] = 0
  /\ x[1] > gen => loop[x] = "off"

\* Stop is about a generation that was started, which the runner does not run
\* any more.  Once it has returned, that one and those before it are over.
StopInv(s) ==
  /\ stop[s].gen <= gen
  /\ stop[s].gen = gen => ~running
  /\ stop[s].pc = "returned" => \A x \in Exec : x[1] <= stop[s].gen => loop[x] = "off"

Inv ==
  /\ TypeOK
  /\ \A x \in Exec : FanInv(x) /\ LoopInv(x)
  /\ \A s \in Stopper : StopInv(s)
  /\ TaskKept

\* The invariant holds when the runner is made.
THEOREM InitInv == Init => Inv
<1> SUFFICES ASSUME Init PROVE Inv
  OBVIOUS
<1> USE RunnerAssumption DEF Init, ParallelInit, NoFan
<1>1. TypeOK
  <2>1. NoFan \in Fan
    BY DEF Fan, Error
  <2>2. fan \in [Exec -> Fan]
    BY <2>1
  <2>3. queue \in Seq(Task) /\ stop \in [Stopper -> [pc : {"idle", "cancel", "wait", "woken", "returned"}, gen : {0} \cup Gen]]
    OBVIOUS
  <2> QED
    BY <2>2, <2>3 DEF TypeOK
<1>2. ASSUME NEW x \in Exec PROVE FanInv(x) /\ LoopInv(x)
  BY DEF FanInv, LoopInv, Finished
<1>3. ASSUME NEW s \in Stopper PROVE StopInv(s)
  BY DEF StopInv
<1>4. TaskKept
  BY DEF TaskKept
<1> QED
  BY <1>1, <1>2, <1>3, <1>4 DEF Inv

\* One execution gets other locals, and no other one does.
LEMMA FanSet ==
  ASSUME fan \in [Exec -> Fan], NEW x \in Exec, NEW g \in Fan, fan' = [fan EXCEPT ![x] = g]
  PROVE  /\ fan' \in [Exec -> Fan] /\ fan'[x] = g
         /\ \A y \in Exec : y # x => fan'[y] = fan[y]
OBVIOUS

\* A goroutine b of the execution x gets on to br, with the error e, the results
\* rs and the cancellation st recorded; nothing that was recorded is lost, and
\* whoever is done has recorded something.
Records(x, b, br, e, rs, st) ==
  /\ br \in {"ready", "running", "cancel", "done"} /\ e \in Error
  /\ rs \in SUBSET Branch /\ st \in BOOLEAN
  /\ fan' = [fan EXCEPT ![x] = [fan[x] EXCEPT !.branch = [fan[x].branch EXCEPT ![b] = br],
                                 !.firstErr = e, !.results = rs, !.stop = st]]
  /\ e = "ctx" => x \in cancelled
  /\ st \/ br = "cancel" \/ fan[x].firstErr # "none" => e # "none"
  /\ br = "done" => b \in rs \/ e # "none"
  /\ fan[x].results \subseteq rs

FansKept ==
  /\ fan' \in [Exec -> Fan]
  /\ \A y \in Exec : FanInv(y)' /\ fan'[y].forked = fan[y].forked

\* Such a step keeps the invariant of the executions.
LEMMA FanStep ==
  ASSUME NEW x \in Exec, NEW b \in Branch, cancelled' = cancelled,
         fan \in [Exec -> Fan], \A y \in Exec : FanInv(y), fan[x].forked,
         NEW br, NEW e, NEW rs, NEW st, Records(x, b, br, e, rs, st)
  PROVE  FansKept
<1> USE DEF Records, FansKept
<1> DEFINE g == [fan[x] EXCEPT !.branch = [fan[x].branch EXCEPT ![b] = br],
                   !.firstErr = e, !.results = rs, !.stop = st]
<1>1. fan[x] \in Fan /\ FanInv(x)
  OBVIOUS
<1>2. /\ g.forked = fan[x].forked /\ g.branch = [fan[x].branch EXCEPT ![b] = br]
      /\ g.firstErr = e /\ g.results = rs /\ g.stop = st
  BY <1>1 DEF Fan
<1>3. g \in Fan
  BY <1>1 DEF Fan
<1>4. fan'[x] = g /\ \A y \in Exec : y # x => fan'[y] = fan[y]
  OBVIOUS
<1>5. FanInv(x)'
  <2> HIDE DEF g
  <2>1. fan'[x].firstErr = "ctx" => x \in cancelled'
    BY <1>2, <1>4
  <2>2. fan'[x].stop => fan'[x].firstErr # "none"
    BY <1>2, <1>4
  <2>3. \A c \in Branch : fan'[x].branch[c] = "cancel" => fan'[x].firstErr # "none"
    BY <1>1, <1>2, <1>4 DEF FanInv, Fan
  <2>4. \A c \in Branch : fan'[x].branch[c] = "done" => c \in fan'[x].results \/ fan'[x].firstErr # "none"
    BY <1>1, <1>2, <1>4 DEF FanInv, Fan
  <2>5. fan'[x].forked
    BY <1>2, <1>4
  <2> QED
    BY <2>1, <2>2, <2>3, <2>4, <2>5 DEF FanInv
<1>6. ASSUME NEW y \in Exec, y # x PROVE FanInv(y)'
  <2>1. fan'[y] = fan[y] /\ FanInv(y)
    BY <1>4, <1>6
  <2> QED
    BY <2>1 DEF FanInv, Finished
<1> QED
  <2> HIDE DEF g
  <2>1. fan' \in [Exec -> Fan]
    BY <1>3 DEF g
  <2> QED
    BY <2>1, <1>2, <1>4, <1>5, <1>6

\* A goroutine of a parallel step keeps the invariant of its execution, and
\* neither forks nor joins.
LEMMA GoroutineStep ==
  ASSUME NEW x \in Exec, NEW b \in Branch, cancelled' = cancelled,
         fan \in [Exec -> Fan], \A y \in Exec : FanInv(y), Goroutine(x, b)
  PROVE  FansKept
<1> DEFINE f == fan[x]
           Step(br, e, rs, st) ==
             fan' = [fan EXCEPT ![x] = [fan[x] EXCEPT !.branch = [fan[x].branch EXCEPT ![b] = br],
                                         !.firstErr = e, !.results = rs, !.stop = st]]
<1>1. f \in Fan /\ FanInv(x)
  OBVIOUS
<1>2. f.firstErr \in Error /\ f.results \subseteq Branch /\ f.stop \in BOOLEAN /\ f.branch \in [Branch -> {"ready", "running", "cancel", "done"}]
  BY <1>1 DEF Fan
<1>3. f.forked
  BY <1>1 DEF FanInv, Finished, Goroutine, Begin, Succeed, CancelSiblings, Fail
<1>4. CASE Begin(x, b) /\ Done(x)
  <2>1. Step("done", OnceErr(x, "ctx"), f.results, f.stop)
    <3>1. fan' = [fan EXCEPT ![x].branch[b] = "done", ![x].firstErr = OnceErr(x, "ctx")]
      BY <1>4 DEF Begin
    <3> QED
      BY <1>1, <3>1 DEF Fan
  <2>2. OnceErr(x, "ctx") \in Error \ {"none"} /\ (OnceErr(x, "ctx") = "ctx" => x \in cancelled)
    BY <1>4, <1>1, <1>2 DEF FanInv, Done, OnceErr, Error
  <2>4. Records(x, b, "done", OnceErr(x, "ctx"), f.results, f.stop)
    BY <1>1, <1>2, <2>1, <2>2 DEF Records
  <2> QED
    BY <1>3, <2>4, FanStep
<1>5. CASE Begin(x, b) /\ ~Done(x)
  <2>1. Step("running", f.firstErr, f.results, f.stop)
    BY <1>5, <1>1 DEF Begin, Fan
  <2>2. (f.firstErr = "ctx" => x \in cancelled) /\ (f.stop => f.firstErr # "none")
    BY <1>1 DEF FanInv
  <2>4. Records(x, b, "running", f.firstErr, f.results, f.stop)
    BY <1>1, <1>2, <2>1, <2>2 DEF Records
  <2> QED
    BY <1>3, <2>4, FanStep
<1>6. CASE Succeed(x, b)
  <2>1. Step("done", f.firstErr, f.results \cup {b}, f.stop)
    BY <1>6, <1>1 DEF Succeed, Fan
  <2>2. (f.firstErr = "ctx" => x \in cancelled) /\ (f.stop => f.firstErr # "none")
    BY <1>1 DEF FanInv
  <2>3. f.results \cup {b} \in SUBSET Branch /\ f.results \subseteq f.results \cup {b} /\ b \in f.results \cup {b}
    BY <1>2
  <2>4. Records(x, b, "done", f.firstErr, f.results \cup {b}, f.stop)
    BY <1>1, <1>2, <2>1, <2>2, <2>3 DEF Records
  <2> QED
    BY <1>3, <2>4, FanStep
<1>7. CASE CancelSiblings(x, b)
  <2>1. Step("done", f.firstErr, f.results, TRUE)
    BY <1>7, <1>1 DEF CancelSiblings, Fan
  <2>2. (f.firstErr = "ctx" => x \in cancelled) /\ f.firstErr # "none"
    BY <1>7, <1>1 DEF FanInv, CancelSiblings
  <2>4. Records(x, b, "done", f.firstErr, f.results, TRUE)
    BY <1>1, <1>2, <2>1, <2>2 DEF Records
  <2> QED
    BY <1>3, <2>4, FanStep
<1>8. ASSUME NEW e \in Error \ {"none"}, Fail(x, b, e)
      PROVE  FansKept
  <2>1. Step("cancel", OnceErr(x, e), f.results, f.stop)
    <3>1. fan' = [fan EXCEPT ![x].branch[b] = "cancel", ![x].firstErr = OnceErr(x, e)]
      BY <1>8 DEF Fail
    <3> QED
      BY <1>1, <3>1 DEF Fan
  <2>2. OnceErr(x, e) \in Error \ {"none"} /\ (OnceErr(x, e) = "ctx" => x \in cancelled)
    BY <1>8, <1>1, <1>2 DEF FanInv, Done, Fail, OnceErr, Error
  <2>4. Records(x, b, "cancel", OnceErr(x, e), f.results, f.stop)
    BY <1>1, <1>2, <2>1, <2>2 DEF Records
  <2> QED
    BY <1>3, <2>4, FanStep
<1> QED
  BY <1>4, <1>5, <1>6, <1>7, <1>8 DEF Goroutine

\* Goroutines start and end, tasks and the calls of Stop stay: what is left to
\* show when an action has left the executions of steps alone.
LEMMA FansUnchanged ==
  ASSUME Inv, fan' = fan, cancelled \subseteq cancelled'
  PROVE  fan' \in [Exec -> Fan] /\ \A x \in Exec : FanInv(x)'
BY DEF Inv, TypeOK, FanInv, Finished

\* What Dequeue takes and leaves behind, when the tasks of lapsed leases are put
\* behind those that wait: all of them.
LEMMA LapsedRequeued ==
  ASSUME queue \in Seq(Task), NEW lapsed \in SUBSET Task,
         NEW order \in Bijection(1 .. Cardinality(lapsed), lapsed), queue \o order # <<>>
  PROVE  /\ Head(queue \o order) \in Task /\ Tail(queue \o order) \in Seq(Task)
         /\ \A t : t \in lapsed \/ (\E i \in DOMAIN queue : queue[i] = t) =>
              \/ t = Head(queue \o order)
              \/ \E i \in DOMAIN Tail(queue \o order) : Tail(queue \o order)[i] = t
<1> USE RunnerAssumption
<1> DEFINE n == Cardinality(lapsed)
           ready == queue \o order
           rest == Tail(ready)
<1>1. n \in Nat
  <2>1. IsFiniteSet(Task)
    BY FS_Interval DEF Task
  <2>2. IsFiniteSet(lapsed)
    BY <2>1, FS_Subset
  <2> QED
    BY <2>2, FS_CardinalityType
<1>2. order \in [1 .. n -> lapsed] /\ \A t \in lapsed : \E i \in 1 .. n : order[i] = t
  <2> HIDE DEF n
  <2>1. order \in Bijection(1 .. n, lapsed)
    BY DEF n
  <2> QED
    BY <2>1 DEF Bijection, Injection, Surjection
<1> HIDE DEF n
<1>3. order \in Seq(Task) /\ Len(order) = n
  BY <1>1, <1>2
<1>4. /\ ready \in Seq(Task) /\ Len(ready) = Len(queue) + n /\ Len(queue) \in Nat
      /\ DOMAIN queue = 1 .. Len(queue) /\ DOMAIN ready = 1 .. Len(queue) + n
      /\ \A i \in 1 .. Len(queue) : ready[i] = queue[i]
      /\ \A i \in 1 .. n : ready[Len(queue) + i] = order[i]
  BY <1>1, <1>3
<1>5. \A t : t \in lapsed \/ (\E i \in DOMAIN queue : queue[i] = t) =>
              \E j \in DOMAIN ready : ready[j] = t
  <2> HIDE DEF ready
  <2>1. ASSUME NEW t \in lapsed PROVE \E j \in DOMAIN ready : ready[j] = t
    <3>1. PICK i \in 1 .. n : order[i] = t
      BY <1>2
    <3>2. Len(queue) + i \in DOMAIN ready /\ ready[Len(queue) + i] = t
      BY <1>1, <1>4, <3>1
    <3> QED
      BY <3>2
  <2>2. ASSUME NEW i \in DOMAIN queue PROVE i \in DOMAIN ready /\ ready[i] = queue[i]
    BY <1>1, <1>4
  <2> QED
    BY <2>1, <2>2
<1> HIDE DEF ready
<1>6. ready # <<>>
  BY DEF ready
<1>7. /\ Head(ready) = ready[1] /\ ready[1] \in Task /\ rest \in Seq(Task)
      /\ DOMAIN rest = 1 .. Len(ready) - 1 /\ Len(ready) \in Nat \ {0}
      /\ \A i \in 1 .. Len(ready) - 1 : rest[i] = ready[i + 1]
  BY <1>4, <1>6
<1>8. ASSUME NEW j \in DOMAIN ready, j # 1 PROVE j - 1 \in DOMAIN rest /\ rest[j - 1] = ready[j]
  <2> HIDE DEF rest
  <2>1. j \in 1 .. Len(ready)
    BY <1>4
  <2>2. j - 1 \in 1 .. Len(ready) - 1 /\ (j - 1) + 1 = j
    BY <1>7, <1>8, <2>1
  <2> QED
    BY <1>7, <2>2
<1>9. ASSUME NEW t, t \in lapsed \/ \E i \in DOMAIN queue : queue[i] = t
      PROVE  t = Head(ready) \/ \E i \in DOMAIN rest : rest[i] = t
  <2> HIDE DEF rest
  <2>1. PICK j \in DOMAIN ready : ready[j] = t
    BY <1>5, <1>9
  <2> QED
    BY <1>7, <1>8, <2>1
<1> QED
  BY <1>7, <1>9 DEF ready

\* Every step keeps the invariant.
THEOREM NextInv == Inv /\ [Next]_vars => Inv'
<1> SUFFICES ASSUME Inv, [Next]_vars PROVE Inv'
  OBVIOUS
<1> USE RunnerAssumption
<1>t. TypeOK /\ TaskKept
  BY DEF Inv
<1>l. \A x \in Exec : FanInv(x) /\ LoopInv(x)
  BY DEF Inv
<1>s. \A s \in Stopper : StopInv(s)
  BY DEF Inv
<1>1. CASE StartWorkers
  <2> USE <1>1 DEF StartWorkers, Up, tasks
  <2>1. fan' \in [Exec -> Fan] /\ \A x \in Exec : FanInv(x)'
    BY FansUnchanged
  <2>2. TypeOK'
    BY <1>t, <2>1 DEF TypeOK, Members
  <2>3. \A x \in Exec : LoopInv(x)'
    BY <1>t, <1>l DEF TypeOK, LoopInv, Members, Gen
  <2>4. \A s \in Stopper : StopInv(s)'
    <3> SUFFICES ASSUME NEW s \in Stopper PROVE StopInv(s)'
      OBVIOUS
    <3>1. gen \in Nat /\ stop[s].gen \in Nat /\ stop[s].gen <= gen
      BY <1>t, <1>s DEF TypeOK, StopInv, Gen
    <3>3. ASSUME NEW x \in Exec, x[1] <= stop[s].gen PROVE loop'[x] = loop[x]
      BY <3>1, <3>3 DEF Members, Gen
    <3> QED
      BY <1>s, <3>1, <3>3 DEF StopInv
  <2>5. TaskKept'
    BY <1>t DEF TaskKept
  <2> QED
    BY <2>1, <2>2, <2>3, <2>4, <2>5 DEF Inv
<1>2. CASE CancelContext
  <2> USE <1>2 DEF CancelContext, Up, tasks
  <2>1. fan' \in [Exec -> Fan] /\ \A x \in Exec : FanInv(x)'
    BY FansUnchanged
  <2>2. TypeOK'
    BY <1>t, <2>1 DEF TypeOK, Members
  <2>3. (\A x \in Exec : LoopInv(x)') /\ (\A s \in Stopper : StopInv(s)')
    BY <1>l, <1>s DEF LoopInv, StopInv
  <2>4. TaskKept'
    BY <1>t DEF TaskKept
  <2> QED
    BY <2>1, <2>2, <2>3, <2>4 DEF Inv
<1>3. CASE StartWorkflowAsync
  <2> USE <1>3 DEF StartWorkflowAsync, Up, runner
  <2>1. fan' \in [Exec -> Fan] /\ \A x \in Exec : FanInv(x)'
    BY FansUnchanged
  <2>2. TypeOK'
    BY <1>t, <2>1 DEF TypeOK
  <2>3. (\A x \in Exec : LoopInv(x)') /\ (\A s \in Stopper : StopInv(s)')
    BY <1>l, <1>s DEF LoopInv, StopInv
  <2>4. TaskKept'
    <3>1. /\ Len(queue) \in Nat /\ DOMAIN queue = 1 .. Len(queue)
          /\ DOMAIN queue' = 1 .. Len(queue) + 1
          /\ \A i \in 1 .. Len(queue) : queue'[i] = queue[i]
          /\ queue'[Len(queue) + 1] = nextID + 1
      BY <1>t DEF TypeOK, Task
    <3>2. \A i \in DOMAIN queue : i \in DOMAIN queue' /\ queue'[i] = queue[i]
      BY <3>1
    <3>3. Len(queue) + 1 \in DOMAIN queue' /\ queue'[Len(queue) + 1] = nextID + 1
      BY <3>1
    <3>4. nextID \in Nat /\ \A t \in 1 .. nextID' : t \in 1 .. nextID \/ t = nextID + 1
      BY <1>t DEF TypeOK, Task
    <3> QED
      BY <1>t, <3>2, <3>3, <3>4 DEF TaskKept
  <2> QED
    BY <2>1, <2>2, <2>3, <2>4 DEF Inv
<1>4. ASSUME NEW s \in Stopper, Stop(s) \/ StopProceeds(s) PROVE Inv'
  <2>0. /\ fan' = fan /\ cancelled \subseteq cancelled' /\ cancelled' \subseteq Exec
        /\ running' \in BOOLEAN /\ panicked' \in BOOLEAN
        /\ UNCHANGED <<gen, loop, hand, tasks, restarted>>
    BY <1>4, <1>t DEF StopProceeds, Stop, StopCancel, StopWait, StopReturn, Up, TypeOK, Members
  <2>1. fan' \in [Exec -> Fan] /\ \A x \in Exec : FanInv(x)'
    BY <2>0, FansUnchanged
  <2>2. /\ stop' \in [Stopper -> [pc : {"idle", "cancel", "wait", "woken", "returned"}, gen : {0} \cup Gen]]
        /\ \A z \in Stopper : StopInv(z)'
    <3>0. gen \in {0} \cup Gen /\ gen \in Nat /\ stop[s] \in [pc : {"idle", "cancel", "wait", "woken", "returned"}, gen : {0} \cup Gen]
      BY <1>t DEF TypeOK, Gen
    <3>1. CASE Stop(s)
      BY <1>t, <1>s, <2>0, <3>0, <3>1 DEF Stop, TypeOK, StopInv
    <3>2. CASE StopCancel(s)
      BY <1>t, <1>s, <2>0, <3>0, <3>2 DEF StopCancel, TypeOK, StopInv
    <3>3. CASE StopWait(s)
      BY <1>t, <1>s, <2>0, <3>0, <3>3 DEF StopWait, TypeOK, StopInv, Alive
    <3>4. CASE StopReturn(s)
      <4>1. CASE Alive = {}
        <5>1. /\ stop' = [stop EXCEPT ![s].pc = "returned"] /\ running' = running
              /\ \A x \in Exec : loop[x] = "off"
          BY <3>4, <4>1 DEF StopReturn, Alive
        <5> QED
          BY <1>t, <1>s, <2>0, <3>0, <5>1 DEF TypeOK, StopInv
      <4>2. CASE Alive # {}
        <5>1. stop' = stop /\ running' = running
          BY <3>4, <4>2 DEF StopReturn
        <5> QED
          BY <1>t, <1>s, <2>0, <5>1 DEF TypeOK, StopInv
      <4> QED
        BY <4>1, <4>2
    <3> QED
      BY <1>4, <3>1, <3>2, <3>3, <3>4 DEF StopProceeds
  <2>3. TypeOK'
    BY <1>t, <2>0, <2>1, <2>2 DEF TypeOK, tasks
  <2>4. (\A x \in Exec : LoopInv(x)') /\ TaskKept'
    BY <1>t, <1>l, <2>0 DEF LoopInv, TaskKept, tasks
  <2> QED
    BY <2>1, <2>2, <2>3, <2>4 DEF Inv
<1>5. ASSUME NEW x \in Exec, Dequeue(x) PROVE Inv'
  <2>1. fan' = fan /\ cancelled' = cancelled
    BY <1>5 DEF Dequeue
  <2>2. fan' \in [Exec -> Fan] /\ \A y \in Exec : FanInv(y)'
    BY <2>1, FansUnchanged
  <2>3. PICK lapsed \in SUBSET leased :
          \E order \in Bijection(1 .. Cardinality(lapsed), lapsed) :
            /\ queue \o order # <<>>
            /\ hand' = [hand EXCEPT ![x] = Head(queue \o order)]
            /\ queue' = Tail(queue \o order)
            /\ leased' = (leased \ lapsed) \cup {Head(queue \o order)}
    BY <1>5 DEF Dequeue
  <2>4. PICK order \in Bijection(1 .. Cardinality(lapsed), lapsed) :
            /\ queue \o order # <<>>
            /\ hand' = [hand EXCEPT ![x] = Head(queue \o order)]
            /\ queue' = Tail(queue \o order)
            /\ leased' = (leased \ lapsed) \cup {Head(queue \o order)}
    BY <2>3
  <2> DEFINE first == Head(queue \o order)
  <2>5. /\ first \in Task /\ queue' \in Seq(Task)
        /\ \A t : t \in lapsed \/ (\E i \in DOMAIN queue : queue[i] = t) =>
             t = first \/ \E i \in DOMAIN queue' : queue'[i] = t
    <3>1. queue \in Seq(Task) /\ lapsed \in SUBSET Task
      BY <1>t DEF TypeOK
    <3>2. queue \o order # <<>> /\ queue' = Tail(queue \o order)
      BY <2>4
    <3>3. /\ Head(queue \o order) \in Task /\ Tail(queue \o order) \in Seq(Task)
          /\ \A t : t \in lapsed \/ (\E i \in DOMAIN queue : queue[i] = t) =>
               \/ t = Head(queue \o order)
               \/ \E i \in DOMAIN Tail(queue \o order) : Tail(queue \o order)[i] = t
      BY ONLY <3>1, <3>2, LapsedRequeued, order \in Bijection(1 .. Cardinality(lapsed), lapsed), Zenon
    <3> QED
      BY <3>2, <3>3
  <2>6. hand' = [hand EXCEPT ![x] = first] /\ leased' = (leased \ lapsed) \cup {first}
    BY <2>4
  <2> HIDE DEF first
  <2>7. /\ loop[x] = "dequeue" /\ loop' = [loop EXCEPT ![x] = "begin"] /\ panicked' = panicked
        /\ UNCHANGED <<running, gen, stop, restarted, nextID, handled>>
    BY <1>5 DEF Dequeue, Up, runner
  <2>8. TypeOK'
    BY <1>t, <2>1, <2>2, <2>5, <2>6, <2>7 DEF TypeOK
  <2>9. \A y \in Exec : LoopInv(y)'
    <3>1. first # 0
      BY <2>5 DEF Task
    <3> QED
      BY <1>t, <1>l, <2>1, <2>6, <2>7, <3>1 DEF TypeOK, LoopInv
  <2>10. \A s \in Stopper : StopInv(s)'
    BY <1>t, <1>s, <2>7 DEF TypeOK, StopInv
  <2>11. TaskKept'
    <3> SUFFICES ASSUME NEW t \in 1 .. nextID, t \notin handled
                 PROVE  \/ \E i \in DOMAIN queue' : queue'[i] = t
                        \/ t \in leased' /\ \E y \in Exec : hand'[y] = t
      BY <2>7 DEF TaskKept
    <3>1. hand[x] = 0 /\ hand'[x] = first /\ \A y \in Exec : y # x => hand'[y] = hand[y]
      BY <1>t, <1>l, <2>6, <2>7 DEF TypeOK, LoopInv
    <3>2. CASE t = first
      BY <2>6, <3>1, <3>2
    <3>3. CASE t \in lapsed \/ \E i \in DOMAIN queue : queue[i] = t
      BY <2>5, <3>2, <3>3
    <3>4. CASE t \in leased \ lapsed /\ \E y \in Exec : hand[y] = t
      <4>1. t # 0
        BY <1>t DEF TypeOK, Task
      <4> QED
        BY <2>6, <3>1, <3>4, <4>1
    <3> QED
      BY <1>t, <3>2, <3>3, <3>4 DEF TaskKept
  <2> QED
    BY <2>2, <2>8, <2>9, <2>10, <2>11 DEF Inv
<1>6. ASSUME NEW x \in Exec, DequeueCancelled(x) PROVE Inv'
  <2> USE <1>6 DEF DequeueCancelled, Up, runner, tasks
  <2>1. fan' \in [Exec -> Fan] /\ \A y \in Exec : FanInv(y)'
    BY FansUnchanged
  <2>2. TypeOK'
    BY <1>t, <2>1 DEF TypeOK
  <2>3. \A y \in Exec : LoopInv(y)'
    BY <1>t, <1>l DEF TypeOK, LoopInv
  <2>4. \A s \in Stopper : StopInv(s)'
    BY <1>t, <1>s DEF TypeOK, StopInv
  <2>5. TaskKept'
    BY <1>t DEF TaskKept
  <2> QED
    BY <2>1, <2>2, <2>3, <2>4, <2>5 DEF Inv
<1>7. ASSUME NEW x \in Exec, BeginStep(x) PROVE Inv'
  <2> USE <1>7 DEF BeginStep, Up, runner, tasks
  <2>0. fan \in [Exec -> Fan] /\ fan[x] \in Fan /\ FanInv(x) /\ ~fan[x].forked
    BY <1>t, <1>l DEF TypeOK, LoopInv
  <2>1. /\ fan' \in [Exec -> Fan] /\ \A y \in Exec : y # x => fan'[y] = fan[y]
        /\ FanInv(x)'
    <3>1. CASE x \in cancelled
      <4> DEFINE g == [fan[x] EXCEPT !.firstErr = "ctx"]
      <4>1. /\ g \in Fan /\ g.firstErr = "ctx" /\ g.forked = fan[x].forked
            /\ g.branch = fan[x].branch /\ g.stop = fan[x].stop
        BY <2>0 DEF Fan, Error
      <4>2. fan' = [fan EXCEPT ![x] = g]
        BY <2>0, <3>1
      <4> HIDE DEF g
      <4>3. fan' \in [Exec -> Fan] /\ fan'[x] = g /\ \A y \in Exec : y # x => fan'[y] = fan[y]
        BY <2>0, <4>1, <4>2
      <4> QED
        BY <2>0, <3>1, <4>1, <4>3 DEF FanInv, Finished
    <3>2. CASE x \notin cancelled
      <4>1. ASSUME NEW go \in SUBSET Branch, Fork(x, go) PROVE <2>1
        BY <2>0, <4>1 DEF Fork, NoFan, FanInv, Finished, Fan, Error
      <4>2. ASSUME NEW e \in {"none", "plain"}, Skip(x, e) PROVE <2>1
        BY <2>0, <4>2 DEF Skip, NoFan, FanInv, Finished, Fan, Error
      <4> QED
        BY <3>2, <4>1, <4>2 DEF ParallelStep, ParallelMapStep
    <3> QED
      BY <3>1, <3>2
  <2>2. \A y \in Exec : FanInv(y)'
    BY <2>1, <1>l DEF FanInv, Finished
  <2>3. TypeOK'
    BY <1>t, <2>1 DEF TypeOK
  <2>4. \A y \in Exec : LoopInv(y)'
    BY <1>t, <1>l, <2>1 DEF TypeOK, LoopInv
  <2>5. \A s \in Stopper : StopInv(s)'
    BY <1>t, <1>s DEF TypeOK, StopInv
  <2>6. TaskKept'
    BY <1>t DEF TaskKept
  <2> QED
    BY <2>2, <2>3, <2>4, <2>5, <2>6 DEF Inv
<1>8. ASSUME NEW x \in Exec, Children(x) PROVE Inv'
  <2> USE <1>8 DEF Children, Up, runner, tasks
  <2>1. FansKept
    BY <1>t, <1>l, GoroutineStep DEF TypeOK
  <2>2. TypeOK'
    BY <1>t, <2>1 DEF TypeOK, FansKept
  <2>3. \A y \in Exec : LoopInv(y)'
    BY <1>l, <2>1 DEF LoopInv, FansKept
  <2>4. \A s \in Stopper : StopInv(s)'
    BY <1>s DEF StopInv
  <2>5. TaskKept'
    BY <1>t DEF TaskKept
  <2> QED
    BY <2>1, <2>2, <2>3, <2>4, <2>5 DEF Inv, FansKept
<1>9. ASSUME NEW x \in Exec, JoinStep(x) PROVE Inv'
  <2> USE <1>9 DEF JoinStep, Join, Up, runner, tasks
  <2>1. /\ fan' \in [Exec -> Fan] /\ \A y \in Exec : y # x => fan'[y] = fan[y]
        /\ FanInv(x)' /\ ~fan'[x].forked
    <3> DEFINE g == [fan[x] EXCEPT !.forked = FALSE, !.results = {}, !.stop = FALSE]
    <3>1. /\ fan \in [Exec -> Fan] /\ fan[x] \in Fan /\ FanInv(x)
          /\ Finished(x) /\ cancelled' = cancelled
      BY <1>t, <1>l DEF TypeOK
    <3>2. /\ g \in Fan /\ g.forked = FALSE /\ g.branch = fan[x].branch
          /\ g.firstErr = fan[x].firstErr /\ g.stop = FALSE
      BY <3>1 DEF Fan
    <3>3. fan' = [fan EXCEPT ![x] = g]
      BY <3>1
    <3> HIDE DEF g, JoinStep, Join, Up
    <3>4. fan' \in [Exec -> Fan] /\ fan'[x] = g /\ \A y \in Exec : y # x => fan'[y] = fan[y]
      BY <3>1, <3>2, <3>3, FanSet
    <3> QED
      BY <3>1, <3>2, <3>4 DEF FanInv, Finished
  <2>2. \A y \in Exec : FanInv(y)'
    BY <2>1, <1>l DEF FanInv, Finished
  <2>3. TypeOK'
    BY <1>t, <2>1 DEF TypeOK
  <2>4. \A y \in Exec : LoopInv(y)'
    BY <1>l, <2>1 DEF LoopInv
  <2>5. \A s \in Stopper : StopInv(s)'
    BY <1>s DEF StopInv
  <2>6. TaskKept'
    BY <1>t DEF TaskKept
  <2> QED
    BY <2>2, <2>3, <2>4, <2>5, <2>6 DEF Inv
<1>10. ASSUME NEW x \in Exec, Ack(x) PROVE Inv'
  <2> USE <1>10 DEF Ack, EndTask, Up, runner
  <2>1. /\ fan' \in [Exec -> Fan] /\ \A y \in Exec : y # x => fan'[y] = fan[y]
        /\ FanInv(x)' /\ ~fan'[x].forked
    <3> DEFINE g == [fan[x] EXCEPT !.firstErr = "none"]
    <3>1. /\ fan \in [Exec -> Fan] /\ fan[x] \in Fan /\ ~fan[x].forked
          /\ Finished(x) /\ ~fan[x].stop /\ cancelled' = cancelled
      BY <1>t, <1>l DEF TypeOK, FanInv
    <3>2. /\ g \in Fan /\ g.forked = fan[x].forked /\ g.branch = fan[x].branch
          /\ g.firstErr = "none" /\ g.stop = fan[x].stop
      BY <3>1 DEF Fan, Error
    <3>3. fan' = [fan EXCEPT ![x] = g]
      BY <3>1
    <3> HIDE DEF g, Ack, EndTask, Up
    <3>4. fan' \in [Exec -> Fan] /\ fan'[x] = g /\ \A y \in Exec : y # x => fan'[y] = fan[y]
      BY <3>1, <3>2, <3>3, FanSet
    <3> QED
      BY <3>1, <3>2, <3>4 DEF FanInv, Finished
  <2>2. \A y \in Exec : FanInv(y)'
    BY <2>1, <1>l DEF FanInv, Finished
  <2>3. hand[x] \in Task
    BY <1>t, <1>l DEF TypeOK, LoopInv
  <2>4. TypeOK'
    BY <1>t, <2>1, <2>3 DEF TypeOK
  <2>5. \A y \in Exec : LoopInv(y)'
    BY <1>t, <1>l, <2>1 DEF TypeOK, LoopInv
  <2>6. \A s \in Stopper : StopInv(s)'
    BY <1>t, <1>s DEF TypeOK, StopInv
  <2>7. TaskKept'
    <3>1. /\ handled' = handled \cup {hand[x]} /\ leased' = leased \ {hand[x]}
          /\ hand' = [hand EXCEPT ![x] = 0] /\ queue' = queue /\ nextID' = nextID
      OBVIOUS
    <3> HIDE DEF Ack, EndTask, Up, runner
    <3> QED
      BY <1>t, <3>1 DEF TaskKept, TypeOK
  <2> QED
    BY <2>2, <2>4, <2>5, <2>6, <2>7 DEF Inv
<1>11. CASE UNCHANGED vars
  BY <1>11 DEF vars, runner, tasks, Inv, TypeOK, FanInv, LoopInv, StopInv, TaskKept, Finished
<1> QED
  BY <1>1, <1>2, <1>3, <1>4, <1>5, <1>6, <1>7, <1>8, <1>9, <1>10, <1>11 DEF Next, Loop

\* The invariant is one of the specification.
THEOREM SpecInv == Spec => []Inv
BY InitInv, NextInv, PTL DEF Spec

\* The error of a child of a parallel step is not masked by the cancellation of
\* its siblings.
THEOREM FirstErrorKept == Spec => []FirstErrorWins
<1>1. Inv => FirstErrorWins
  BY DEF Inv, FanInv, FirstErrorWins
<1> QED
  BY <1>1, SpecInv, PTL

\* A parallel step that succeeds has the result of every child, also when
\* the context of the runner was cancelled meanwhile.
THEOREM ParallelComplete == Spec => []ResultsComplete
<1>1. Inv => ResultsComplete
  <2> SUFFICES ASSUME Inv, NEW x \in Exec
               PROVE  fan[x].forked /\ Finished(x) /\ fan[x].firstErr = "none" =>
                        fan[x].results = Branch
    BY DEF ResultsComplete
  <2>1. FanInv(x) /\ fan[x].results \subseteq Branch
    BY DEF Inv, TypeOK, Fan
  <2> QED
    BY <2>1 DEF FanInv, Finished
<1> QED
  BY <1>1, SpecInv, PTL

\* When Stop has returned, nothing of the generation it stopped is left.
THEOREM StopStops == Spec => []StopMeansStopped
<1>1. Inv => StopMeansStopped
  <2> SUFFICES ASSUME Inv, NEW s \in Stopper, stop[s].pc = "returned",
                      NEW x \in Exec, x[1] <= stop[s].gen
               PROVE  loop[x] = "off" /\ hand[x] = 0 /\ Finished(x)
    BY DEF StopMeansStopped
  <2>1. StopInv(s) /\ LoopInv(x) /\ FanInv(x)
    BY DEF Inv
  <2> QED
    BY <2>1 DEF StopInv, LoopInv, FanInv, Inv, TypeOK, Fan
<1> QED
  BY <1>1, SpecInv, PTL

\* Runner, workers, stoppers and parallel steps stay well typed.
THEOREM TypeCorrect == Spec => []TypeOK
BY SpecInv, PTL DEF Inv

\* Leases that lapse, late acknowledgements under the shared name, and any
\* sequence of StartWorkers and Stop lose no task that was not run to its end.
THEOREM TasksKept == Spec => []TaskKept
BY SpecInv, PTL DEF Inv

\* A Stop under way never cancels the goroutines of a StartWorkers that came
\* after it: what it cancels is of a generation the runner has left.
THEOREM OvertakenStop == Spec => NewWorkersSpared
<1> DEFINE Spared == Members(gen) \cap cancelled' = Members(gen) \cap cancelled
<1>1. ASSUME Inv, [Next]_vars, running, running', stop' # stop PROVE Spared
  <2>1. PICK s \in Stopper : Stop(s) \/ StopProceeds(s)
    BY <1>1 DEF Next, Loop, StartWorkers, CancelContext, StartWorkflowAsync, Dequeue,
         DequeueCancelled, BeginStep, Children, JoinStep, Ack, runner, vars
  <2>2. CASE StopCancel(s)
    <3>1. stop[s].gen # gen
      BY <1>1 DEF Inv, StopInv
    <3>2. cancelled' = cancelled \cup Members(stop[s].gen)
      BY <2>2 DEF StopCancel
    <3> QED
      BY <3>1, <3>2 DEF Members
  <2>3. CASE Stop(s) \/ StopWait(s) \/ StopReturn(s)
    BY <2>3 DEF Stop, StopWait, StopReturn
  <2> QED
    BY <2>1, <2>2, <2>3 DEF StopProceeds
<1>2. Inv /\ [Next]_vars => [running /\ running' /\ stop' # stop => Spared]_vars
  BY <1>1
<1> QED
  BY <1>2, SpecInv, PTL DEF Spec, NewWorkersSpared
=============================================================================
