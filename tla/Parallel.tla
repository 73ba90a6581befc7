------------------------------ MODULE Parallel ------------------------------
(***************************************************************************)
(* ParallelStep and ParallelMapStep of pkg/api/workflow.go: a step that    *)
(* forks a goroutine per child step or element, and joins them.            *)
(*                                                                         *)
(* Several executions of such a step may be under way, each by a goroutine *)
(* x with a context.  Of the errors, those of a cancelled context are told *)
(* apart: "ctx" is the error of the step's own context, "own" that of a    *)
(* context or deadline a child made for itself, "plain" any other, panics  *)
(* included, which the goroutine turns into errors.                        *)
(***************************************************************************)
EXTENDS Integers, FiniteSets

CONSTANTS Exec,   \* goroutines that execute steps
          Branch  \* indices of the child steps or of the elements

VARIABLES cancelled, \* the executions whose context is cancelled
          fan        \* the locals of every execution

Error == {"none", "plain", "own", "ctx"}

\* forked: between go and wg.Wait; stop: cancel was called; results: the
\* indices that were written.
Fan == [forked : BOOLEAN,
        branch : [Branch -> {"ready", "running", "cancel", "done"}],
        results : SUBSET Branch, firstErr : Error, stop : BOOLEAN]

NoFan == [forked |-> FALSE, branch |-> [b \in Branch |-> "done"],
          results |-> {}, firstErr |-> "none", stop |-> FALSE]

ParallelInit == cancelled = {} /\ fan = [x \in Exec |-> NoFan]

\* ctx.Done() of the children's context.
Done(x) == fan[x].stop \/ x \in cancelled

\* Forks the children go.  The others are nil steps, whose result is the input.
Fork(x, go) ==
  fan' = [fan EXCEPT ![x] =
    [NoFan EXCEPT !.forked = TRUE, !.results = Branch \ go,
       !.branch = [b \in Branch |-> IF b \in go THEN "ready" ELSE "done"]]]

\* The step returns at once, with the error e or the results.
Skip(x, e) ==
  fan' = [fan EXCEPT ![x] = [NoFan EXCEPT !.firstErr = e]]

\* No child steps at all, or some.
ParallelStep(x) == Skip(x, "none") \/ \E go \in SUBSET Branch : Fork(x, go)

\* No function or no elements, an input that is not a slice, or elements.
ParallelMapStep(x) == Skip(x, "none") \/ Skip(x, "plain") \/ Fork(x, Branch)

OnceErr(x, e) == IF fan[x].firstErr = "none" THEN e ELSE fan[x].firstErr

\* The early abort, or the call of the child.
Begin(x, b) ==
  /\ fan[x].branch[b] = "ready"
  /\ fan' = IF Done(x)
            THEN [fan EXCEPT ![x].branch[b] = "done", ![x].firstErr = OnceErr(x, "ctx")]
            ELSE [fan EXCEPT ![x].branch[b] = "running"]

Succeed(x, b) ==
  /\ fan[x].branch[b] = "running"
  /\ fan' = [fan EXCEPT ![x].branch[b] = "done", ![x].results = @ \cup {b}]

\* Mutant: the siblings are cancelled before the error is recorded.
CancelThenFail(x, b, e) ==
  /\ \/ fan[x].branch[b] = "running" /\ ~fan[x].stop
        /\ fan' = [fan EXCEPT ![x].stop = TRUE]
     \/ fan[x].branch[b] = "running" /\ fan[x].stop
        /\ fan' = [fan EXCEPT ![x].branch[b] = "done", ![x].firstErr = OnceErr(x, e)]

\* Mutant: the error is not recorded.
FailSilently(x, b, e) ==
  /\ fan[x].branch[b] = "running"
  /\ e = "ctx" => Done(x)
  /\ fan' = [fan EXCEPT ![x].branch[b] = "cancel"]

\* The child returns an error or panics.
Fail(x, b, e) ==
  /\ fan[x].branch[b] = "running"
  /\ e = "ctx" => Done(x)
  /\ fan' = [fan EXCEPT ![x].branch[b] = "cancel", ![x].firstErr = OnceErr(x, e)]

CancelSiblings(x, b) ==
  /\ fan[x].branch[b] = "cancel"
  /\ fan' = [fan EXCEPT ![x].branch[b] = "done", ![x].stop = TRUE]

Goroutine(x, b) ==
  \/ Begin(x, b) \/ Succeed(x, b) \/ CancelSiblings(x, b)
  \/ \E e \in Error \ {"none"} : Fail(x, b, e)

Finished(x) == \A b \in Branch : fan[x].branch[b] = "done"

\* wg.Wait() returns, and the step with firstErr or the results.  What is left
\* of its locals is the error.
Join(x) ==
  /\ fan[x].forked /\ Finished(x)
  /\ fan' = [fan EXCEPT ![x].forked = FALSE, ![x].results = {}, ![x].stop = FALSE]

-----------------------------------------------------------------------------
\* The error of a child is not masked by the cancellation of its siblings
\* that it brings about: the step fails with the error of its own context
\* only when that was cancelled.
FirstErrorWins == \A x \in Exec : fan[x].firstErr = "ctx" => x \in cancelled

\* A step that succeeds has the results of all its children.
ResultsComplete ==
  \A x \in Exec :
    fan[x].forked /\ Finished(x) /\ fan[x].firstErr = "none" => fan[x].results = Branch
=============================================================================
