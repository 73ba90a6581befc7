------------------------------ MODULE Children ------------------------------
(***************************************************************************)
(* A parent workflow with child workflows: StartChildrenStep, then         *)
(* WaitForChildrenStep or WaitForAnyChildStep, of pkg/api/workflow.go, in  *)
(* the engine's executeSteps, called by a worker for the start task of the *)
(* parent.                                                                 *)
(*                                                                         *)
(* Children are started by StartChildrenStep, which runs each of them to   *)
(* its end or until it waits, or were enqueued before, with IDs that the   *)
(* parent gets as its input, and run meanwhile.                            *)
(***************************************************************************)
EXTENDS Integers

CONSTANTS N,           \* number of children, in the order of their IDs
          MaxAttempts  \* Config.MaxAttempts of the worker

Child == 1 .. N

VARIABLES enqueued, \* whether the children were enqueued before
          any,      \* the parent waits for any child, not for all
          child,    \* the status of every child
          parent,   \* the status of the parent
          started,  \* the result of StartChildrenStep is stored
          pc, next, \* the worker: what it is doing, with which child next
          done,     \* the poll has found all children completed so far
          task,     \* the parent's start task is in the queue
          attempts  \* of that task

vars == <<enqueued, any, child, parent, started, pc, next, done, task, attempts>>

Terminal == {"COMPLETED", "FAILED"}

Init ==
  /\ enqueued \in BOOLEAN /\ any \in BOOLEAN
  /\ child = [c \in Child |-> IF enqueued THEN "PENDING" ELSE "NONE"]
  /\ parent = "PENDING"
  /\ started = enqueued
  /\ pc = "idle" /\ next = 1 /\ done = TRUE
  /\ task = TRUE /\ attempts = 0

-----------------------------------------------------------------------------
(* Other workers run the children that were enqueued.                      *)

ChildBegins(c) ==
  /\ child[c] = "PENDING"
  /\ child' = [child EXCEPT ![c] = "RUNNING"]
  /\ UNCHANGED <<enqueued, any, parent, started, pc, next, done, task, attempts>>

ChildEnds(c) ==
  /\ enqueued /\ child[c] = "RUNNING"
  /\ \E s \in Terminal : child' = [child EXCEPT ![c] = s]
  /\ UNCHANGED <<enqueued, any, parent, started, pc, next, done, task, attempts>>

-----------------------------------------------------------------------------
(* The parent.                                                             *)

\* Dequeue and RunInstance.  A stored result of the first step is used again.
RunInstance ==
  /\ task /\ pc = "idle"
  /\ parent' = "RUNNING"
  /\ pc' = IF started THEN "poll" ELSE "start"
  /\ next' = 1 /\ done' = TRUE
  /\ UNCHANGED <<enqueued, any, child, started, task, attempts>>

\* The call of the engine returns an error: handleErr has the task tried
\* again, or gives it up.
Answer(status, err) ==
  /\ parent' = status
  /\ pc' = "idle"
  /\ IF err /\ attempts + 1 < MaxAttempts
     THEN attempts' = attempts + 1 /\ UNCHANGED task
     ELSE task' = FALSE /\ UNCHANGED attempts

\* One engine.Run of StartChildrenStep.  The error of a child that waits for
\* a signal is wrapped, and makes the parent wait like one of its own.
StartChild ==
  /\ pc = "start"
  /\ \E s \in Terminal \cup {"WAITING"} :
       /\ child' = [child EXCEPT ![next] = s]
       /\ CASE s # "COMPLETED" -> Answer(s, TRUE) /\ UNCHANGED <<started, next>>
            [] s = "COMPLETED" /\ next < N ->
                 next' = next + 1 /\ UNCHANGED <<parent, started, pc, task, attempts>>
            [] s = "COMPLETED" /\ next = N ->
                 /\ started' = TRUE /\ next' = 1 /\ pc' = "poll"
                 /\ UNCHANGED <<parent, task, attempts>>
  /\ UNCHANGED <<enqueued, any, done>>

\* GetInstance of the next child, by WaitForChildrenStep.
PollAll ==
  /\ pc = "poll" /\ ~any
  /\ LET completed == done /\ child[next] = "COMPLETED" IN
     CASE child[next] = "FAILED" -> Answer("FAILED", TRUE) /\ UNCHANGED <<next, done>>
       [] child[next] # "FAILED" /\ next < N ->
            next' = next + 1 /\ done' = completed /\ UNCHANGED <<parent, pc, task, attempts>>
       [] child[next] # "FAILED" /\ next = N ->
            /\ IF completed THEN Answer("COMPLETED", FALSE) ELSE Answer("WAITING", TRUE)
            /\ UNCHANGED <<next, done>>
  /\ UNCHANGED <<enqueued, any, child, started>>

\* The same by WaitForAnyChildStep.
PollAny ==
  /\ pc = "poll" /\ any
  /\ CASE child[next] = "COMPLETED" -> Answer("COMPLETED", FALSE) /\ UNCHANGED next
       [] child[next] = "FAILED" -> Answer("FAILED", TRUE) /\ UNCHANGED next
       [] child[next] \notin Terminal /\ next < N ->
            next' = next + 1 /\ UNCHANGED <<parent, pc, task, attempts>>
       [] child[next] \notin Terminal /\ next = N -> Answer("WAITING", TRUE) /\ UNCHANGED next
  /\ UNCHANGED <<enqueued, any, child, started, done>>

Proceed == RunInstance \/ StartChild \/ PollAll \/ PollAny

Next == Proceed \/ \E c \in Child : ChildBegins(c) \/ ChildEnds(c)

\* The worker works, and the children come to an end.
FairSpec ==
  /\ Init /\ [][Next]_vars
  /\ WF_vars(Proceed)
  /\ \A c \in Child : WF_vars(ChildBegins(c) \/ ChildEnds(c))

-----------------------------------------------------------------------------
\* A parent that waits for its children is resumed once they have ended.
ParentIsResumed ==
  parent = "WAITING" /\ (\A c \in Child : child[c] \in Terminal) ~> parent # "WAITING"
=============================================================================
