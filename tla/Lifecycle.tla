------------------------------ MODULE Lifecycle ------------------------------
(***************************************************************************)
(* What the Engine interface promises of one instance to whoever reads it  *)
(* from the store: the life it leads between the states of Status, and     *)
(* StepResults as the record of a sequential execution.                    *)
(***************************************************************************)
EXTENDS Integers

CONSTANTS N, Value, None \* the number of steps; results, and the lack of one

VARIABLES status, results

StepIndex == 0 .. N - 1

\* A step has a result only if every step before it has one.
NoGap(r) ==
  \A k \in StepIndex : r[k] # None => \A j \in 0 .. k - 1 : r[j] # None

Init == status = "NONE" /\ results = [k \in StepIndex |-> None]

\* Results are added in order, and none is dropped or replaced.
Progress ==
  /\ results' \in [StepIndex -> Value \cup {None}]
  /\ \A k \in StepIndex : results[k] # None => results'[k] = results[k]
  /\ NoGap(results')

\* Run, or Start and a worker later on.
Create ==
  /\ status = "NONE"
  /\ status' \in {"RUNNING", "PENDING"}
  /\ UNCHANGED results

\* RunInstance, Resume and Signal: the steps run again, with what there is.
Begin ==
  /\ status # "NONE"
  /\ status' = "RUNNING"
  /\ UNCHANGED results

\* Steps succeed.
Record ==
  /\ status = "RUNNING"
  /\ UNCHANGED status
  /\ Progress

\* The execution ends: with all results, with the result missing that it waits
\* for, or at an error.
Settle ==
  /\ status = "RUNNING"
  /\ Progress
  /\ \/ status' = "COMPLETED" /\ \A k \in StepIndex : results'[k] # None
     \/ status' = "WAITING" /\ \E k \in StepIndex : results'[k] = None
     \/ status' = "FAILED"

\* RecoverStuckInstances, or a worker with another definition of the workflow.
Interrupt ==
  /\ status # "NONE"
  /\ status' = "FAILED"
  /\ UNCHANGED results

Next == Create \/ Begin \/ Record \/ Settle \/ Interrupt

Spec == Init /\ [][Next]_<<status, results>>
=============================================================================
