------------------------------ MODULE MCEngine ------------------------------
(* Small instances of Engine for TLC. *)
EXTENDS Engine, TLC

CONSTANTS c1, c2, e1, e2, s1, s2

TwoEngines == c1 :> e1 @@ c2 :> e2

Task(n) == [kind |-> "task", names |-> {}, attempts |-> n]

WaitFor(s) == [kind |-> "signal", names |-> {s}, attempts |-> 1]

WaitForAny(S) == [kind |-> "any", names |-> S, attempts |-> 1]

Join == [kind |-> "children", names |-> {}, attempts |-> 1]

ShortApproval == <<WaitFor(s1), Task(1)>>

TwoTasks == <<Task(1), Task(1)>>

AllKinds == <<Task(2), WaitForAny({s1, s2}), WaitFor(s1), Join>>
=============================================================================
