---------------------------- MODULE MCDeployment ----------------------------
(* A small instance of Deployment for TLC: version 1 of a workflow, which  *)
(* somebody changed without changing the version, and version 2.           *)
EXTENDS Deployment, TLC

CONSTANTS c1, c2, e1, e2, a, b

TwoProcesses == c1 :> e1 @@ c2 :> e2

Order(version, fingerprint) ==
  [name |-> "order", version |-> version, fingerprint |-> fingerprint]

Orders == {Order(1, a), Order(1, b), Order(2, "c")}

\* a and b are interchangeable.
Fingerprints == Permutations({a, b})
=============================================================================
