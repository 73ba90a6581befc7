----------------------------- MODULE LeaseQueue -----------------------------
(***************************************************************************)
(* What a task queue promises its workers (taskqueue.Queue, with the      *)
(* comments on its methods): at-least-once delivery under leases.          *)
(*                                                                         *)
(*   - a task that was enqueued stays in the queue until a worker that     *)
(*     received it, and to whose lease nobody succeeded, acknowledges it;  *)
(*   - a task under a live lease is delivered to nobody;                   *)
(*   - an acknowledged task never comes back.                              *)
(*                                                                         *)
(* The promises are about tasks that are enqueued once.  A caller may hand *)
(* in a task with the identity of an earlier one, as the retry of Worker   *)
(* does when its Nack is refused; from then on nothing is promised for     *)
(* that identity, and everything still is for the others.                  *)
(*                                                                         *)
(* Time, schedules, attempts, the order of delivery and the way tasks are  *)
(* stored are left to the implementations.                                 *)
(***************************************************************************)
EXTENDS Naturals

CONSTANTS TaskId,    \* identities a task can be given
          Owner,     \* worker identities
          NoOwner    \* "nobody"

VARIABLES issued,    \* identities given to tasks so far
          again,     \* identities that were enqueued a second time
          holder,    \* for the other tasks in the queue: who received it last
          live       \* the tasks among them whose lease has not run out

vars == <<issued, again, holder, live>>

Lapsed == {t \in DOMAIN holder : holder[t] # NoOwner} \ live

Init ==
  /\ issued = {}
  /\ again = {}
  /\ holder = [t \in {} |-> NoOwner]
  /\ live = {}

Enqueue(t) ==
  /\ t \notin issued
  /\ issued' = issued \cup {t}
  /\ holder' = [u \in DOMAIN holder \cup {t} |-> IF u = t THEN NoOwner ELSE holder[u]]
  /\ UNCHANGED <<again, live>>

EnqueueAgain(t) ==
  /\ t \in issued
  /\ again' = again \cup {t}
  /\ holder' = [u \in DOMAIN holder \ {t} |-> holder[u]]
  /\ live' = live \ {t}
  /\ UNCHANGED issued

\* Time passes and some leases run out.
Lapse ==
  /\ live' \in SUBSET live
  /\ UNCHANGED <<issued, again, holder>>

\* A queue may take lapsed tasks back from their holders when it looks for
\* a task to deliver; it need not.
Dequeue(t, w) ==
  /\ t \in DOMAIN holder \ live
  /\ \E back \in SUBSET Lapsed :
       holder' = [u \in DOMAIN holder |-> IF u = t THEN w
                                          ELSE IF u \in back THEN NoOwner
                                          ELSE holder[u]]
  /\ live' = live \cup {t}
  /\ UNCHANGED <<issued, again>>

\* The same, when what it delivers is a task that was enqueued again.
TakeBack ==
  /\ \E back \in SUBSET Lapsed :
       holder' = [u \in DOMAIN holder |-> IF u \in back THEN NoOwner ELSE holder[u]]
  /\ UNCHANGED <<issued, again, live>>

\* A holder may extend its lease even after it ran out, as long as nobody
\* else was given the task.
RenewLease(t, w) ==
  /\ t \in DOMAIN holder /\ holder[t] = w
  /\ live' = live \cup {t}
  /\ UNCHANGED <<issued, again, holder>>

Ack(t, w) ==
  /\ t \in DOMAIN holder /\ holder[t] = w
  /\ holder' = [u \in DOMAIN holder \ {t} |-> holder[u]]
  /\ live' = live \ {t}
  /\ UNCHANGED <<issued, again>>

Nack(t, w) ==
  /\ t \in DOMAIN holder /\ holder[t] = w
  /\ holder' = [holder EXCEPT ![t] = NoOwner]
  /\ live' = live \ {t}
  /\ UNCHANGED <<issued, again>>

Next ==
  \/ Lapse \/ TakeBack
  \/ \E t \in TaskId : Enqueue(t) \/ EnqueueAgain(t)
  \/ \E t \in TaskId, w \in Owner :
       \/ Dequeue(t, w)
       \/ RenewLease(t, w)
       \/ Ack(t, w)
       \/ Nack(t, w)

Spec == Init /\ [][Next]_vars
=============================================================================
