--------------------------- MODULE TaskSettlement ---------------------------
(***************************************************************************)
(* What the task queue promises, and no more: every task is claimed at     *)
(* most once, in the order of the stream, and ends at most once, with an   *)
(* answer, with a retry that is a new task, as a dead letter, or lost.     *)
(* Delivery is at most once: nothing lost or ended is ever claimed again.  *)
(***************************************************************************)
EXTENDS Integers

CONSTANT MaxTasks

TaskId == 1 .. MaxTasks

Fate == {"absent", "queued", "claimed", "answered", "retried", "dead", "lost"}

VARIABLE fate

Init == fate = [i \in TaskId |-> "absent"]

\* i is the next identifier of the stream.
NextFree(i) ==
  /\ fate[i] = "absent"
  /\ \A j \in TaskId : fate[j] = "absent" => j >= i

Enqueue(i) ==
  /\ NextFree(i)
  /\ fate' = [fate EXCEPT ![i] = "queued"]

\* Nobody has claimed a task after i.
InOrder(i) == \A j \in TaskId : j > i => fate[j] \in {"absent", "queued"}

Claim(i) ==
  /\ fate[i] = "queued"
  /\ InOrder(i)
  /\ \E outcome \in {"claimed", "lost"} :
       fate' = [fate EXCEPT ![i] = outcome]

Settle(i) ==
  /\ fate[i] = "claimed"
  /\ \E outcome \in {"answered", "dead"} :
       fate' = [fate EXCEPT ![i] = outcome]

Retry(i, j) ==
  /\ fate[i] = "claimed"
  /\ NextFree(j)
  /\ fate' = [fate EXCEPT ![i] = "retried", ![j] = "queued"]

Lose(S) ==
  /\ \A i \in S : fate[i] = "claimed"
  /\ fate' = [i \in TaskId |-> IF i \in S THEN "lost" ELSE fate[i]]

Next ==
  \/ \E i \in TaskId : Enqueue(i) \/ Claim(i) \/ Settle(i)
  \/ \E i, j \in TaskId : Retry(i, j)
  \/ \E S \in SUBSET TaskId : Lose(S)

Spec == Init /\ [][Next]_fate
=============================================================================
