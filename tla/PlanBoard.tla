----------------------------- MODULE PlanBoard -----------------------------
(***************************************************************************)
(* What one run of a plan promises: every task is settled once, and a task *)
(* is completed only when everything it depends on is.                     *)
(***************************************************************************)
CONSTANTS Task, Deps
VARIABLE outcome

Init == outcome = [t \in Task |-> "pending"]

Complete(t) ==
  /\ outcome[t] = "pending" /\ \A d \in Deps[t] : outcome[d] = "completed"
  /\ outcome' = [outcome EXCEPT ![t] = "completed"]

\* One task is given up, or all those that can no longer be reached.
GiveUp(tasks, verdict) ==
  /\ tasks # {} /\ \A t \in tasks : outcome[t] = "pending"
  /\ outcome' = [t \in Task |-> IF t \in tasks THEN verdict ELSE outcome[t]]

Next == \/ \E t \in Task : Complete(t) \/ GiveUp({t}, "failed")
        \/ \E tasks \in SUBSET Task : GiveUp(tasks, "blocked")

Spec == Init /\ [][Next]_outcome
=============================================================================
