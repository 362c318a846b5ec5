----------------------------- MODULE BuildOrder -----------------------------
(***************************************************************************)
(* What the task queue promises its users, with no word of how: a task     *)
(* starts after everything it depends on is done, at most NumberTasks run  *)
(* at a time, and two tasks that share a stamp file never run together.    *)
(***************************************************************************)
EXTENDS Naturals, FiniteSets

CONSTANTS Task, Depends, Stamp, NumberTasks

VARIABLE status   \* status[t] \in Status

Status == {"waiting", "running", "done", "failed"}

RunningTasks == {t \in Task : status[t] = "running"}

DepsDone(t) == \A d \in Depends[t] : status[d] = "done"

Init == status = [t \in Task |-> "waiting"]

\* t need not run: its result exists already.
Skip(t) ==
  /\ status[t] = "waiting"
  /\ DepsDone(t)
  /\ status' = [status EXCEPT ![t] = "done"]

Start(t) ==
  /\ status[t] = "waiting"
  /\ DepsDone(t)
  /\ Cardinality(RunningTasks) < NumberTasks
  /\ \A u \in RunningTasks : Stamp[u] # Stamp[t]
  /\ status' = [status EXCEPT ![t] = "running"]

End(t, outcome) ==
  /\ status[t] = "running"
  /\ status' = [status EXCEPT ![t] = outcome]

Next == \E t \in Task :
  Skip(t) \/ Start(t) \/ \E outcome \in {"done", "failed"} : End(t, outcome)

Spec == Init /\ [][Next]_status
=============================================================================
