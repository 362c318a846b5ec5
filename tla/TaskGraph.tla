------------------------------ MODULE TaskGraph ------------------------------
(***************************************************************************)
(* The dependency tree of a run queue, runtaskentries of RunQueueData      *)
(* (lib/bb/runqueue.py): prepare() makes it and the setscene stage         *)
(* collapses it.                                                           *)
(***************************************************************************)
VARIABLE depends    \* runtaskentries[t].depends, for the t in runtaskentries

Tids == DOMAIN depends
RevDepsOf(t) == {r \in Tids : t \in depends[r]}

\* What a walk inside U that starts from S and follows the edges comes to.
WalkClosed(U, edges, W) ==
  \A t \in W \intersect DOMAIN edges : edges[t] \intersect U \subseteq W

Reachable(U, S, edges) ==
  {x \in U : \A W \in SUBSET U :
     S \intersect U \subseteq W /\ WalkClosed(U, edges, W) => x \in W}

\* The tasks that need t, directly or not.
Above(t) ==
  {u \in Tids : \A W \in SUBSET Tids :
     RevDepsOf(t) \subseteq W /\ (\A x \in W : RevDepsOf(x) \subseteq W) => u \in W}

\* What t waits for, directly or not.
Ancestors(t) == Reachable(Tids, depends[t], depends)

OnCycle(t) == t \in Ancestors(t)
=============================================================================
