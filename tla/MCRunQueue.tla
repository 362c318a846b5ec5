---------------------------- MODULE MCRunQueue ----------------------------
(* Small instances of a whole build for TLC. *)
EXTENDS RunQueue

CONSTANTS a, b, f, g   \* tasks
CONSTANTS A, B         \* recipes

\* a and b do the same shared work for two recipes; f follows a under fakeroot,
\* and g needs nothing.
MCTask == {a, b, f, g}
MCDepends == [t \in MCTask |-> IF t = f THEN {a} ELSE {}]
\* All wait for a, then all may start.
ForkDepends == [t \in MCTask |-> IF t = a THEN {} ELSE {a}]
MCFn == [t \in MCTask |-> IF t = b THEN B ELSE A]
MCStamp == [t \in MCTask |-> IF t = b THEN a ELSE t]
MCPrio ==
  [t \in MCTask |-> CASE t = a -> 0 [] t = b -> 1 [] t = g -> 2 [] t = f -> 3]
=============================================================================
