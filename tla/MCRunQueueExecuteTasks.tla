----------------------- MODULE MCRunQueueExecuteTasks -----------------------
(* Small instances of the task queue for TLC. *)
EXTENDS RunQueueExecuteTasks

CONSTANTS af, au, bf, bu, c, d, e   \* tasks
CONSTANTS A, B, C                   \* recipes

\* Two recipes that share their source directory, as the gcc recipes do, and a
\* third: c needs what both fetch, d needs nothing, so that three tasks with
\* different stamps can be ready at once.  An earlier build must have left the
\* result of e.
MCTask == {af, au, bf, bu, c, d, e}
MCDepends ==
  [t \in MCTask |-> CASE t = au -> {af} [] t = bu -> {bf}
                      [] t = c -> {af, bf} [] OTHER -> {}]
MCFn ==
  [t \in MCTask |-> IF t \in {af, au} THEN A ELSE IF t \in {bf, bu} THEN B ELSE C]
MCStampFile == {"fetch", "unpack", "c", "d", "e"}
SharedStamps ==
  [t \in MCTask |-> CASE t = c -> "c" [] t = d -> "d" [] t = e -> "e"
                      [] t \in {af, bf} -> "fetch" [] OTHER -> "unpack"]
\* d after the fetches and c last, in an order the task weights allow.
MCPrio == [t \in MCTask |-> CASE t = e -> 0 [] t = af -> 1 [] t = bf -> 2
                              [] t = d -> 3 [] t = au -> 4 [] t = bu -> 5
                              [] t = c -> 6]

\* The stamps of this instance are shared the way the theorem wants them.
ASSUME SharedInstance == SharedAlike
=============================================================================
