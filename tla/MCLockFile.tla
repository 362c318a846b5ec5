------------------------------ MODULE MCLockFile ------------------------------
(* LockFile for TLC: the ways the repository calls lockfile.  A task waits for *)
(* the lock, shared or not; bitbake.lock is not waited for when the server     *)
(* starts, and waited for with a time limit when it ends.                      *)
EXTENDS LockFile

CONSTANTS p1, p2, p3

task   == [shared |-> FALSE, retry |-> TRUE,  block |-> FALSE]
reader == [shared |-> TRUE,  retry |-> TRUE,  block |-> FALSE]
start  == [shared |-> FALSE, retry |-> FALSE, block |-> FALSE]
end    == [shared |-> FALSE, retry |-> FALSE, block |-> TRUE]

UsedProcs == {p1, p2, p3}
UsedRequests == [p \in UsedProcs |-> CASE p = p1 -> {task, reader}
                                       [] p = p2 -> {task, end, start}
                                       [] p = p3 -> {task, reader}]
===============================================================================
