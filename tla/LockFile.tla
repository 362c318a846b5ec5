------------------------------- MODULE LockFile -------------------------------
(* bb.utils.lockfile and bb.utils.unlockfile: a lock that several processes    *)
(* take on a file which its holder removes again.  The readers and the writer  *)
(* of the shlibs list (package.bbclass), the sstate installers, the caches     *)
(* that parser processes save and bitbake.lock all use it.                     *)
(*                                                                             *)
(* One file.  The kernel's flock is modelled with what the code meets of it:   *)
(* the lock belongs to the open file, a conversion from shared to exclusive    *)
(* first gives the shared lock up (Linux), and the number of a removed file    *)
(* can be used again once nobody has it open.                                  *)
EXTENDS Naturals

CONSTANTS Procs,          \* processes
          Inodes,         \* inode numbers of the file system
          None,           \* no inode
          Requests        \* Requests[p]: the arguments p may call lockfile with

ASSUME NoneAssumption == Inodes # {} /\ None \notin Inodes
ASSUME RequestsAssumption ==
    Requests \in [Procs -> SUBSET [shared : BOOLEAN, retry : BOOLEAN, block : BOOLEAN]]

VARIABLES name,           \* inode the lock file's name leads to, or None
          pc,             \* where each process is
          request,        \* the arguments it calls lockfile with
          lf,             \* inode of the file it has open, or None
          flock,          \* its lock on that file
          overtaken       \* a promotion was granted on a file the name no longer leads to

lockVars == <<name, pc, request, lf, flock, overtaken>>

Callers == {f \in [Procs -> UNION {Requests[p] : p \in Procs}] : \A p \in Procs : f[p] \in Requests[p]}

\* A number the file system may give a new file: the same one each time when
\* it can, which is the case the comparison of inodes has to survive.
FreeInode == CHOOSE i \in Inodes : i # name /\ \A p \in Procs : lf[p] # i

LockInit ==
    /\ name \in {None, CHOOSE i \in Inodes : TRUE}      \* perhaps left behind
    /\ pc = [p \in Procs |-> "idle"]
    /\ request \in Callers
    /\ lf = [p \in Procs |-> None]
    /\ flock = [p \in Procs |-> "none"]
    /\ overtaken = FALSE

Goto(p, label) == pc' = [pc EXCEPT ![p] = label]
Close(p) == /\ lf' = [lf EXCEPT ![p] = None]
            /\ flock' = [flock EXCEPT ![p] = "none"]

\* flock() on the file p has open
CanLock(p, mode) ==
    \A q \in Procs \ {p} :
        lf[q] = lf[p] => flock[q] = "none" \/ (mode = "sh" /\ flock[q] = "sh")

mode(p) == IF request[p].shared THEN "sh" ELSE "ex"
DoesNotWait(p) == ~request[p].retry /\ ~request[p].block          \* LOCK_NB

-------------------------------------------------------------------------------
(* lockfile *)

Call(p) ==
    /\ pc[p] = "idle"
    /\ Goto(p, "open")
    /\ UNCHANGED <<name, request, lf, flock, overtaken>>

\* open(name, 'a+') makes the file when there is none.
Open(p) ==
    /\ pc[p] = "open"
    /\ \E i \in Inodes :
          /\ i = IF name = None THEN FreeInode ELSE name
          /\ name = None => \A q \in Procs : lf[q] # i
          /\ name' = i
          /\ lf' = [lf EXCEPT ![p] = i]
    /\ Goto(p, "flock")
    /\ UNCHANGED <<request, flock, overtaken>>

Flock(p) ==
    /\ pc[p] = "flock"
    /\ CanLock(p, mode(p))
    /\ flock' = [flock EXCEPT ![p] = mode(p)]
    /\ Goto(p, "exists")
    /\ UNCHANGED <<name, request, lf, overtaken>>

\* A faulty variant, to try the properties with: the file stays open.
Again_still_open(p) ==
    /\ Goto(p, IF request[p].retry THEN "open" ELSE "idle")
    /\ UNCHANGED <<name, request, lf, flock, overtaken>>

\* The file is closed; the loop starts again, or lockfile returns None.
Again(p) ==
    /\ Close(p)
    /\ Goto(p, IF request[p].retry THEN "open" ELSE "idle")
    /\ UNCHANGED <<name, request, overtaken>>

\* flock() raises: somebody else has the lock and LOCK_NB was given, or a
\* signal arrives during the wait, as the timeout in post_serve means it to.
FlockRaises(p) ==
    /\ pc[p] = "flock"
    /\ ~CanLock(p, mode(p))
    /\ DoesNotWait(p) \/ request[p].block
    /\ Again(p)

\* A faulty variant, to try the properties with: any file will do.
IsLockFile_not_compared(p) == name # None

\* The inode that is locked is the one the name leads to.
IsLockFile(p) == name = lf[p]

\* os.path.exists(lf.name)
Exists(p) ==
    /\ pc[p] = "exists"
    /\ name # None
    /\ Goto(p, "stat")
    /\ UNCHANGED <<name, request, lf, flock, overtaken>>

\* os.stat(lf.name), which may have gone since
Stat(p) ==
    /\ pc[p] = "stat"
    /\ IsLockFile(p)
    /\ Goto(p, "held")
    /\ UNCHANGED <<name, request, lf, flock, overtaken>>

Replaced(p) ==
    /\ \/ pc[p] = "exists" /\ name = None
       \/ pc[p] = "stat" /\ ~IsLockFile(p)
    /\ Again(p)

-------------------------------------------------------------------------------
(* unlockfile *)

\* The holder of an exclusive lock has it already.
Promote(p) ==
    /\ pc[p] = "held"
    /\ flock[p] = "ex"
    /\ Goto(p, "unlink")
    /\ UNCHANGED <<name, request, lf, flock, overtaken>>

PromoteGivesUp(p) ==
    /\ pc[p] = "held"
    /\ flock[p] = "sh"
    /\ flock' = [flock EXCEPT ![p] = "none"]
    /\ Goto(p, "promote")
    /\ UNCHANGED <<name, request, lf, overtaken>>

PromoteTakes(p) ==
    /\ pc[p] = "promote"
    /\ CanLock(p, "ex")
    /\ flock' = [flock EXCEPT ![p] = "ex"]
    /\ overtaken' = (overtaken \/ name # lf[p])
    /\ Goto(p, "unlink")
    /\ UNCHANGED <<name, request, lf>>

PromoteFails(p) ==
    /\ pc[p] = "promote"
    /\ ~CanLock(p, "ex")
    /\ Goto(p, "unlock")
    /\ UNCHANGED <<name, request, lf, flock, overtaken>>

\* os.unlink(lf.name): whatever file the name leads to by now.
Unlink(p) ==
    /\ pc[p] = "unlink"
    /\ name' = None
    /\ Goto(p, "unlock")
    /\ UNCHANGED <<request, lf, flock, overtaken>>

Unlock(p) ==
    /\ pc[p] = "unlock"
    /\ Close(p)
    /\ Goto(p, "idle")
    /\ UNCHANGED <<name, request, overtaken>>

\* post_serve closes the file of bitbake.lock without unlockfile.
CloseOnly(p) ==
    /\ pc[p] = "held"
    /\ Close(p)
    /\ Goto(p, "idle")
    /\ UNCHANGED <<name, request, overtaken>>

Die(p) ==
    /\ pc[p] \notin {"idle", "dead"}
    /\ Close(p)
    /\ Goto(p, "dead")
    /\ UNCHANGED <<name, request, overtaken>>

Step(p) ==
    \/ Open(p) \/ Flock(p) \/ FlockRaises(p) \/ Exists(p) \/ Stat(p) \/ Replaced(p)
    \/ Promote(p) \/ PromoteGivesUp(p) \/ PromoteTakes(p) \/ PromoteFails(p)
    \/ Unlink(p) \/ Unlock(p)

LockNext == \E p \in Procs : Call(p) \/ Step(p) \/ CloseOnly(p) \/ Die(p)

LockSpec == LockInit /\ [][LockNext]_lockVars

\* A process that is inside lockfile or unlockfile, or has the lock, goes on,
\* and the kernel does not pass over one that waits for ever.
LockFairSpec == LockSpec /\ \A p \in Procs : WF_lockVars(Step(p)) /\ SF_lockVars(Flock(p))

-------------------------------------------------------------------------------
(* Properties *)

Labels == {"idle", "open", "flock", "exists", "stat", "held", "promote", "unlink", "unlock", "dead"}

(* Type invariant: a process has the file open from open() to close(), and its *)
(* lock is of the kind it asked for until it promotes it.                      *)
LockTypeOK ==
    /\ name \in Inodes \cup {None}
    /\ pc \in [Procs -> Labels]
    /\ request \in Callers
    /\ lf \in [Procs -> Inodes \cup {None}]
    /\ flock \in [Procs -> {"none", "sh", "ex"}]
    /\ overtaken \in BOOLEAN
    /\ \A p \in Procs :
          /\ (lf[p] = None) <=> (pc[p] \in {"idle", "open", "dead"})
          /\ pc[p] \in {"exists", "stat", "held"} => flock[p] = mode(p)
          /\ pc[p] \in {"idle", "open", "flock", "promote", "dead"} => flock[p] = "none"
          /\ pc[p] = "unlink" => flock[p] = "ex"

(* Whatever processes ask for, shared or exclusive, waiting or not, and        *)
(* although each holder removes the file under those who wait for it: a        *)
(* process that was given the lock has the file the name leads to, and shares  *)
(* it only with processes that asked for a shared lock too.  It stops being    *)
(* true only when unlockfile promotes a shared lock on a file that somebody    *)
(* else removed while the kernel converted the lock.                           *)
Exclusive ==
    ~overtaken =>
        \A p \in Procs : pc[p] = "held" =>
            /\ name = lf[p]
            /\ \A q \in Procs \ {p} :
                  pc[q] = "held" => request[p].shared /\ request[q].shared

(* The loop of lockfile is not fair to one process but useful to all: while    *)
(* one that retries is in it, some process gets the lock.  Removing the file   *)
(* cannot make the others chase removed files for ever.                        *)
SomebodyGetsIt ==
    \A p \in Procs :
        (pc[p] = "open" /\ request[p].retry) ~> (pc[p] = "dead" \/ \E q \in Procs : pc[q] = "held")

(* What does not hold: the same without the exception, which lockfile's        *)
(* docstring promises.                                                         *)
AlwaysExclusive ==
    \A p, q \in Procs : p # q /\ pc[p] = "held" /\ pc[q] = "held" =>
        request[p].shared /\ request[q].shared
===============================================================================
