------------------------ MODULE RunQueueExecuteTasks ------------------------
(***************************************************************************)
(* The task queue at work: execute() called from the idle loop, the worker *)
(* processes its tasks run in, and the callers that may end the run early. *)
(* A worker may report at any moment: the pipe is read inside execute(),   *)
(* inside finish() and while the workers are torn down.                    *)
(***************************************************************************)
EXTENDS RunQueueExecute

VARIABLES
  pc,         \* where the server is: between calls, in execute(), in its
              \* setscene enforcement, or at the exception it raised
  whitelist_checked,   \* rqdata.setscenewhitelist_checked
  exitcode    \* exitcode[t]: what the worker has to report about t

vars == <<state, queueVars, stampVars, pc, whitelist_checked, exitcode>>

TypeOK ==
  /\ ExecuteTypeOK
  /\ StampTypeOK
  /\ pc \in {"idle", "execute", "enforce", "raised"}
  /\ whitelist_checked \in BOOLEAN
  /\ exitcode \in [Task -> {"none", "ok", "failed"}]

Init ==
  /\ state = "Running"
  /\ ExecuteInit
  /\ StampInit
  /\ pc = "idle"
  /\ whitelist_checked = FALSE
  /\ exitcode = [t \in Task |-> "none"]

-----------------------------------------------------------------------------

\* execute() is entered; the whitelist is looked at once.
ExecuteBegin ==
  /\ pc = "idle"
  /\ state = "Running"
  /\ pc' = IF ~whitelist_checked /\ UnexpectedTask THEN "enforce" ELSE "execute"
  /\ whitelist_checked' = TRUE
  /\ UNCHANGED <<state, queueVars, stampVars, exitcode>>

ExecuteTask(t) ==
  /\ pc = "execute"
  /\ \/ ExecuteSkip(t) \/ ExecuteNoExec(t) \/ ExecuteLaunch(t)
     \/ ExecuteSpawnFails(t)
  /\ pc' = "idle"
  /\ UNCHANGED <<whitelist_checked, exitcode>>

\* No task to start, some still active: execute() returns to wait for them.
ExecuteWait ==
  /\ pc = "execute"
  /\ sched_none
  /\ stats.active > 0
  /\ pc' = "idle"
  /\ UNCHANGED <<state, queueVars, stampVars, whitelist_checked, exitcode>>

ExecuteEnd ==
  /\ \/ pc = "execute" /\ ExecuteFinished
     \/ pc = "enforce" /\ EnforceDone
     \/ pc = "raised" /\ ExecuteAborted
  /\ pc' = "idle"
  /\ UNCHANGED <<whitelist_checked, exitcode>>

\* An exception leaves execute(), for want of a worker to write to or of an
\* index to the scheduler's list.
ExecuteException ==
  /\ \/ pc = "execute" /\ \E t \in Task : ExecuteWriteFails(t)
     \/ pc \in {"execute", "enforce"} /\ ExecuteRaises
  /\ pc' = "raised"
  /\ UNCHANGED <<whitelist_checked, exitcode>>

Enforce(t) ==
  /\ pc = "enforce"
  /\ EnforceSkip(t)
  /\ UNCHANGED <<pc, whitelist_checked, exitcode>>

\* The server reads the exit code of t.
ProcessWaitpid(t) ==
  /\ pc # "enforce"
  /\ t \in build_stamps
  /\ exitcode[t] # "none"
  /\ runqueue_process_waitpid(t, exitcode[t] = "ok")
  /\ UNCHANGED <<stampVars, pc, whitelist_checked, exitcode>>

\* The disk monitor or a shutdown command, between two calls of execute().
Finish ==
  /\ pc = "idle"
  /\ finish
  /\ UNCHANGED <<pc, whitelist_checked, exitcode>>

\* The same, told not to wait; and the death of a worker, noticed by a read.
FinishNow ==
  /\ pc \in {"idle", "execute"}
  /\ finish_now
  /\ UNCHANGED <<pc, whitelist_checked, exitcode>>

\* _exec_task stamps a task that succeeded.  A task killed after that point is
\* reported as failed although its stamp is there.
WorkerEnds(t, code) ==
  /\ t \in build_stamps
  /\ exitcode[t] = "none"
  /\ exitcode' = [exitcode EXCEPT ![t] = code]
  /\ \/ code = "ok" /\ t \in NoStamp /\ UNCHANGED stampVars
     \/ code = "failed" /\ UNCHANGED stampVars
     \/ t \notin NoStamp /\ make_stamp(t)
  /\ UNCHANGED <<state, queueVars, pc, whitelist_checked>>

Next ==
  \/ ExecuteBegin \/ ExecuteWait \/ ExecuteEnd \/ ExecuteException
  \/ Finish \/ FinishNow
  \/ \E t \in Task :
       \/ ExecuteTask(t) \/ Enforce(t) \/ ProcessWaitpid(t)
       \/ \E code \in {"ok", "failed"} : WorkerEnds(t, code)

Spec == Init /\ [][Next]_vars

\* The idle loop keeps calling, reading and finishing, and every task process
\* ends at some time; nobody has to stop the run early.
FairSpec ==
  /\ Spec
  /\ WF_vars(ExecuteBegin) /\ WF_vars(ExecuteWait) /\ WF_vars(ExecuteEnd)
  /\ WF_vars(ExecuteException)
  /\ WF_vars(state = "CleanUp" /\ Finish)
  /\ \A t \in Task :
       /\ WF_vars(ExecuteTask(t)) /\ WF_vars(Enforce(t))
       /\ WF_vars(ProcessWaitpid(t))
       /\ WF_vars(\E code \in {"ok", "failed"} : WorkerEnds(t, code))

-----------------------------------------------------------------------------
(* Properties *)

\* A task that was started or skipped has all its dependencies complete
\* (task_completeoutright marks a task buildable after its last dependency).
DependencyOrder ==
  \A t \in runq_running : Depends[t] \subseteq runq_complete

\* "BB_NUMBER_THREADS: the maximum number of tasks BitBake should run in
\* parallel": RunQueueScheduler.next() counts on stats.active for it.
ThreadLimit == Cardinality(build_stamps) <= NumberTasks

\* Two tasks of one stamp file are never with the workers together
\* (next_buildable_task's test of build_stamps).
StampExclusion ==
  \A t, u \in build_stamps : StampNoExtra[t] = StampNoExtra[u] => t = u

\* The statistics the events carry are those of the sets: what is active is
\* with a worker, but for the task whose fakeroot worker never started.
StatsAgree ==
  /\ stats.active = Cardinality(build_stamps)
                      - (stats.failed - Cardinality(failed_tids))
  /\ stats.completed = Cardinality(runq_complete)
  /\ stats.skipped = Cardinality(runq_complete \ started)

\* No wakeup is lost: a task all of whose dependencies are complete is
\* buildable, whatever order they completed in and although launching a task
\* changes its set of dependencies.
NoLostTask ==
  \A t \in Task : Depends[t] \subseteq runq_complete => t \in runq_buildable

QueueExhausted == pc = "execute" /\ sched_none /\ stats.active <= 0

\* The "never buildable / never ran / never completed" checks at the end of
\* execute() have nothing to report.
SanityChecksPass ==
  QueueExhausted /\ failed_tids = {} =>
    runq_buildable = Task /\ runq_running = Task /\ runq_complete = Task

\* -k: "as much as possible will be built before stopping": what is left when
\* the queue runs dry has failed or waits for something that is left too.
AsMuchAsPossible ==
  QueueExhausted =>
    \A t \in Task \ (runq_complete \union failed_tids) :
      \E d \in Depends[t] : d \notin runq_complete

\* Work that several recipes share through one stamp file is done once: of two
\* tasks of a stamp at most one ran and succeeded, whichever came first.
SharedWorkDoneOnce ==
  \A t, u \in (started \intersect runq_complete) \ NoStamp :
    StampOf[t] = StampOf[u] => t = u

\* The run ends: no set of failures, skips and shared stamps leaves execute()
\* waiting for ever, and finish() is not waiting for ever either.
Terminates == <>[](state \in {"Failed", "Complete"})

\* "The default scheduler just returns the first buildable task": with a free
\* slot and a task that can start, next() returns one.
SchedulerReturnsTask ==
  pc = "execute" /\ HasFreeSlot /\ Ready # {} => \E t \in Task : sched_next(t)

taskStatus ==
  [t \in Task |-> IF t \in failed_tids THEN "failed"
                  ELSE IF t \in runq_complete THEN "done"
                  ELSE IF t \in runq_running THEN "running" ELSE "waiting"]

Promise == INSTANCE BuildOrder WITH Stamp <- StampNoExtra, status <- taskStatus

\* The task queue keeps the promise of BuildOrder: it starts, ends and skips
\* tasks in no other way.
ImplementsBuildOrder == Promise!Spec

-----------------------------------------------------------------------------
(* The inductive invariant behind the safety properties *)

\* A started task is with a worker, complete or failed, and only one of these.
Partition ==
  /\ runq_running = build_stamps \union runq_complete \union failed_tids
  /\ build_stamps \intersect runq_complete = {}
  /\ build_stamps \intersect failed_tids = {}
  /\ runq_complete \intersect failed_tids = {}

\* A task is buildable exactly when its dependencies are complete, and its set
\* of dependencies is untouched until then.
Buildability ==
  /\ runq_running \subseteq runq_buildable
  /\ \A t \in Task : t \in runq_buildable <=> Depends[t] \subseteq runq_complete
  /\ \A t \in Task \ runq_buildable : depends[t] = Depends[t]

\* A call of execute() is under way or may follow.
CanStart == pc \in {"execute", "enforce"} \/ (state = "Running" /\ pc # "raised")

\* While execute() can still start tasks, every announced task did start.
Announced ==
  /\ build_stamps \subseteq started
  /\ stats.failed >= Cardinality(failed_tids)
  /\ CanStart =>
       started \subseteq runq_running /\ stats.failed = Cardinality(failed_tids)

\* Inductive: each property above follows from it.
IInv ==
  /\ TypeOK /\ Partition /\ Buildability /\ Announced
  /\ StampExclusion /\ StatsAgree /\ ThreadLimit

-----------------------------------------------------------------------------
(* The inductive invariant behind SharedWorkDoneOnce *)

\* The dependencies whose stamps check_stamp_task compares with that of t.
Compared(t) == {d \in Depends[t] : Fn[d] = Fn[t] \/ Fn[d] \in DepTreeFiles}

Shares(t) == \E u \in Task \ {t} : StampOf[u] = StampOf[t]

\* Tasks of one stamp are the same work: they are compared with the same
\* stamps, each that of a task this build runs or checks.  The clock is past
\* the second whose stamps look absent.
SharedAlike ==
  /\ OldStamps # 0
  /\ \A t, u \in Task : t # u /\ StampOf[t] = StampOf[u] /\ t \notin NoStamp =>
       /\ u \notin NoStamp
       /\ \A d \in Compared(u) :
            \E x \in Compared(t) \ (Covered \union NoStamp) : StampOf[x] = StampOf[d]

\* The tasks whose stamps this build has written or found in order.
Done == (runq_complete \union {t \in build_stamps : exitcode[t] = "ok"})
          \ (Covered \union NoStamp)

\* Tasks have started or may start: the run is not one that the setscene
\* enforcement ends.
Begun == started # {} \/ pc = "execute" \/ (state = "Running" /\ pc = "idle")

InTime == clock # 0 /\ \A p \in StampFile : mtime[p] <= clock

Entered ==
  /\ \A t \in Task : exitcode[t] # "none" => t \in runq_running
  /\ started \intersect Covered = {}
  /\ pc = "execute" => whitelist_checked
  /\ (~whitelist_checked \/ pc = "enforce") => started = {}

\* A stamp in order stays so, for no process under way is to write it.
StampsStand ==
  Begun => \A t \in Done :
    /\ mtime[StampOf[t]] # 0
    /\ Shares(t) => check_stamp_task(t)
    /\ \A v \in build_stamps : exitcode[v] = "none" => StampOf[v] # StampOf[t]

RanOnce == \A t, u \in started \intersect Done : StampOf[t] = StampOf[u] => t = u

SharedInv == InTime /\ Entered /\ StampsStand /\ RanOnce
=============================================================================
