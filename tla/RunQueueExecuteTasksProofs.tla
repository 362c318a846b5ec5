--------------------- MODULE RunQueueExecuteTasksProofs ---------------------
(***************************************************************************)
(* The safety of the task queue for every set of tasks, every dependency   *)
(* relation, every assignment of stamps and any number of threads.         *)
(***************************************************************************)
EXTENDS RunQueueExecuteTasks, FiniteSetTheorems, TLAPS

-----------------------------------------------------------------------------
(* The initial state *)

LEMMA InitIInv == Init => IInv
<1> SUFFICES ASSUME Init PROVE IInv
  OBVIOUS
<1> USE TaskAssumption, ExecuteAssumption DEF Init, ExecuteInit, StampInit
<1>1. TypeOK
  <2>0. stats \in RunQueueStats
    BY DEF RunQueueStats
  <2>1. ExecuteTypeOK
    BY <2>0 DEF ExecuteTypeOK, States
  <2>2. mtime \in [StampFile -> Nat] /\ mtime_setscene \in [StampFile -> Nat]
    <3>1. 0..OldStamps \subseteq Nat
      BY DEF StampTypeOK
    <3>2. QED
      BY <3>1
  <2>3. QED
    BY <2>1, <2>2 DEF TypeOK, StampTypeOK
<1>2. Partition /\ StampExclusion
  BY DEF Partition, StampExclusion
<1>3. Buildability
  BY DEF Buildability
<1>4. Announced /\ StatsAgree /\ ThreadLimit
  BY FS_EmptySet DEF Announced, StatsAgree, ThreadLimit
<1>5. QED
  BY <1>1, <1>2, <1>3, <1>4 DEF IInv

-----------------------------------------------------------------------------
(* The statistics *)

\* Setting one counter keeps a record of statistics one.
LEMMA StatsField ==
  ASSUME NEW s \in RunQueueStats, NEW v \in Int
  PROVE  /\ [s EXCEPT !.active = v] \in RunQueueStats
         /\ [s EXCEPT !.completed = v] \in RunQueueStats
         /\ [s EXCEPT !.skipped = v] \in RunQueueStats
         /\ [s EXCEPT !.failed = v] \in RunQueueStats
BY DEF RunQueueStats

\* What each method of RunQueueStats returns.
LEMMA StatsMethods ==
  ASSUME NEW s \in RunQueueStats
  PROVE  /\ taskActive(s) \in RunQueueStats
         /\ taskCompleted(s) \in RunQueueStats
         /\ taskSkipped(s) \in RunQueueStats
         /\ taskFailed(s) \in RunQueueStats
<1>1. taskActive(s) \in RunQueueStats
  BY DEF RunQueueStats, taskActive
<1>2. taskCompleted(s) \in RunQueueStats
  <2>1. s.active - 1 \in Int /\ s.completed + 1 \in Int
    BY DEF RunQueueStats
  <2>2. [[s EXCEPT !.active = s.active - 1] EXCEPT !.completed = s.completed + 1]
          \in RunQueueStats
    BY <2>1, StatsField
  <2>3. taskCompleted(s) =
          [[s EXCEPT !.active = s.active - 1] EXCEPT !.completed = s.completed + 1]
    BY DEF RunQueueStats, taskCompleted
  <2>4. QED
    BY <2>2, <2>3
<1>3. taskSkipped(s) \in RunQueueStats
  <2>1. s.active + 1 \in Int /\ s.skipped + 1 \in Int
    BY DEF RunQueueStats
  <2>2. [[s EXCEPT !.active = s.active + 1] EXCEPT !.skipped = s.skipped + 1]
          \in RunQueueStats
    BY <2>1, StatsField
  <2>3. taskSkipped(s) =
          [[s EXCEPT !.active = s.active + 1] EXCEPT !.skipped = s.skipped + 1]
    BY DEF RunQueueStats, taskSkipped
  <2>4. QED
    BY <2>2, <2>3
<1>4. taskFailed(s) \in RunQueueStats
  <2>1. s.active - 1 \in Int /\ s.failed + 1 \in Int
    BY DEF RunQueueStats
  <2>2. [[s EXCEPT !.active = s.active - 1] EXCEPT !.failed = s.failed + 1]
          \in RunQueueStats
    BY <2>1, StatsField
  <2>3. taskFailed(s) =
          [[s EXCEPT !.active = s.active - 1] EXCEPT !.failed = s.failed + 1]
    BY DEF RunQueueStats, taskFailed
  <2>4. QED
    BY <2>2, <2>3
<1>5. QED
  BY <1>1, <1>2, <1>3, <1>4

-----------------------------------------------------------------------------
(* Types *)

\* A step that leaves the queue alone keeps its types.
LEMMA QueueUnchanged ==
  ASSUME ExecuteTypeOK, UNCHANGED queueVars, state' \in States
  PROVE  ExecuteTypeOK'
BY DEF ExecuteTypeOK, queueVars

\* Writing a stamp keeps the types of the stamps.
LEMMA MakeStampType ==
  ASSUME StampTypeOK, NEW t \in Task, make_stamp(t)
  PROVE  StampTypeOK'
<1>1. PICK now \in {clock, clock + 1} :
        /\ clock' = now
        /\ mtime' = [mtime EXCEPT ![StampOf[t]] = now]
        /\ mtime_setscene' = [mtime_setscene EXCEPT ![StampOf[t]] = 0]
  BY DEF make_stamp
<1>2. now \in Nat
  BY DEF StampTypeOK
<1>3. QED
  BY <1>1, <1>2 DEF StampTypeOK

\* So does a step that writes none.
LEMMA StampsUnchanged ==
  ASSUME StampTypeOK, UNCHANGED stampVars
  PROVE  StampTypeOK'
BY DEF StampTypeOK, stampVars

\* Completing a task adds tasks only.
LEMMA CompleteOutrightType ==
  ASSUME NEW t \in Task, NEW running \in SUBSET Task,
         NEW buildable \in SUBSET Task, runq_complete \subseteq Task,
         task_completeoutright(t, running, buildable)
  PROVE  runq_complete' \subseteq Task /\ runq_buildable' \subseteq Task
BY DEF task_completeoutright, RevDeps

LEMMA ExecuteTaskType ==
  ASSUME TypeOK, NEW t \in Task, ExecuteTask(t)
  PROVE  TypeOK'
<1> USE DEF TypeOK
<1>0. t \in Task /\ runq_running \union {t} \subseteq Task
      /\ runq_buildable \union {t} \subseteq Task
  BY DEF ExecuteTypeOK
<1>1. CASE ExecuteSkip(t)
  <2>1. runq_running' \subseteq Task /\ runq_complete' \subseteq Task
        /\ runq_buildable' \subseteq Task
    BY <1>0, <1>1, CompleteOutrightType
    DEF ExecuteSkip, task_skip, ExecuteTypeOK
  <2>a. stats' \in RunQueueStats
    BY <1>1, StatsMethods DEF ExecuteSkip, task_skip, ExecuteTypeOK
  <2>2. ExecuteTypeOK'
    BY <1>1, <2>1, <2>a DEF ExecuteSkip, task_skip, ExecuteTypeOK
  <2>3. StampTypeOK'
    BY <1>1, StampsUnchanged DEF ExecuteSkip
  <2>4. QED
    BY <2>2, <2>3 DEF ExecuteTask
<1>2. CASE ExecuteNoExec(t)
  <2>1. runq_running' \subseteq Task /\ runq_complete' \subseteq Task
        /\ runq_buildable' \subseteq Task
    BY <1>0, <1>2, CompleteOutrightType DEF ExecuteNoExec, ExecuteTypeOK
  <2>a. stats' \in RunQueueStats
    BY <1>2, StatsMethods DEF ExecuteNoExec, ExecuteTypeOK
  <2>2. ExecuteTypeOK'
    BY <1>2, <2>1, <2>a DEF ExecuteNoExec, ExecuteTypeOK
  <2>3. StampTypeOK'
    BY <1>2, MakeStampType DEF ExecuteNoExec
  <2>4. QED
    BY <2>2, <2>3 DEF ExecuteTask
<1>3. CASE ExecuteLaunch(t)
  <2>a. stats' \in RunQueueStats
    BY <1>3, StatsMethods DEF ExecuteLaunch, build_taskdepdata, ExecuteTypeOK
  <2>1. ExecuteTypeOK'
    BY <1>3, <2>a DEF ExecuteLaunch, build_taskdepdata, ExecuteTypeOK
  <2>2. StampTypeOK'
    BY <1>3, StampsUnchanged DEF ExecuteLaunch, build_taskdepdata
  <2>3. QED
    BY <2>1, <2>2 DEF ExecuteTask
<1>4. CASE ExecuteSpawnFails(t)
  <2>a. stats' \in RunQueueStats
    BY <1>4, StatsMethods DEF ExecuteSpawnFails, build_taskdepdata, ExecuteTypeOK
  <2>1. ExecuteTypeOK'
    BY <1>4, <2>a DEF ExecuteSpawnFails, build_taskdepdata, ExecuteTypeOK, States
  <2>2. StampTypeOK'
    BY <1>4, StampsUnchanged DEF ExecuteSpawnFails, build_taskdepdata
  <2>3. QED
    BY <2>1, <2>2 DEF ExecuteTask
<1>5. QED
  BY <1>1, <1>2, <1>3, <1>4 DEF ExecuteTask

LEMMA ProcessWaitpidType ==
  ASSUME TypeOK, NEW t \in Task, ProcessWaitpid(t)
  PROVE  TypeOK'
<1> USE DEF TypeOK
<1>1. StampTypeOK'
  BY StampsUnchanged DEF ProcessWaitpid
<1>2. ExecuteTypeOK'
  <2>1. CASE exitcode[t] = "ok"
    <3>1. task_complete(t) /\ UNCHANGED <<depends, started, fakeworker>>
          /\ build_stamps' = build_stamps \ {t}
      BY <2>1 DEF ProcessWaitpid, runqueue_process_waitpid
    <3>2. runq_complete' \subseteq Task /\ runq_buildable' \subseteq Task
      BY <3>1, CompleteOutrightType DEF task_complete, ExecuteTypeOK
    <3>3. stats' \in RunQueueStats
      BY <3>1, StatsMethods DEF task_complete, ExecuteTypeOK
    <3>4. QED
      BY <3>1, <3>2, <3>3 DEF task_complete, ExecuteTypeOK
  <2>2. CASE exitcode[t] # "ok"
    <3>1. task_fail(t) /\ UNCHANGED <<depends, started, fakeworker>>
          /\ build_stamps' = build_stamps \ {t}
      BY <2>2 DEF ProcessWaitpid, runqueue_process_waitpid
    <3>2. stats' \in RunQueueStats
      BY <3>1, StatsMethods DEF task_fail, ExecuteTypeOK
    <3>3. QED
      BY <3>1, <3>2 DEF task_fail, ExecuteTypeOK, States
  <2>3. QED
    BY <2>1, <2>2
<1>3. QED
  BY <1>1, <1>2 DEF ProcessWaitpid

LEMMA NextType == TypeOK /\ [Next]_vars => TypeOK'
<1> SUFFICES ASSUME TypeOK, [Next]_vars PROVE TypeOK'
  OBVIOUS
<1>1. CASE ExecuteBegin \/ ExecuteWait
  <2>1. UNCHANGED <<state, queueVars, stampVars, exitcode>>
        /\ pc' \in {"idle", "execute", "enforce", "raised"} /\ whitelist_checked' \in BOOLEAN
    BY <1>1 DEF ExecuteBegin, ExecuteWait, TypeOK
  <2>2. QED
    BY <2>1, QueueUnchanged, StampsUnchanged DEF TypeOK, ExecuteTypeOK
<1>2. CASE ExecuteEnd \/ Finish \/ FinishNow
  <2>1. UNCHANGED <<queueVars, stampVars, exitcode, whitelist_checked>>
        /\ pc' \in {"idle", "execute", "enforce", "raised"} /\ state' \in States
    BY <1>2 DEF ExecuteEnd, Finish, FinishNow, finish, finish_now, States, TypeOK,
                ExecuteFinished, ExecuteAborted, EnforceDone
  <2>2. QED
    BY <2>1, QueueUnchanged, StampsUnchanged DEF TypeOK
<1>3. ASSUME NEW t \in Task, ExecuteTask(t) PROVE TypeOK'
  BY <1>3, ExecuteTaskType
<1>4. ASSUME NEW t \in Task, Enforce(t) PROVE TypeOK'
  <2>1. runq_running' \subseteq Task /\ runq_complete' \subseteq Task
        /\ runq_buildable' \subseteq Task
    BY <1>4, CompleteOutrightType
    DEF Enforce, EnforceSkip, task_skip, ExecuteTypeOK, TypeOK
  <2>a. stats' \in RunQueueStats
    BY <1>4, StatsMethods DEF Enforce, EnforceSkip, task_skip, ExecuteTypeOK, TypeOK
  <2>2. ExecuteTypeOK'
    BY <1>4, <2>1, <2>a DEF Enforce, EnforceSkip, task_skip, ExecuteTypeOK, TypeOK
  <2>3. StampTypeOK'
    BY <1>4, StampsUnchanged DEF Enforce, EnforceSkip, TypeOK
  <2>4. QED
    BY <1>4, <2>2, <2>3 DEF Enforce, TypeOK
<1>5. ASSUME NEW t \in Task, ProcessWaitpid(t) PROVE TypeOK'
  BY <1>5, ProcessWaitpidType
<1>6. ASSUME NEW t \in Task, NEW code \in {"ok", "failed"}, WorkerEnds(t, code)
      PROVE TypeOK'
  <2>1. StampTypeOK'
    BY <1>6, StampsUnchanged, MakeStampType DEF WorkerEnds, TypeOK
  <2>2. ExecuteTypeOK'
    BY <1>6, QueueUnchanged DEF WorkerEnds, TypeOK, ExecuteTypeOK
  <2>3. QED
    BY <1>6, <2>1, <2>2 DEF WorkerEnds, TypeOK
<1>7. CASE ExecuteException
  <2>1. CASE \E t \in Task : ExecuteWriteFails(t)
    <3>1. ExecuteTypeOK'
      BY <2>1 DEF ExecuteWriteFails, build_taskdepdata, ExecuteTypeOK, TypeOK
    <3>2. StampTypeOK'
      BY <2>1, StampsUnchanged DEF ExecuteWriteFails, build_taskdepdata, TypeOK
    <3>3. QED
      BY <1>7, <3>1, <3>2 DEF ExecuteException, TypeOK
  <2>2. CASE ExecuteRaises
    BY <1>7, <2>2, QueueUnchanged, StampsUnchanged
    DEF ExecuteException, ExecuteRaises, TypeOK, ExecuteTypeOK
  <2>3. QED
    BY <1>7, <2>1, <2>2 DEF ExecuteException
<1>8. CASE UNCHANGED vars
  BY <1>8, QueueUnchanged, StampsUnchanged DEF vars, TypeOK, ExecuteTypeOK
<1>9. QED
  BY <1>1, <1>2, <1>3, <1>4, <1>5, <1>6, <1>7, <1>8 DEF Next

\* Every variable keeps its type (runqueue.py gives none: its sets and
\* counters are filled by callbacks).
THEOREM TypeCorrect == Spec => []TypeOK
<1>1. Init => TypeOK
  BY InitIInv DEF IInv
<1>2. QED
  BY <1>1, NextType, PTL DEF Spec

-----------------------------------------------------------------------------
(* What the methods do to the inductive invariant *)

QueueSafe == Partition /\ Buildability /\ Announced /\ StampExclusion
             /\ StatsAgree /\ ThreadLimit

\* The fields of the statistics after each method.
LEMMA StatsFields ==
  ASSUME NEW s \in RunQueueStats
  PROVE  /\ s.active \in Int /\ s.completed \in Int
         /\ s.skipped \in Int /\ s.failed \in Int
         /\ taskActive(s).active = s.active + 1
         /\ taskActive(s).completed = s.completed
         /\ taskActive(s).skipped = s.skipped
         /\ taskActive(s).failed = s.failed
         /\ taskCompleted(s).active = s.active - 1
         /\ taskCompleted(s).completed = s.completed + 1
         /\ taskCompleted(s).skipped = s.skipped
         /\ taskCompleted(s).failed = s.failed
         /\ taskSkipped(s).active = s.active + 1
         /\ taskSkipped(s).completed = s.completed
         /\ taskSkipped(s).skipped = s.skipped + 1
         /\ taskSkipped(s).failed = s.failed
         /\ taskFailed(s).active = s.active - 1
         /\ taskFailed(s).completed = s.completed
         /\ taskFailed(s).skipped = s.skipped
         /\ taskFailed(s).failed = s.failed + 1
BY DEF RunQueueStats, taskActive, taskCompleted, taskSkipped, taskFailed

\* The sets that are counted are finite.
LEMMA Finite ==
  ASSUME ExecuteTypeOK
  PROVE  /\ IsFiniteSet(build_stamps) /\ Cardinality(build_stamps) \in Nat
         /\ IsFiniteSet(failed_tids) /\ Cardinality(failed_tids) \in Nat
         /\ IsFiniteSet(runq_complete) /\ Cardinality(runq_complete) \in Nat
         /\ IsFiniteSet(runq_complete \ started)
         /\ Cardinality(runq_complete \ started) \in Nat
<1>1. /\ build_stamps \in SUBSET Task /\ failed_tids \in SUBSET Task
      /\ runq_complete \in SUBSET Task /\ runq_complete \ started \in SUBSET Task
  BY DEF ExecuteTypeOK
<1>2. QED
  BY <1>1, FS_Subset, FS_CardinalityType, ExecuteAssumption

\* No wakeup is lost when a task completes, although the loop over the reverse
\* dependencies passes over those that are running or buildable already.
LEMMA CompletingKeepsBuildability ==
  ASSUME ExecuteTypeOK, Buildability, NEW t \in Task,
         NEW running, running \subseteq runq_buildable,
         runq_running' = running, depends' = depends,
         task_completeoutright(t, running, runq_buildable)
  PROVE  Buildability'
<1>1. /\ runq_complete' = runq_complete \union {t}
      /\ runq_buildable' = runq_buildable \union
           {r \in RevDeps(t) \ running : depends[r] \subseteq runq_complete'}
  BY DEF task_completeoutright
<1>2. ASSUME NEW r \in Task, r \in runq_buildable'
      PROVE  Depends[r] \subseteq runq_complete'
  BY <1>1, <1>2 DEF Buildability
<1>3. ASSUME NEW r \in Task, Depends[r] \subseteq runq_complete'
      PROVE  r \in runq_buildable'
  <2>1. CASE r \in runq_buildable
    BY <1>1, <2>1
  <2>2. CASE r \notin runq_buildable
    <3>1. t \in Depends[r] /\ depends[r] = Depends[r] /\ r \notin running
      BY <1>1, <1>3, <2>2 DEF Buildability
    <3>2. QED
      BY <1>1, <1>3, <3>1 DEF RevDeps
  <2>3. QED
    BY <2>1, <2>2
<1>4. QED
  BY <1>1, <1>2, <1>3 DEF Buildability

\* What the scheduler returns is buildable, not running, and its stamp is free.
LEMMA SchedNext ==
  ASSUME IInv, NEW t \in Task, sched_next(t), pc \in {"execute", "enforce"}
  PROVE  /\ t \in runq_buildable /\ t \notin runq_running
         /\ t \notin build_stamps /\ t \notin runq_complete
         /\ t \notin failed_tids /\ t \notin started
         /\ \A u \in build_stamps : StampNoExtra[u] # StampNoExtra[t]
         /\ Cardinality(build_stamps) < NumberTasks
<1>1. t \in runq_buildable /\ t \notin runq_running
      /\ \A u \in build_stamps : StampNoExtra[u] # StampNoExtra[t]
  BY DEF sched_next, Ready, Candidates, StampsInUse
<1>2. started \subseteq runq_running /\ stats.failed = Cardinality(failed_tids)
  BY DEF IInv, Announced, CanStart
<1>3. stats.active = Cardinality(build_stamps)
  <2>1. stats.failed \in Int /\ stats.active \in Int
        /\ Cardinality(build_stamps) \in Nat /\ Cardinality(failed_tids) \in Nat
    BY StatsFields, Finite DEF IInv, TypeOK, ExecuteTypeOK
  <2>2. QED
    BY <1>2, <2>1 DEF IInv, StatsAgree
<1>4. QED
  BY <1>1, <1>2, <1>3 DEF sched_next, HasFreeSlot, IInv, Partition

LEMMA SkipKeeps ==
  ASSUME IInv, NEW t \in Task, sched_next(t), pc \in {"execute", "enforce"}, task_skip(t)
  PROVE  QueueSafe'
<1>1. /\ t \in runq_buildable /\ t \notin runq_running /\ t \notin build_stamps
      /\ t \notin runq_complete /\ t \notin failed_tids /\ t \notin started
  BY SchedNext
<1>2. /\ runq_running' = runq_running \union {t}
      /\ runq_complete' = runq_complete \union {t}
      /\ runq_buildable \union {t} = runq_buildable
      /\ UNCHANGED <<build_stamps, failed_tids, depends, started>>
      /\ task_completeoutright(t, runq_running', runq_buildable)
  BY <1>1 DEF task_skip, task_completeoutright
<1>3. Partition'
  BY <1>1, <1>2 DEF IInv, Partition
<1>4. Buildability'
  <2>1. runq_running' \subseteq runq_buildable
    BY <1>1, <1>2 DEF IInv, Buildability
  <2>2. QED
    BY <1>2, <2>1, CompletingKeepsBuildability DEF IInv, TypeOK
<1>5. StampExclusion' /\ ThreadLimit'
  BY <1>2 DEF IInv, StampExclusion, ThreadLimit
<1>6. /\ stats'.active = stats.active /\ stats'.failed = stats.failed
      /\ stats'.completed = stats.completed + 1
      /\ stats'.skipped = stats.skipped + 1
  <2>1. stats \in RunQueueStats
    BY DEF IInv, TypeOK, ExecuteTypeOK
  <2>2. taskCompleted(stats) \in RunQueueStats
    BY <2>1, StatsMethods
  <2>3. stats' = taskSkipped(taskCompleted(stats))
    BY DEF task_skip
  <2>4. stats'.active = (stats.active - 1) + 1
    BY <2>1, <2>2, <2>3, StatsFields
  <2>5. QED
    BY <2>1, <2>2, <2>3, <2>4, StatsFields
<1>7. Announced'
  BY <1>2, <1>6 DEF IInv, Announced, CanStart
<1>8. StatsAgree'
  <2>1. Cardinality(runq_complete') = Cardinality(runq_complete) + 1
    BY <1>1, <1>2, Finite, FS_AddElement DEF IInv, TypeOK
  <2>2. runq_complete' \ started' = (runq_complete \ started) \union {t}
    BY <1>1, <1>2
  <2>3. Cardinality(runq_complete' \ started') = Cardinality(runq_complete \ started) + 1
    BY <1>1, <2>2, Finite, FS_AddElement DEF IInv, TypeOK
  <2>4. QED
    BY <1>2, <1>6, <2>1, <2>3 DEF IInv, StatsAgree
<1>9. QED
  BY <1>3, <1>4, <1>5, <1>7, <1>8 DEF QueueSafe

LEMMA NoExecKeeps ==
  ASSUME IInv, NEW t \in Task, pc \in {"execute", "enforce"}, ExecuteNoExec(t)
  PROVE  QueueSafe'
<1>1. /\ t \in runq_buildable /\ t \notin runq_running /\ t \notin build_stamps
      /\ t \notin runq_complete /\ t \notin failed_tids /\ t \notin started
  BY SchedNext DEF ExecuteNoExec
<1>2. /\ runq_running' = runq_running \union {t}
      /\ runq_complete' = runq_complete \union {t}
      /\ started' = started \union {t}
      /\ UNCHANGED <<build_stamps, failed_tids, depends>>
      /\ task_completeoutright(t, runq_running', runq_buildable)
  BY DEF ExecuteNoExec, task_completeoutright
<1>3. Partition'
  BY <1>1, <1>2 DEF IInv, Partition
<1>4. Buildability'
  <2>1. runq_running' \subseteq runq_buildable
    BY <1>1, <1>2 DEF IInv, Buildability
  <2>2. QED
    BY <1>2, <2>1, CompletingKeepsBuildability DEF IInv, TypeOK
<1>5. StampExclusion' /\ ThreadLimit'
  BY <1>2 DEF IInv, StampExclusion, ThreadLimit
<1>6. /\ stats'.active = stats.active /\ stats'.failed = stats.failed
      /\ stats'.completed = stats.completed + 1
      /\ stats'.skipped = stats.skipped
  <2>1. stats \in RunQueueStats
    BY DEF IInv, TypeOK, ExecuteTypeOK
  <2>2. taskActive(stats) \in RunQueueStats
    BY <2>1, StatsMethods
  <2>3. stats' = taskCompleted(taskActive(stats))
    BY DEF ExecuteNoExec
  <2>4. stats'.active = (stats.active + 1) - 1
    BY <2>1, <2>2, <2>3, StatsFields
  <2>5. QED
    BY <2>1, <2>2, <2>3, <2>4, StatsFields
<1>7. Announced'
  BY <1>2, <1>6 DEF IInv, Announced, CanStart
<1>8. StatsAgree'
  <2>1. Cardinality(runq_complete') = Cardinality(runq_complete) + 1
    BY <1>1, <1>2, Finite, FS_AddElement DEF IInv, TypeOK
  <2>2. runq_complete' \ started' = runq_complete \ started
    BY <1>1, <1>2
  <2>3. QED
    BY <1>2, <1>6, <2>1, <2>2 DEF IInv, StatsAgree
<1>9. QED
  BY <1>3, <1>4, <1>5, <1>7, <1>8 DEF QueueSafe

LEMMA LaunchKeeps ==
  ASSUME IInv, NEW t \in Task, pc \in {"execute", "enforce"}, ExecuteLaunch(t)
  PROVE  QueueSafe'
<1>1. /\ t \in runq_buildable /\ t \notin runq_running /\ t \notin build_stamps
      /\ t \notin runq_complete /\ t \notin failed_tids /\ t \notin started
      /\ \A u \in build_stamps : StampNoExtra[u] # StampNoExtra[t]
      /\ Cardinality(build_stamps) < NumberTasks
  BY SchedNext DEF ExecuteLaunch, build_taskdepdata
<1>2. /\ runq_running' = runq_running \union {t}
      /\ build_stamps' = build_stamps \union {t}
      /\ started' = started \union {t}
      /\ depends' = [depends EXCEPT ![t] = @ \union {t}]
      /\ UNCHANGED <<runq_buildable, runq_complete, failed_tids>>
  BY DEF ExecuteLaunch, build_taskdepdata
<1>3. Partition'
  BY <1>1, <1>2 DEF IInv, Partition
<1>4. Buildability'
  <2>1. runq_running' \subseteq runq_buildable'
    BY <1>1, <1>2 DEF IInv, Buildability
  <2>2. \A r \in Task \ runq_buildable' : depends'[r] = Depends[r]
    BY <1>1, <1>2 DEF IInv, Buildability, TypeOK, ExecuteTypeOK
  <2>3. QED
    BY <1>2, <2>1, <2>2 DEF IInv, Buildability
<1>5. StampExclusion'
  BY <1>1, <1>2 DEF IInv, StampExclusion
<1>6. Cardinality(build_stamps') = Cardinality(build_stamps) + 1
  BY <1>1, <1>2, Finite, FS_AddElement DEF IInv, TypeOK
<1>7. ThreadLimit'
  BY <1>1, <1>6, Finite, ExecuteAssumption DEF IInv, TypeOK, ThreadLimit
<1>8. /\ stats'.active = stats.active + 1 /\ stats'.failed = stats.failed
      /\ stats'.completed = stats.completed /\ stats'.skipped = stats.skipped
      /\ stats.active \in Int /\ stats.failed \in Int
  BY StatsFields DEF ExecuteLaunch, build_taskdepdata, IInv, TypeOK, ExecuteTypeOK
<1>9. Announced'
  BY <1>2, <1>8 DEF IInv, Announced, CanStart
<1>10. StatsAgree'
  <2>1. runq_complete' \ started' = runq_complete \ started
    BY <1>1, <1>2
  <2>2. /\ Cardinality(build_stamps) \in Nat /\ Cardinality(failed_tids) \in Nat
        /\ stats.active = Cardinality(build_stamps)
                            - (stats.failed - Cardinality(failed_tids))
    BY Finite DEF IInv, StatsAgree, TypeOK
  <2>3. stats'.active = Cardinality(build_stamps')
                          - (stats'.failed - Cardinality(failed_tids'))
    BY <1>2, <1>6, <1>8, <2>2
  <2>4. QED
    BY <1>2, <1>8, <2>1, <2>3 DEF IInv, StatsAgree
<1>11. QED
  BY <1>3, <1>4, <1>5, <1>7, <1>9, <1>10 DEF QueueSafe

\* A task that could not be handed to a worker ends execute(): nothing can be
\* started after it, so the task it leaves out of runq_running is never due.
LEMMA NotHandedOverKeeps ==
  ASSUME IInv, NEW t \in Task, pc = "execute",
         \/ ExecuteSpawnFails(t) /\ pc' = "idle"
         \/ ExecuteWriteFails(t) /\ pc' = "raised"
  PROVE  QueueSafe'
<1>1. /\ t \in runq_buildable /\ t \notin runq_complete
  BY SchedNext DEF ExecuteSpawnFails, ExecuteWriteFails, build_taskdepdata
<1>2. /\ started' = started \union {t}
      /\ depends' = [depends EXCEPT ![t] = @ \union {t}]
      /\ UNCHANGED <<runq_buildable, runq_running, runq_complete, build_stamps,
                     failed_tids>>
      /\ ~CanStart'
  BY DEF ExecuteSpawnFails, ExecuteWriteFails, build_taskdepdata, CanStart
<1>3. Partition' /\ StampExclusion' /\ ThreadLimit'
  BY <1>2 DEF IInv, Partition, StampExclusion, ThreadLimit
<1>4. Buildability'
  BY <1>1, <1>2 DEF IInv, Buildability, TypeOK, ExecuteTypeOK
<1>5. /\ stats.active \in Int /\ stats.failed \in Int
      /\ stats'.completed = stats.completed /\ stats'.skipped = stats.skipped
      /\ \/ stats'.active = stats.active - 1 /\ stats'.failed = stats.failed + 1
         \/ stats'.active = stats.active /\ stats'.failed = stats.failed
  BY StatsFields
  DEF ExecuteSpawnFails, ExecuteWriteFails, build_taskdepdata, IInv, TypeOK, ExecuteTypeOK
<1>6. Announced'
  BY <1>2, <1>5, Finite DEF IInv, Announced, TypeOK
<1>7. StatsAgree'
  <2>1. runq_complete' \ started' = runq_complete \ started
    BY <1>1, <1>2
  <2>2. /\ Cardinality(build_stamps) \in Nat /\ Cardinality(failed_tids) \in Nat
        /\ stats.active = Cardinality(build_stamps)
                            - (stats.failed - Cardinality(failed_tids))
    BY Finite DEF IInv, StatsAgree, TypeOK
  <2>3. stats'.active = Cardinality(build_stamps')
                          - (stats'.failed - Cardinality(failed_tids'))
    BY <1>2, <1>5, <2>2
  <2>4. QED
    BY <1>2, <1>5, <2>1, <2>3 DEF IInv, StatsAgree
<1>8. QED
  BY <1>3, <1>4, <1>6, <1>7 DEF QueueSafe

LEMMA WaitpidKeeps ==
  ASSUME IInv, NEW t \in Task, ProcessWaitpid(t)
  PROVE  QueueSafe'
<1>1. /\ t \in build_stamps /\ t \in runq_running /\ t \in started
      /\ t \notin runq_complete /\ t \notin failed_tids
      /\ build_stamps' = build_stamps \ {t}
      /\ UNCHANGED <<runq_running, depends, started, pc>>
  BY DEF ProcessWaitpid, runqueue_process_waitpid, task_complete, task_fail,
         IInv, Partition, Announced
<1>2. Cardinality(build_stamps') = Cardinality(build_stamps) - 1
  BY <1>1, Finite, FS_RemoveElement DEF IInv, TypeOK
<1>3. StampExclusion' /\ ThreadLimit'
  BY <1>1, <1>2, Finite, ExecuteAssumption
  DEF IInv, StampExclusion, ThreadLimit, TypeOK
<1>4. CASE task_complete(t)
  <2>1. /\ runq_complete' = runq_complete \union {t}
        /\ UNCHANGED <<failed_tids, state>>
        /\ task_completeoutright(t, runq_running, runq_buildable)
    BY <1>4 DEF task_complete, task_completeoutright
  <2>2. Partition'
    BY <1>1, <2>1 DEF IInv, Partition
  <2>3. Buildability'
    BY <1>1, <2>1, CompletingKeepsBuildability DEF IInv, Buildability, TypeOK
  <2>4. /\ stats'.active = stats.active - 1 /\ stats'.failed = stats.failed
        /\ stats'.completed = stats.completed + 1
        /\ stats'.skipped = stats.skipped
        /\ stats.active \in Int /\ stats.failed \in Int
    BY <1>4, StatsFields DEF task_complete, IInv, TypeOK, ExecuteTypeOK
  <2>5. Announced'
    BY <1>1, <2>1, <2>4 DEF IInv, Announced, CanStart
  <2>6. Cardinality(runq_complete') = Cardinality(runq_complete) + 1
    BY <1>1, <2>1, Finite, FS_AddElement DEF IInv, TypeOK
  <2>7. runq_complete' \ started' = runq_complete \ started
    BY <1>1, <2>1
  <2>8. StatsAgree'
    <3>1. /\ Cardinality(build_stamps) \in Nat /\ Cardinality(failed_tids) \in Nat
          /\ stats.active = Cardinality(build_stamps)
                              - (stats.failed - Cardinality(failed_tids))
      BY Finite DEF IInv, StatsAgree, TypeOK
    <3>2. stats'.active = Cardinality(build_stamps')
                            - (stats'.failed - Cardinality(failed_tids'))
      BY <1>2, <2>1, <2>4, <3>1
    <3>3. QED
      BY <2>4, <2>6, <2>7, <3>2 DEF IInv, StatsAgree
  <2>9. QED
    BY <1>3, <2>2, <2>3, <2>5, <2>8 DEF QueueSafe
<1>5. CASE task_fail(t)
  <2>1. /\ failed_tids' = failed_tids \union {t}
        /\ UNCHANGED <<runq_buildable, runq_complete>>
        /\ state' = "CleanUp" \/ state' = state
    BY <1>5 DEF task_fail
  <2>2. Partition'
    BY <1>1, <2>1 DEF IInv, Partition
  <2>3. Buildability'
    BY <1>1, <2>1 DEF IInv, Buildability
  <2>4. /\ stats'.active = stats.active - 1 /\ stats'.failed = stats.failed + 1
        /\ stats'.completed = stats.completed
        /\ stats'.skipped = stats.skipped
        /\ stats.active \in Int /\ stats.failed \in Int
    BY <1>5, StatsFields DEF task_fail, IInv, TypeOK, ExecuteTypeOK
  <2>5. Cardinality(failed_tids') = Cardinality(failed_tids) + 1
    BY <1>1, <2>1, Finite, FS_AddElement DEF IInv, TypeOK
  <2>6. Announced'
    BY <1>1, <2>1, <2>4, <2>5, Finite DEF IInv, Announced, CanStart, TypeOK
  <2>7. StatsAgree'
    <3>1. /\ Cardinality(build_stamps) \in Nat /\ Cardinality(failed_tids) \in Nat
          /\ stats.active = Cardinality(build_stamps)
                              - (stats.failed - Cardinality(failed_tids))
      BY Finite DEF IInv, StatsAgree, TypeOK
    <3>2. stats'.active = Cardinality(build_stamps')
                            - (stats'.failed - Cardinality(failed_tids'))
      BY <1>2, <2>4, <2>5, <3>1
    <3>3. QED
      BY <1>1, <2>1, <2>4, <3>2 DEF IInv, StatsAgree
  <2>8. QED
    BY <1>3, <2>2, <2>3, <2>6, <2>7 DEF QueueSafe
<1>6. QED
  BY <1>4, <1>5 DEF ProcessWaitpid, runqueue_process_waitpid

\* A step that leaves the queue alone; execute() may start, never resume.
LEMMA IdleKeeps ==
  ASSUME IInv, UNCHANGED queueVars,
         CanStart' => CanStart
  PROVE  QueueSafe'
<1>1. Partition' /\ Buildability' /\ StampExclusion' /\ StatsAgree' /\ ThreadLimit'
  BY DEF IInv, queueVars, Partition, Buildability, StampExclusion, StatsAgree,
         ThreadLimit
<1>2. Announced'
  BY DEF IInv, queueVars, Announced
<1>3. QED
  BY <1>1, <1>2 DEF QueueSafe

-----------------------------------------------------------------------------
(* The invariant holds *)

LEMMA NextIInv == IInv /\ [Next]_vars => IInv'
<1> SUFFICES ASSUME IInv, [Next]_vars PROVE QueueSafe'
  BY NextType DEF IInv, QueueSafe
<1>1. CASE ExecuteBegin \/ ExecuteWait
  BY <1>1, IdleKeeps DEF ExecuteBegin, ExecuteWait, CanStart
<1>2. CASE ExecuteEnd \/ Finish \/ FinishNow
  <2>1. UNCHANGED queueVars /\ (CanStart' => CanStart)
    BY <1>2 DEF ExecuteEnd, Finish, FinishNow, finish, finish_now, CanStart,
                ExecuteFinished, ExecuteAborted, EnforceDone
  <2>2. QED
    BY <2>1, IdleKeeps
<1>3. ASSUME NEW t \in Task, ExecuteTask(t) PROVE QueueSafe'
  <2>1. pc = "execute" /\ pc' = "idle"
    BY <1>3 DEF ExecuteTask
  <2>2. CASE ExecuteSkip(t)
    BY <2>1, <2>2, SkipKeeps DEF ExecuteSkip
  <2>3. CASE ExecuteNoExec(t)
    BY <2>1, <2>3, NoExecKeeps
  <2>4. CASE ExecuteLaunch(t)
    BY <2>1, <2>4, LaunchKeeps
  <2>5. CASE ExecuteSpawnFails(t)
    BY <2>1, <2>5, NotHandedOverKeeps
  <2>6. QED
    BY <1>3, <2>2, <2>3, <2>4, <2>5 DEF ExecuteTask
<1>4. ASSUME NEW t \in Task, Enforce(t) PROVE QueueSafe'
  BY <1>4, SkipKeeps DEF Enforce, EnforceSkip
<1>5. ASSUME NEW t \in Task, ProcessWaitpid(t) PROVE QueueSafe'
  BY <1>5, WaitpidKeeps
<1>6. ASSUME NEW t \in Task, NEW code \in {"ok", "failed"}, WorkerEnds(t, code)
      PROVE QueueSafe'
  BY <1>6, IdleKeeps DEF WorkerEnds, CanStart
<1>7. CASE ExecuteException
  <2>1. CASE \E t \in Task : ExecuteWriteFails(t) /\ pc = "execute"
    BY <1>7, <2>1, NotHandedOverKeeps DEF ExecuteException
  <2>2. CASE ExecuteRaises
    BY <1>7, <2>2, IdleKeeps DEF ExecuteException, ExecuteRaises, CanStart
  <2>3. QED
    BY <1>7, <2>1, <2>2 DEF ExecuteException
<1>8. CASE UNCHANGED vars
  BY <1>8, IdleKeeps DEF vars, CanStart
<1>9. QED
  BY <1>1, <1>2, <1>3, <1>4, <1>5, <1>6, <1>7, <1>8 DEF Next

LEMMA Invariance == Spec => []IInv
<1>1. Init => IInv
  BY InitIInv
<1>2. QED
  BY <1>1, NextIInv, PTL DEF Spec

\* No task runs before its dependencies are complete.
THEOREM DependencyOrderHolds == Spec => []DependencyOrder
<1>1. IInv => DependencyOrder
  BY DEF IInv, TypeOK, ExecuteTypeOK, Buildability, DependencyOrder
<1>2. QED
  BY <1>1, Invariance, PTL

\* BB_NUMBER_THREADS is never exceeded.
THEOREM ThreadLimitHolds == Spec => []ThreadLimit
<1>1. IInv => ThreadLimit
  BY DEF IInv
<1>2. QED
  BY <1>1, Invariance, PTL

\* Tasks with one stamp file never run side by side.
THEOREM StampExclusionHolds == Spec => []StampExclusion
<1>1. IInv => StampExclusion
  BY DEF IInv
<1>2. QED
  BY <1>1, Invariance, PTL

\* The counters of RunQueueStats are the cardinalities of the sets.
THEOREM StatsAgreeHolds == Spec => []StatsAgree
<1>1. IInv => StatsAgree
  BY DEF IInv
<1>2. QED
  BY <1>1, Invariance, PTL

\* No task whose dependencies are complete is left behind.
THEOREM NoLostTaskHolds == Spec => []NoLostTask
<1>1. IInv => NoLostTask
  BY DEF IInv, Buildability, NoLostTask
<1>2. QED
  BY <1>1, Invariance, PTL

-----------------------------------------------------------------------------
(* When the queue runs dry *)

\* With nothing active and nothing to schedule, every buildable task has run
\* and ended.
LEMMA Exhausted ==
  ASSUME IInv, QueueExhausted
  PROVE  /\ runq_running = runq_complete \union failed_tids
         /\ runq_buildable = runq_running
<1>1. /\ stats.failed = Cardinality(failed_tids)
      /\ stats.active = Cardinality(build_stamps)
                         - (stats.failed - Cardinality(failed_tids))
      /\ stats.failed \in Int /\ Cardinality(build_stamps) \in Nat
      /\ stats.active <= 0
  BY StatsFields, Finite
  DEF QueueExhausted, IInv, Announced, CanStart, StatsAgree, TypeOK, ExecuteTypeOK
<1>2. Cardinality(build_stamps) = 0 /\ stats.active = 0
  BY <1>1
<1>3. build_stamps = {}
  BY <1>2, Finite, FS_EmptySet DEF IInv, TypeOK
<1>4. runq_running = runq_complete \union failed_tids
  BY <1>3 DEF IInv, Partition
<1>5. Ready = {}
  BY <1>2, ExecuteAssumption DEF QueueExhausted, sched_none, HasFreeSlot
<1>6. runq_buildable \subseteq runq_running
  BY <1>3, <1>5 DEF Ready, StampsInUse, Candidates
<1>7. QED
  BY <1>4, <1>6 DEF IInv, Buildability

\* -k builds as much as possible before it stops.
THEOREM AsMuchAsPossibleHolds == Spec => []AsMuchAsPossible
<1>1. ASSUME IInv, QueueExhausted, NEW t \in Task \ (runq_complete \union failed_tids)
      PROVE  \E d \in Depends[t] : d \notin runq_complete
  <2>1. t \notin runq_buildable
    BY <1>1, Exhausted
  <2>2. QED
    BY <1>1, <2>1 DEF IInv, Buildability
<1>2. IInv => AsMuchAsPossible
  BY <1>1 DEF AsMuchAsPossible
<1>3. QED
  BY <1>2, Invariance, PTL

\* The checks at the end of execute() never report a task: without failures
\* the least task that is not complete would have been buildable.
THEOREM SanityChecksHold == Spec => []SanityChecksPass
<1>1. ASSUME IInv, QueueExhausted, failed_tids = {}
      PROVE  runq_buildable = Task /\ runq_running = Task /\ runq_complete = Task
  <2>1. runq_buildable = runq_complete /\ runq_running = runq_complete
    BY <1>1, Exhausted
  <2>2. Task \ runq_complete = {}
    <3>1. SUFFICES ASSUME Task \ runq_complete # {} PROVE FALSE
      OBVIOUS
    <3>2. PICK t \in Task \ runq_complete :
            Depends[t] \intersect (Task \ runq_complete) = {}
      BY <3>1, AcyclicAssumption
    <3>3. Depends[t] \subseteq runq_complete
      BY <3>2, TaskAssumption
    <3>4. QED
      BY <1>1, <2>1, <3>2, <3>3 DEF IInv, Buildability
  <2>3. QED
    BY <1>1, <2>1, <2>2 DEF IInv, TypeOK, ExecuteTypeOK
<1>2. IInv => SanityChecksPass
  BY <1>1 DEF SanityChecksPass
<1>3. QED
  BY <1>2, Invariance, PTL

-----------------------------------------------------------------------------
(* The task queue implements BuildOrder *)

\* A task is running, in the words of BuildOrder, while a worker has it.
LEMMA RunningAreBuildStamps ==
  ASSUME IInv
  PROVE  /\ Promise!RunningTasks = build_stamps
         /\ \A t \in Task : taskStatus[t] = "done" <=> t \in runq_complete
         /\ taskStatus = [t \in Task |-> taskStatus[t]]
BY DEF Promise!RunningTasks, taskStatus, IInv, Partition, TypeOK, ExecuteTypeOK

\* The status of one task changes and that of the others does not.
LEMMA StatusOfOne ==
  ASSUME NEW t \in Task, NEW st, taskStatus'[t] = st,
         \A u \in Task \ {t} : taskStatus'[u] = taskStatus[u]
  PROVE  taskStatus' = [taskStatus EXCEPT ![t] = st]
BY DEF taskStatus

LEMMA SkipIsSkip ==
  ASSUME IInv, NEW t \in Task,
         t \in runq_buildable, t \notin runq_running, t \notin failed_tids,
         t \notin runq_complete,
         runq_running' = runq_running \union {t},
         runq_complete' = runq_complete \union {t},
         failed_tids' = failed_tids
  PROVE  Promise!Skip(t)
<1>1. taskStatus[t] = "waiting" /\ taskStatus'[t] = "done"
  BY DEF taskStatus
<1>2. \A u \in Task \ {t} : taskStatus'[u] = taskStatus[u]
  BY DEF taskStatus
<1>3. \A d \in Depends[t] : taskStatus[d] = "done"
  BY RunningAreBuildStamps, TaskAssumption DEF IInv, Buildability
<1>4. QED
  BY <1>1, <1>2, <1>3, StatusOfOne DEF Promise!Skip, Promise!DepsDone

LEMMA LaunchIsStart ==
  ASSUME IInv, NEW t \in Task, pc \in {"execute", "enforce"}, ExecuteLaunch(t)
  PROVE  Promise!Start(t)
<1>1. /\ t \in runq_buildable /\ t \notin runq_running
      /\ t \notin runq_complete /\ t \notin failed_tids
      /\ \A u \in build_stamps : StampNoExtra[u] # StampNoExtra[t]
      /\ Cardinality(build_stamps) < NumberTasks
  BY SchedNext DEF ExecuteLaunch, build_taskdepdata
<1>2. taskStatus[t] = "waiting" /\ taskStatus'[t] = "running"
  BY <1>1 DEF taskStatus, ExecuteLaunch, build_taskdepdata
<1>3. \A u \in Task \ {t} : taskStatus'[u] = taskStatus[u]
  BY DEF taskStatus, ExecuteLaunch, build_taskdepdata
<1>4. \A d \in Depends[t] : taskStatus[d] = "done"
  BY <1>1, RunningAreBuildStamps, TaskAssumption DEF IInv, Buildability
<1>5. Promise!RunningTasks = build_stamps
  BY RunningAreBuildStamps
<1>6. taskStatus' = [taskStatus EXCEPT ![t] = "running"]
  BY <1>2, <1>3, StatusOfOne
<1>7. Cardinality(Promise!RunningTasks) < NumberTasks
  BY <1>1, <1>5
<1>8. \A u \in Promise!RunningTasks : StampNoExtra[u] # StampNoExtra[t]
  BY <1>1, <1>5
<1>9. Promise!DepsDone(t)
  BY <1>4 DEF Promise!DepsDone
<1>10. Promise!Cardinality(Promise!RunningTasks) = Cardinality(Promise!RunningTasks)
  BY Zenon DEF Promise!Cardinality, Cardinality
<1>11. QED
  BY <1>2, <1>6, <1>7, <1>8, <1>9, <1>10 DEF Promise!Start

LEMMA WaitpidIsEnd ==
  ASSUME IInv, NEW t \in Task, ProcessWaitpid(t)
  PROVE  \E outcome \in {"done", "failed"} : Promise!End(t, outcome)
<1>1. /\ t \in build_stamps /\ t \in runq_running
      /\ t \notin runq_complete /\ t \notin failed_tids
      /\ runq_running' = runq_running
  BY DEF ProcessWaitpid, runqueue_process_waitpid, task_complete, task_fail,
         IInv, Partition
<1>2. taskStatus[t] = "running"
  BY <1>1 DEF taskStatus
<1>3. CASE task_complete(t)
  <2>1. runq_complete' = runq_complete \union {t} /\ failed_tids' = failed_tids
    BY <1>3 DEF task_complete, task_completeoutright
  <2>2. taskStatus'[t] = "done" /\ \A u \in Task \ {t} : taskStatus'[u] = taskStatus[u]
    BY <1>1, <2>1 DEF taskStatus
  <2>3. QED
    BY <1>2, <2>2, StatusOfOne DEF Promise!End
<1>4. CASE task_fail(t)
  <2>1. runq_complete' = runq_complete /\ failed_tids' = failed_tids \union {t}
    BY <1>4 DEF task_fail
  <2>2. taskStatus'[t] = "failed" /\ \A u \in Task \ {t} : taskStatus'[u] = taskStatus[u]
    BY <1>1, <2>1 DEF taskStatus
  <2>3. QED
    BY <1>2, <2>2, StatusOfOne DEF Promise!End
<1>5. QED
  BY <1>3, <1>4 DEF ProcessWaitpid, runqueue_process_waitpid

\* Steps that BuildOrder does not see.
LEMMA StatusUnchanged ==
  ASSUME UNCHANGED <<runq_running, runq_complete, failed_tids>>
  PROVE  taskStatus' = taskStatus
BY DEF taskStatus

LEMMA NextImplements == IInv /\ [Next]_vars => [Promise!Next]_taskStatus
<1> SUFFICES ASSUME IInv, [Next]_vars PROVE [Promise!Next]_taskStatus
  OBVIOUS
<1>1. CASE ExecuteBegin \/ ExecuteWait \/ ExecuteEnd \/ Finish \/ FinishNow
  <2>1. UNCHANGED queueVars
    BY <1>1 DEF ExecuteBegin, ExecuteWait, ExecuteEnd, Finish, FinishNow, finish,
                finish_now, ExecuteFinished, ExecuteAborted, EnforceDone
  <2>2. QED
    BY <2>1, StatusUnchanged DEF queueVars
<1>2. ASSUME NEW t \in Task, ExecuteTask(t) PROVE [Promise!Next]_taskStatus
  <2>1. pc \in {"execute", "enforce"}
    BY <1>2 DEF ExecuteTask
  <2>2. CASE ExecuteSkip(t) \/ ExecuteNoExec(t)
    <3>1. Promise!Skip(t)
      BY <2>1, <2>2, SkipIsSkip, SchedNext
      DEF ExecuteSkip, ExecuteNoExec, task_skip, task_completeoutright
    <3>2. QED
      BY <3>1 DEF Promise!Next
  <2>3. CASE ExecuteLaunch(t)
    BY <2>1, <2>3, LaunchIsStart DEF Promise!Next
  <2>4. CASE ExecuteSpawnFails(t)
    BY <2>4, StatusUnchanged DEF ExecuteSpawnFails, build_taskdepdata
  <2>5. QED
    BY <1>2, <2>2, <2>3, <2>4 DEF ExecuteTask
<1>3. ASSUME NEW t \in Task, Enforce(t) PROVE [Promise!Next]_taskStatus
  <2>1. Promise!Skip(t)
    BY <1>3, SkipIsSkip, SchedNext
    DEF Enforce, EnforceSkip, task_skip, task_completeoutright
  <2>2. QED
    BY <2>1 DEF Promise!Next
<1>4. ASSUME NEW t \in Task, ProcessWaitpid(t) PROVE [Promise!Next]_taskStatus
  BY <1>4, WaitpidIsEnd DEF Promise!Next
<1>5. ASSUME NEW t \in Task, NEW code \in {"ok", "failed"}, WorkerEnds(t, code)
      PROVE [Promise!Next]_taskStatus
  BY <1>5, StatusUnchanged DEF WorkerEnds, queueVars
<1>6. CASE ExecuteException
  BY <1>6, StatusUnchanged
  DEF ExecuteException, ExecuteWriteFails, build_taskdepdata, ExecuteRaises, queueVars
<1>7. CASE UNCHANGED vars
  BY <1>7, StatusUnchanged DEF vars, queueVars
<1>8. QED
  BY <1>1, <1>2, <1>3, <1>4, <1>5, <1>6, <1>7 DEF Next

\* The task queue keeps the promise of BuildOrder for every set of tasks.
THEOREM Refinement == Spec => ImplementsBuildOrder
<1>1. Init => Promise!Init
  BY DEF Init, ExecuteInit, Promise!Init, taskStatus
<1>2. IInv /\ [Next]_vars => [Promise!Next]_taskStatus
  BY NextImplements
<1>3. QED
  BY <1>1, <1>2, Invariance, PTL DEF Spec, Promise!Spec, ImplementsBuildOrder

-----------------------------------------------------------------------------
(* Work that several recipes share *)

LEMMA InitSharedInv == SharedAlike /\ Init => SharedInv
<1> SUFFICES ASSUME SharedAlike, Init PROVE SharedInv
  OBVIOUS
<1> USE DEF Init, ExecuteInit
<1>1. InTime
  <2>1. clock = OldStamps /\ mtime \in [StampFile -> 0..OldStamps]
    BY DEF StampInit
  <2>2. QED
    BY <2>1, TaskAssumption DEF InTime, SharedAlike
<1>2. Entered
  BY DEF Entered
<1>3. Done = {}
  BY DEF Done
<1>4. QED
  BY <1>1, <1>2, <1>3 DEF StampsStand, RanOnce, SharedInv

\* What check_stamp_task says of a task, it says of all tasks of the stamp.
LEMMA Alike ==
  ASSUME SharedAlike, NEW t \in Task, NEW u \in Task, t # u,
         StampOf[t] = StampOf[u], check_stamp_task(t)
  PROVE  check_stamp_task(u)
<1>1. /\ mtime[StampOf[t]] # 0 /\ t \notin NoStamp
      /\ \A d \in Depends[t] :
           \/ SetsceneNewer(d)
           \/ Fn[d] # Fn[t] /\ Fn[d] \notin DepTreeFiles
           \/ DepIsOlder(t, d)
  BY DEF check_stamp_task
<1>2. u \notin NoStamp
  BY <1>1 DEF SharedAlike
<1>3. ASSUME NEW d \in Depends[u]
      PROVE  \/ SetsceneNewer(d)
             \/ Fn[d] # Fn[u] /\ Fn[d] \notin DepTreeFiles
             \/ DepIsOlder(u, d)
  <2>1. CASE d \notin Compared(u)
    BY <2>1 DEF Compared
  <2>2. CASE d \in Compared(u)
    <3>1. PICK x \in Compared(t) : StampOf[x] = StampOf[d]
      BY <1>1, <2>2 DEF SharedAlike
    <3>2. SetsceneNewer(x) \/ DepIsOlder(t, x)
      BY <1>1, <3>1 DEF Compared
    <3>3. QED
      BY <3>1, <3>2 DEF SetsceneNewer, DepIsOlder
  <2>3. QED
    BY <2>1, <2>2
<1>4. QED
  BY <1>1, <1>2, <1>3 DEF check_stamp_task

\* Each stamp a buildable task is compared with is that of a task done: the
\* sharing task has the same stamps to be compared with, and back.
LEMMA ComparedDone ==
  ASSUME IInv, SharedAlike, NEW t \in Task, t \in runq_buildable, Shares(t),
         t \notin NoStamp, NEW d \in Compared(t)
  PROVE  \E x \in Done : StampOf[x] = StampOf[d]
<1>1. PICK u \in Task \ {t} : StampOf[u] = StampOf[t]
  BY DEF Shares
<1>2. u \notin NoStamp
  BY <1>1 DEF SharedAlike
<1>3. PICK y \in Compared(u) : StampOf[y] = StampOf[d]
  BY <1>1, <1>2 DEF SharedAlike
<1>4. PICK x \in Compared(t) \ (Covered \union NoStamp) : StampOf[x] = StampOf[y]
  BY <1>1, <1>3 DEF SharedAlike
<1>5. x \in Depends[t] /\ Depends[t] \subseteq runq_complete
  BY <1>4 DEF Compared, IInv, Buildability
<1>6. QED
  BY <1>3, <1>4, <1>5 DEF Done

\* A task done was buildable.
LEMMA DoneType ==
  ASSUME IInv
  PROVE  Done \subseteq Task /\ Done \subseteq runq_running /\ Done \subseteq runq_buildable
BY DEF Done, IInv, Partition, Buildability, TypeOK, ExecuteTypeOK

\* The stamp of v is written; that of no task done is.
LEMMA WritingKeeps ==
  ASSUME IInv, SharedAlike, SharedInv, Begun, NEW v \in Task, make_stamp(v),
         \A t \in Done : StampOf[t] # StampOf[v], NEW t \in Done
  PROVE  mtime'[StampOf[t]] # 0 /\ (Shares(t) => check_stamp_task(t)')
<1>1. PICK now \in {clock, clock + 1} :
        /\ mtime' = [mtime EXCEPT ![StampOf[v]] = now]
        /\ mtime_setscene' = [mtime_setscene EXCEPT ![StampOf[v]] = 0]
  BY DEF make_stamp
<1>2. \A p \in StampFile \ {StampOf[v]} :
        mtime'[p] = mtime[p] /\ mtime_setscene'[p] = mtime_setscene[p]
  BY <1>1 DEF IInv, TypeOK, StampTypeOK
<1>3. t \in Task /\ t \in runq_buildable /\ t \notin NoStamp
  BY DoneType DEF Done
<1>4. mtime'[StampOf[t]] = mtime[StampOf[t]]
  BY <1>2, <1>3, TaskAssumption
<1>5. mtime[StampOf[t]] # 0 /\ (Shares(t) => check_stamp_task(t))
  BY DEF SharedInv, StampsStand
<1>6. ASSUME Shares(t), NEW d \in Compared(t)
      PROVE  (SetsceneNewer(d) <=> SetsceneNewer(d)') /\ (DepIsOlder(t, d) <=> DepIsOlder(t, d)')
  <2>1. PICK x \in Done : StampOf[x] = StampOf[d]
    BY <1>3, <1>6, ComparedDone
  <2>2. StampOf[d] \in StampFile \ {StampOf[v]}
    BY <2>1, DoneType, TaskAssumption
  <2>3. QED
    BY <1>2, <1>4, <2>2 DEF SetsceneNewer, DepIsOlder
<1>7. ASSUME Shares(t) PROVE check_stamp_task(t)'
  <2>1. \A d \in Depends[t] :
           \/ SetsceneNewer(d)'
           \/ Fn[d] # Fn[t] /\ Fn[d] \notin DepTreeFiles
           \/ DepIsOlder(t, d)'
    BY <1>5, <1>6, <1>7 DEF check_stamp_task, Compared
  <2>2. QED
    BY <1>3, <1>4, <1>5, <2>1 DEF check_stamp_task
<1>8. QED
  BY <1>4, <1>5, <1>7

\* The new stamp of a buildable task is not older than those it is compared with.
LEMMA WrittenIsInOrder ==
  ASSUME IInv, SharedAlike, SharedInv, Begun, NEW v \in Task, make_stamp(v),
         v \in runq_buildable, v \notin NoStamp
  PROVE  mtime'[StampOf[v]] # 0 /\ (Shares(v) => check_stamp_task(v)')
<1>1. PICK now \in {clock, clock + 1} :
        /\ mtime' = [mtime EXCEPT ![StampOf[v]] = now]
        /\ mtime_setscene' = [mtime_setscene EXCEPT ![StampOf[v]] = 0]
  BY DEF make_stamp
<1>2. now \in Nat \ {0} /\ \A p \in StampFile : mtime[p] <= now
  BY DEF SharedInv, InTime, IInv, TypeOK, StampTypeOK
<1>3. StampOf[v] \in StampFile
  BY TaskAssumption
<1>4. mtime'[StampOf[v]] = now
  BY <1>1, <1>3 DEF IInv, TypeOK, StampTypeOK
<1>5. ASSUME Shares(v), NEW d \in Compared(v) PROVE DepIsOlder(v, d)'
  <2>1. PICK x \in Done : StampOf[x] = StampOf[d]
    BY <1>5, ComparedDone
  <2>2. StampOf[d] \in StampFile /\ mtime[StampOf[d]] # 0
    BY <2>1, DoneType, TaskAssumption DEF SharedInv, StampsStand
  <2>3. mtime'[StampOf[d]] = IF StampOf[d] = StampOf[v] THEN now ELSE mtime[StampOf[d]]
    BY <1>1, <2>2 DEF IInv, TypeOK, StampTypeOK
  <2>4. mtime'[StampOf[d]] # 0 /\ mtime'[StampOf[d]] <= mtime'[StampOf[v]]
    BY <1>2, <1>4, <2>2, <2>3
  <2>5. QED
    BY <2>4 DEF DepIsOlder
<1>6. ASSUME Shares(v) PROVE check_stamp_task(v)'
  BY <1>2, <1>4, <1>5, <1>6 DEF check_stamp_task, Compared
<1>7. QED
  BY <1>2, <1>4, <1>6

\* Writing a stamp moves the clock on.
LEMMA WritingInTime ==
  ASSUME IInv, InTime, NEW v \in Task, make_stamp(v)
  PROVE  InTime'
<1>1. PICK now \in {clock, clock + 1} :
        clock' = now /\ mtime' = [mtime EXCEPT ![StampOf[v]] = now]
  BY DEF make_stamp
<1>2. clock \in Nat /\ mtime \in [StampFile -> Nat]
  BY DEF IInv, TypeOK, StampTypeOK
<1>3. QED
  BY <1>1, <1>2 DEF InTime

\* A task that has to run shares its stamp with none that is done.
LEMMA MustRunIsNew ==
  ASSUME IInv, SharedAlike, SharedInv, NEW v \in Task, sched_next(v),
         pc = "execute", MustRun(v), NEW t \in Done
  PROVE  StampOf[t] # StampOf[v]
<1>1. SUFFICES ASSUME StampOf[t] = StampOf[v] PROVE FALSE
  OBVIOUS
<1>2. t \in Task /\ t # v
  BY DoneType, SchedNext
<1>3. check_stamp_task(t)
  BY <1>1, <1>2 DEF SharedInv, StampsStand, Begun, Shares
<1>4. check_stamp_task(v)
  BY <1>1, <1>2, <1>3, Alike
<1>5. QED
  BY <1>4 DEF MustRun

\* A step that writes no stamp and after which no other task is done or has to
\* write one.
LEMMA QuietKeeps ==
  ASSUME SharedInv, UNCHANGED stampVars, Done' \subseteq Done, Begun' => Begun,
         started' \intersect Done' \subseteq started,
         \A v \in build_stamps' : exitcode'[v] = "none" =>
           v \in build_stamps /\ exitcode[v] = "none"
  PROVE  InTime' /\ StampsStand' /\ RanOnce'
<1>1. InTime'
  BY DEF SharedInv, InTime, stampVars
<1>2. RanOnce'
  BY DEF SharedInv, RanOnce
<1>3. StampsStand'
  <2>1. SUFFICES ASSUME Begun', NEW t \in Done'
        PROVE  /\ mtime'[StampOf[t]] # 0
               /\ Shares(t) => check_stamp_task(t)'
               /\ \A v \in build_stamps' :
                    exitcode'[v] = "none" => StampOf[v] # StampOf[t]
    BY DEF StampsStand, Shares
  <2>2. /\ mtime[StampOf[t]] # 0
        /\ Shares(t) => check_stamp_task(t)
        /\ \A v \in build_stamps : exitcode[v] = "none" => StampOf[v] # StampOf[t]
    BY <2>1 DEF SharedInv, StampsStand
  <2>3. check_stamp_task(t) => check_stamp_task(t)'
    BY DEF check_stamp_task, SetsceneNewer, DepIsOlder, stampVars
  <2>4. QED
    BY <2>2, <2>3 DEF stampVars
<1>4. QED
  BY <1>1, <1>2, <1>3

LEMMA SkipShared ==
  ASSUME IInv, SharedInv, NEW t \in Task, ExecuteTask(t), ExecuteSkip(t)
  PROVE  SharedInv'
<1>1. /\ sched_next(t) /\ pc = "execute" /\ pc' = "idle"
      /\ t \in Covered \/ check_stamp_task(t)
      /\ UNCHANGED <<state, stampVars, build_stamps, started, exitcode,
                     whitelist_checked>>
      /\ runq_running' = runq_running \union {t}
      /\ runq_complete' = runq_complete \union {t}
  BY DEF ExecuteTask, ExecuteSkip, MustRun, task_skip, task_completeoutright
<1>2. /\ t \notin started
      /\ \A v \in build_stamps : StampOf[v] # StampOf[t]
  BY <1>1, SchedNext, TaskAssumption DEF IInv, TypeOK, ExecuteTypeOK
<1>3. Done' \subseteq Done \union {t}
      /\ (t \in Done' => t \notin Covered)
  BY <1>1 DEF Done
<1>4. InTime' /\ Entered'
  BY <1>1 DEF SharedInv, InTime, Entered, stampVars
<1>5. RanOnce'
  BY <1>1, <1>2, <1>3 DEF SharedInv, RanOnce
<1>6. ASSUME NEW u \in Done'
      PROVE  /\ mtime'[StampOf[u]] # 0
             /\ Shares(u) => check_stamp_task(u)'
             /\ \A v \in build_stamps' :
                  exitcode'[v] = "none" => StampOf[v] # StampOf[u]
  <2>1. check_stamp_task(u) => check_stamp_task(u)'
    BY <1>1 DEF check_stamp_task, SetsceneNewer, DepIsOlder, stampVars
  <2>2. mtime' = mtime
    BY <1>1 DEF stampVars
  <2>3. CASE u \in Done
    <3>1. /\ mtime[StampOf[u]] # 0
          /\ Shares(u) => check_stamp_task(u)
          /\ \A v \in build_stamps : exitcode[v] = "none" => StampOf[v] # StampOf[u]
      BY <1>1, <2>3 DEF SharedInv, StampsStand, Begun
    <3>2. QED
      BY <1>1, <2>1, <2>2, <3>1
  <2>4. CASE u = t
    <3>1. check_stamp_task(t) /\ mtime[StampOf[t]] # 0
      BY <1>1, <1>3, <1>6, <2>4 DEF check_stamp_task
    <3>2. QED
      BY <1>1, <1>2, <2>1, <2>2, <2>4, <3>1
  <2>5. QED
    BY <1>3, <1>6, <2>3, <2>4
<1>7. StampsStand'
  BY <1>6 DEF StampsStand, Shares
<1>8. QED
  BY <1>4, <1>5, <1>7 DEF SharedInv

LEMMA NoExecShared ==
  ASSUME IInv, SharedAlike, SharedInv, NEW t \in Task, ExecuteTask(t), ExecuteNoExec(t)
  PROVE  SharedInv'
<1>1. /\ sched_next(t) /\ pc = "execute" /\ pc' = "idle" /\ MustRun(t)
      /\ make_stamp(t)
      /\ UNCHANGED <<state, build_stamps, exitcode, whitelist_checked>>
      /\ started' = started \union {t}
      /\ runq_running' = runq_running \union {t}
      /\ runq_complete' = runq_complete \union {t}
  BY DEF ExecuteTask, ExecuteNoExec, task_completeoutright
<1>2. /\ t \in runq_buildable /\ t \notin Covered
      /\ \A v \in build_stamps : StampOf[v] # StampOf[t]
  BY <1>1, SchedNext, TaskAssumption DEF MustRun, IInv, TypeOK, ExecuteTypeOK
<1>3. \A u \in Done : StampOf[u] # StampOf[t]
  BY <1>1, MustRunIsNew
<1>4. Done' \subseteq Done \union {t} /\ (t \in Done' => t \notin NoStamp)
  BY <1>1 DEF Done
<1>5. InTime' /\ Entered'
  BY <1>1, <1>2, WritingInTime DEF SharedInv, Entered
<1>6. RanOnce'
  BY <1>1, <1>3, <1>4 DEF SharedInv, RanOnce
<1>7. ASSUME NEW u \in Done'
      PROVE  /\ mtime'[StampOf[u]] # 0
             /\ Shares(u) => check_stamp_task(u)'
             /\ \A v \in build_stamps' :
                  exitcode'[v] = "none" => StampOf[v] # StampOf[u]
  <2>1. Begun
    BY <1>1 DEF Begun
  <2>2. CASE u \in Done
    <3>1. \A v \in build_stamps : exitcode[v] = "none" => StampOf[v] # StampOf[u]
      BY <2>1, <2>2 DEF SharedInv, StampsStand
    <3>2. QED
      BY <1>1, <1>3, <2>1, <2>2, <3>1, WritingKeeps
  <2>3. CASE u = t
    BY <1>1, <1>2, <1>4, <1>7, <2>1, <2>3, WrittenIsInOrder
  <2>4. QED
    BY <1>4, <1>7, <2>2, <2>3
<1>8. StampsStand'
  BY <1>7 DEF StampsStand, Shares
<1>9. QED
  BY <1>5, <1>6, <1>8 DEF SharedInv

LEMMA LaunchShared ==
  ASSUME IInv, SharedAlike, SharedInv, NEW t \in Task, ExecuteTask(t), ExecuteLaunch(t)
  PROVE  SharedInv'
<1>1. /\ sched_next(t) /\ pc = "execute" /\ pc' = "idle" /\ MustRun(t)
      /\ UNCHANGED <<state, stampVars, exitcode, whitelist_checked, runq_complete>>
      /\ started' = started \union {t}
      /\ runq_running' = runq_running \union {t}
      /\ build_stamps' = build_stamps \union {t}
  BY DEF ExecuteTask, ExecuteLaunch, build_taskdepdata
<1>2. t \notin runq_running /\ t \notin runq_complete /\ t \notin Covered
  BY <1>1, SchedNext DEF MustRun
<1>3. exitcode[t] = "none"
  BY <1>2 DEF SharedInv, Entered, IInv, TypeOK
<1>4. Done' = Done /\ t \notin Done
  BY <1>1, <1>2, <1>3 DEF Done
<1>5. InTime' /\ Entered'
  BY <1>1, <1>2 DEF SharedInv, InTime, Entered, stampVars
<1>6. RanOnce'
  BY <1>1, <1>4 DEF SharedInv, RanOnce
<1>7. \A u \in Done : StampOf[u] # StampOf[t]
  BY <1>1, MustRunIsNew
<1>8. ASSUME NEW u \in Done
      PROVE  /\ mtime'[StampOf[u]] # 0
             /\ Shares(u) => check_stamp_task(u)'
             /\ \A v \in build_stamps' :
                  exitcode'[v] = "none" => StampOf[v] # StampOf[u]
  <2>1. check_stamp_task(u) => check_stamp_task(u)'
    BY <1>1 DEF check_stamp_task, SetsceneNewer, DepIsOlder, stampVars
  <2>2. /\ mtime[StampOf[u]] # 0
        /\ Shares(u) => check_stamp_task(u)
        /\ \A v \in build_stamps : exitcode[v] = "none" => StampOf[v] # StampOf[u]
    BY <1>1 DEF SharedInv, StampsStand, Begun
  <2>3. QED
    BY <1>1, <1>7, <2>1, <2>2 DEF stampVars
<1>9. StampsStand'
  BY <1>4, <1>8 DEF StampsStand, Shares
<1>10. QED
  BY <1>5, <1>6, <1>9 DEF SharedInv

\* A task that no worker got is never done.
LEMMA NotHandedOverShared ==
  ASSUME IInv, SharedInv, NEW t \in Task, pc = "execute",
         ExecuteSpawnFails(t) \/ ExecuteWriteFails(t),
         UNCHANGED <<exitcode, whitelist_checked>>, pc' \in {"idle", "raised"}
  PROVE  SharedInv'
<1>1. /\ sched_next(t) /\ MustRun(t)
      /\ UNCHANGED <<stampVars, runq_complete, build_stamps, runq_running>>
      /\ started' = started \union {t}
  BY DEF ExecuteSpawnFails, ExecuteWriteFails, build_taskdepdata
<1>2. t \notin runq_complete /\ t \notin build_stamps /\ t \notin Covered
  BY <1>1, SchedNext DEF MustRun
<1>3. Done' = Done /\ t \notin Done
  BY <1>1, <1>2 DEF Done
<1>4. Begun
  BY DEF Begun
<1>5. InTime' /\ StampsStand' /\ RanOnce'
  BY <1>1, <1>3, <1>4, QuietKeeps
<1>6. Entered'
  BY <1>1, <1>2 DEF SharedInv, Entered
<1>7. QED
  BY <1>5, <1>6 DEF SharedInv

LEMMA WorkerEndsShared ==
  ASSUME IInv, SharedAlike, SharedInv, NEW t \in Task,
         NEW code \in {"ok", "failed"}, WorkerEnds(t, code)
  PROVE  SharedInv'
<1>1. /\ t \in build_stamps /\ exitcode[t] = "none"
      /\ exitcode' = [exitcode EXCEPT ![t] = code]
      /\ UNCHANGED <<state, queueVars, pc, whitelist_checked>>
  BY DEF WorkerEnds
<1>2. /\ UNCHANGED <<runq_running, runq_complete, build_stamps, started>>
      /\ \A u \in Task \ {t} : exitcode'[u] = exitcode[u]
      /\ exitcode'[t] = code
  BY <1>1 DEF queueVars, IInv, TypeOK
<1>3. /\ t \in started /\ t \in runq_running /\ t \in runq_buildable
      /\ \A v \in build_stamps \ {t} : StampOf[v] # StampOf[t]
  BY <1>1, TaskAssumption
  DEF IInv, Announced, Partition, Buildability, StampExclusion, TypeOK, ExecuteTypeOK
<1>4. t \notin Covered /\ Begun /\ Begun' = Begun
  BY <1>1, <1>2, <1>3 DEF SharedInv, Entered, Begun
<1>5. Entered'
  BY <1>1, <1>2, <1>3 DEF SharedInv, Entered
<1>6. Done' \subseteq Done \union {t}
      /\ (code = "failed" \/ t \in NoStamp => Done' \subseteq Done)
  BY <1>2 DEF Done, IInv, TypeOK, ExecuteTypeOK
<1>7. \A u \in Done : StampOf[u] # StampOf[t]
  BY <1>1, <1>4 DEF SharedInv, StampsStand
<1>8. \A v \in build_stamps' : exitcode'[v] = "none" =>
        v \in build_stamps \ {t} /\ exitcode[v] = "none"
  BY <1>2 DEF IInv, TypeOK, ExecuteTypeOK
<1>9. CASE UNCHANGED stampVars /\ (code = "failed" \/ t \in NoStamp)
  <2>1. InTime' /\ StampsStand' /\ RanOnce'
    BY <1>2, <1>4, <1>6, <1>8, <1>9, QuietKeeps
  <2>2. QED
    BY <1>5, <2>1 DEF SharedInv
<1>10. CASE t \notin NoStamp /\ make_stamp(t)
  <2>1. InTime'
    BY <1>10, WritingInTime DEF SharedInv
  <2>2. RanOnce'
    BY <1>2, <1>6, <1>7 DEF SharedInv, RanOnce
  <2>3. ASSUME NEW u \in Done'
        PROVE  /\ mtime'[StampOf[u]] # 0
               /\ Shares(u) => check_stamp_task(u)'
               /\ \A v \in build_stamps' :
                    exitcode'[v] = "none" => StampOf[v] # StampOf[u]
    <3>1. CASE u \in Done
      <4>1. \A v \in build_stamps : exitcode[v] = "none" => StampOf[v] # StampOf[u]
        BY <1>4, <3>1 DEF SharedInv, StampsStand
      <4>2. QED
        BY <1>4, <1>7, <1>8, <1>10, <3>1, <4>1, WritingKeeps
    <3>2. CASE u = t
      BY <1>3, <1>4, <1>8, <1>10, <3>2, WrittenIsInOrder
    <3>3. QED
      BY <1>6, <2>3, <3>1, <3>2
  <2>4. StampsStand'
    BY <2>3 DEF StampsStand, Shares
  <2>5. QED
    BY <1>5, <2>1, <2>2, <2>4 DEF SharedInv
<1>11. QED
  BY <1>9, <1>10 DEF WorkerEnds

LEMMA NextSharedInv ==
  ASSUME SharedAlike
  PROVE  IInv /\ SharedInv /\ [Next]_vars => SharedInv'
<1> SUFFICES ASSUME IInv, SharedInv, [Next]_vars PROVE SharedInv'
  OBVIOUS
<1>1. ASSUME UNCHANGED <<queueVars, stampVars, exitcode>>, Begun' => Begun, Entered'
      PROVE  SharedInv'
  <2>1. Done' = Done /\ started' = started /\ build_stamps' = build_stamps
    BY <1>1 DEF Done, queueVars
  <2>2. InTime' /\ StampsStand' /\ RanOnce'
    BY <1>1, <2>1, QuietKeeps
  <2>3. QED
    BY <1>1, <2>2 DEF SharedInv
<1>2. CASE ExecuteBegin \/ ExecuteWait
  <2>1. UNCHANGED <<queueVars, stampVars, exitcode>> /\ (Begun' => Begun)
    BY <1>2 DEF ExecuteBegin, ExecuteWait, Begun, queueVars
  <2>2. Entered'
    BY <1>2 DEF ExecuteBegin, ExecuteWait, queueVars, SharedInv, Entered
  <2>3. QED
    BY <1>1, <2>1, <2>2
<1>3. CASE ExecuteEnd \/ Finish \/ FinishNow
  <2>1. UNCHANGED <<queueVars, stampVars, exitcode, whitelist_checked>>
        /\ pc' \in {"idle", pc}
        /\ (Begun' => Begun)
    BY <1>3 DEF ExecuteEnd, Finish, FinishNow, finish, finish_now, queueVars, Begun,
                ExecuteFinished, ExecuteAborted, EnforceDone
  <2>2. Entered'
    BY <2>1 DEF queueVars, SharedInv, Entered
  <2>3. QED
    BY <1>1, <2>1, <2>2
<1>4. ASSUME NEW t \in Task, ExecuteTask(t) PROVE SharedInv'
  <2>1. pc = "execute" /\ pc' = "idle" /\ UNCHANGED <<whitelist_checked, exitcode>>
    BY <1>4 DEF ExecuteTask
  <2>2. QED
    BY <1>4, <2>1, SkipShared, NoExecShared, LaunchShared, NotHandedOverShared
    DEF ExecuteTask
<1>5. ASSUME NEW t \in Task, Enforce(t) PROVE SharedInv'
  <2>1. /\ pc = "enforce"
        /\ UNCHANGED <<pc, state, stampVars, exitcode, whitelist_checked, started>>
        /\ runq_running' = runq_running \union {t}
    BY <1>5 DEF Enforce, EnforceSkip, task_skip
  <2>2. started = {} /\ ~Begun'
    BY <2>1 DEF SharedInv, Entered, Begun
  <2>3. QED
    BY <2>1, <2>2 DEF SharedInv, InTime, Entered, StampsStand, RanOnce, stampVars
<1>6. ASSUME NEW t \in Task, ProcessWaitpid(t) PROVE SharedInv'
  <2>1. /\ t \in build_stamps /\ build_stamps' = build_stamps \ {t}
        /\ UNCHANGED <<started, runq_running, stampVars, pc, whitelist_checked, exitcode>>
        /\ \/ exitcode[t] = "ok" /\ runq_complete' = runq_complete \union {t}
                /\ state' = state
           \/ UNCHANGED runq_complete /\ state' \in {state, "CleanUp"}
    BY <1>6 DEF ProcessWaitpid, runqueue_process_waitpid, task_complete, task_fail,
                task_completeoutright
  <2>2. Done' \subseteq Done
    BY <2>1 DEF Done
  <2>3. (Begun' => Begun) /\ Entered'
    BY <2>1 DEF Begun, SharedInv, Entered
  <2>4. InTime' /\ StampsStand' /\ RanOnce'
    BY <2>1, <2>2, <2>3, QuietKeeps
  <2>5. QED
    BY <2>3, <2>4 DEF SharedInv
<1>7. ASSUME NEW t \in Task, NEW code \in {"ok", "failed"}, WorkerEnds(t, code)
      PROVE SharedInv'
  BY <1>7, WorkerEndsShared
<1>8. CASE ExecuteException
  <2>1. pc' = "raised" /\ UNCHANGED <<whitelist_checked, exitcode>>
    BY <1>8 DEF ExecuteException
  <2>2. ASSUME NEW t \in Task, ExecuteWriteFails(t), pc = "execute" PROVE SharedInv'
    BY <2>1, <2>2, NotHandedOverShared
  <2>3. CASE ExecuteRaises
    <3>1. UNCHANGED <<queueVars, stampVars, exitcode>> /\ (Begun' => Begun) /\ Entered'
      BY <2>1, <2>3 DEF ExecuteRaises, queueVars, Begun, SharedInv, Entered
    <3>2. QED
      BY <1>1, <3>1
  <2>4. QED
    BY <1>8, <2>2, <2>3 DEF ExecuteException
<1>9. CASE UNCHANGED vars
  <2>1. UNCHANGED <<queueVars, stampVars, exitcode>> /\ (Begun' => Begun) /\ Entered'
    BY <1>9 DEF vars, queueVars, Begun, SharedInv, Entered
  <2>2. QED
    BY <1>1, <2>1
<1>10. QED
  BY <1>2, <1>3, <1>4, <1>5, <1>6, <1>7, <1>8, <1>9 DEF Next

LEMMA OnlyOneRan == SharedInv => SharedWorkDoneOnce
<1> SUFFICES ASSUME SharedInv, NEW t \in (started \intersect runq_complete) \ NoStamp
      PROVE  t \in started \intersect Done
  BY DEF SharedInv, RanOnce, SharedWorkDoneOnce
<1> QED
  BY DEF SharedInv, Entered, Done

\* Where tasks of one stamp are the same work, one of them does it: whichever
\* comes later finds the stamp in order and is skipped.
THEOREM SharedWorkDoneOnceHolds ==
  ASSUME SharedAlike
  PROVE  Spec => []SharedWorkDoneOnce
<1>1. Init => SharedInv
  BY InitSharedInv
<1>2. IInv /\ SharedInv /\ [Next]_vars => SharedInv'
  BY NextSharedInv
<1>3. QED
  BY <1>1, <1>2, OnlyOneRan, Invariance, PTL DEF Spec
=============================================================================
