-------------------------- MODULE RunQueueExecute --------------------------
(***************************************************************************)
(* The state and the methods of the object that runs the task queue:       *)
(* RunQueueExecute, RunQueueExecuteTasks, its RunQueueStats and its        *)
(* scheduler (lib/bb/runqueue.py).  Each method is an action; the modules  *)
(* that extend this one say who calls them, and when.  A definition with a *)
(* suffix (HasFreeSlot_or_one_more) is a faulty variant of its namesake,   *)
(* with which the properties are tried; no specification uses it.          *)
(***************************************************************************)
EXTENDS Stamps, FiniteSets

CONSTANTS
  NumberTasks,   \* BB_NUMBER_THREADS
  Scheduler,     \* BB_SCHEDULER
  Prio,          \* Prio[t]: the place of t in the scheduler's prio_map
  Covered,       \* scenequeue_covered as __init__ left it
  NoExec,        \* tasks with the noexec flag
  Fakeroot,      \* tasks with the fakeroot flag
  NotWhitelisted,\* tasks the setscene enforcement forbids to run
  Abort          \* taskData.abort: FALSE under -k

ASSUME ExecuteAssumption ==
  /\ NumberTasks \in Nat \ {0}
  /\ Scheduler \in {"basic", "speed", "completion"}
  /\ Prio \in [Task -> Nat]
  /\ \A t, u \in Task : Prio[t] = Prio[u] => t = u
  /\ IsFiniteSet(Task)
  /\ Task # {}
  /\ Abort \in BOOLEAN

\* prepare() refuses a run queue with a dependency cycle.
ASSUME AcyclicAssumption ==
  \A T \in SUBSET Task : T # {} => \E t \in T : Depends[t] \intersect T = {}

VARIABLES
  state,           \* RunQueue.state
  runq_buildable, runq_running, runq_complete,
  build_stamps,    \* the keys of build_stamps: tasks a worker was given
  failed_tids,
  stats,           \* RunQueueStats
  depends,         \* runtaskentries[t].depends, which build_taskdepdata changes
  started,         \* tasks announced by a runQueueTaskStarted event
  fakeworker       \* RunQueue.fakeworker is not empty

queueVars == <<runq_buildable, runq_running, runq_complete, build_stamps,
               failed_tids, stats, depends, started, fakeworker>>

States == {"Prepare", "SceneInit", "SceneRun", "RunInit",
           "Running", "Failed", "CleanUp", "Complete"}

RunQueueStats ==
  [active : Int, completed : Int, skipped : Int, failed : Int]

ExecuteTypeOK ==
  /\ state \in States
  /\ runq_buildable \subseteq Task
  /\ runq_running \subseteq Task
  /\ runq_complete \subseteq Task
  /\ build_stamps \subseteq Task
  /\ failed_tids \subseteq Task
  /\ stats \in RunQueueStats
  /\ depends \in [Task -> SUBSET Task]
  /\ started \subseteq Task
  /\ fakeworker \in BOOLEAN

ExecuteInit ==
  /\ runq_buildable = {t \in Task : Depends[t] = {}}
  /\ runq_running = {}
  /\ runq_complete = {}
  /\ build_stamps = {}
  /\ failed_tids = {}
  /\ stats = [active |-> 0, completed |-> 0, skipped |-> 0, failed |-> 0]
  /\ depends = Depends
  /\ started = {}
  /\ fakeworker = FALSE

\* The methods of RunQueueStats.
taskActive(s) == [s EXCEPT !.active = @ + 1]
taskFailed_keeps_active(s) == [s EXCEPT !.failed = @ + 1]
taskCompleted(s) == [s EXCEPT !.active = @ - 1, !.completed = @ + 1]
taskSkipped(s) == [s EXCEPT !.active = @ + 1, !.skipped = @ + 1]
taskFailed(s) == [s EXCEPT !.active = @ - 1, !.failed = @ + 1]

RevDeps(t) == {r \in Task : t \in Depends[r]}

-----------------------------------------------------------------------------
(* The scheduler *)

Candidates == runq_buildable \ runq_running
StampsInUse == {StampNoExtra[u] : u \in build_stamps}
Ready_whatever_its_stamp == Candidates
Ready == {t \in Candidates : StampNoExtra[t] \notin StampsInUse}

HasFreeSlot_or_one_more == stats.active <= NumberTasks
HasFreeSlot == stats.active < NumberTasks

\* The basic scheduler keeps its prio_map as a list whose one member is the
\* dictionary view of every task: index() fails for each task it looks up, and
\* it looks up nothing only while there is a single candidate that may start.
sched_raises ==
  /\ Scheduler = "basic"
  /\ HasFreeSlot
  /\ Candidates # {}
  /\ ~ \E t \in Ready : Candidates = {t}

\* sched.next() returns t.
sched_next(t) ==
  /\ HasFreeSlot
  /\ ~sched_raises
  /\ t \in Ready
  /\ \A u \in Ready : Prio[t] <= Prio[u]

\* sched.next() returns None.
sched_none == ~HasFreeSlot \/ (Ready = {} /\ ~sched_raises)

-----------------------------------------------------------------------------
(* Completing, failing and skipping tasks *)

task_completeoutright_any_dep(t, running, buildable) ==
  /\ runq_complete' = runq_complete \union {t}
  /\ runq_buildable' = buildable \union (RevDeps(t) \ running)

task_completeoutright_late(t, running, buildable) ==
  /\ runq_complete' = runq_complete \union {t}
  /\ runq_buildable' =
       buildable \union {r \in RevDeps(t) \ running : depends[r] \subseteq runq_complete}

\* t is done: the tasks that only waited for t become buildable.
task_completeoutright(t, running, buildable) ==
  LET done == runq_complete \union {t} IN
    /\ runq_complete' = done
    /\ runq_buildable' =
         buildable \union {r \in RevDeps(t) \ running : depends[r] \subseteq done}

task_complete(t) ==
  /\ stats' = taskCompleted(stats)
  /\ task_completeoutright(t, runq_running, runq_buildable)
  /\ UNCHANGED <<runq_running, failed_tids, state>>

task_fail(t) ==
  /\ stats' = taskFailed(stats)
  /\ failed_tids' = failed_tids \union {t}
  /\ state' = IF Abort THEN "CleanUp" ELSE state
  /\ UNCHANGED <<runq_buildable, runq_running, runq_complete>>

task_skip(t) ==
  /\ runq_running' = runq_running \union {t}
  /\ task_completeoutright(t, runq_running', runq_buildable \union {t})
  /\ stats' = taskSkipped(taskCompleted(stats))
  /\ UNCHANGED <<build_stamps, failed_tids, depends, started, fakeworker>>

runqueue_process_waitpid_keeps_stamp(t, ok) ==
  /\ UNCHANGED build_stamps
  /\ IF ok THEN task_complete(t) ELSE task_fail(t)
  /\ UNCHANGED <<depends, started, fakeworker>>

\* The pipe delivered the exit code of t.
runqueue_process_waitpid(t, ok) ==
  /\ build_stamps' = build_stamps \ {t}
  /\ IF ok THEN task_complete(t) ELSE task_fail(t)
  /\ UNCHANGED <<depends, started, fakeworker>>

-----------------------------------------------------------------------------
(* The outcomes of execute() for the task the scheduler returned *)

MustRun(t) == t \notin Covered /\ ~check_stamp_task(t)

ExecuteSkip(t) ==
  /\ sched_next(t)
  /\ ~MustRun(t)
  /\ task_skip(t)
  /\ UNCHANGED <<state, stampVars>>

ExecuteNoExec(t) ==
  /\ sched_next(t)
  /\ MustRun(t)
  /\ t \in NoExec
  /\ started' = started \union {t}
  /\ runq_running' = runq_running \union {t}
  /\ make_stamp(t)
  /\ task_completeoutright(t, runq_running', runq_buildable)
  /\ stats' = taskCompleted(taskActive(stats))
  /\ UNCHANGED <<build_stamps, failed_tids, depends, fakeworker, state>>

\* It adds t to the very set that holds its dependencies.
build_taskdepdata(t) == depends' = [depends EXCEPT ![t] = @ \union {t}]

ExecuteLaunch(t) ==
  /\ sched_next(t)
  /\ MustRun(t)
  /\ t \notin NoExec
  /\ started' = started \union {t}
  /\ build_taskdepdata(t)
  /\ build_stamps' = build_stamps \union {t}
  /\ runq_running' = runq_running \union {t}
  /\ stats' = taskActive(stats)
  /\ fakeworker' = (fakeworker \/ t \in Fakeroot)
  /\ UNCHANGED <<runq_buildable, runq_complete, failed_tids, state, stampVars>>

\* The fakeroot worker for t cannot be spawned: t is neither running nor in
\* failed_tids, but is counted as a failure.
ExecuteSpawnFails(t) ==
  /\ sched_next(t)
  /\ MustRun(t)
  /\ t \in Fakeroot \ NoExec
  /\ ~fakeworker
  /\ started' = started \union {t}
  /\ build_taskdepdata(t)
  /\ stats' = taskFailed(stats)
  /\ state' = "Failed"
  /\ UNCHANGED <<runq_buildable, runq_running, runq_complete, build_stamps,
                 failed_tids, fakeworker, stampVars>>

\* The worker that t was to go to is dead: writing to it raises.
ExecuteWriteFails(t) ==
  /\ sched_next(t)
  /\ MustRun(t)
  /\ t \notin NoExec
  /\ started' = started \union {t}
  /\ build_taskdepdata(t)
  /\ fakeworker' = (fakeworker \/ t \in Fakeroot)
  /\ UNCHANGED <<runq_buildable, runq_running, runq_complete, build_stamps,
                 failed_tids, stats, state, stampVars>>

\* Nothing to start and nothing active: the queue is finished.
ExecuteFinished ==
  /\ sched_none
  /\ stats.active <= 0
  /\ state' = IF failed_tids # {} THEN "Failed" ELSE "Complete"
  /\ UNCHANGED <<queueVars, stampVars>>

\* The scheduler raises, and execute() with it.
ExecuteRaises ==
  /\ sched_raises
  /\ UNCHANGED <<queueVars, stampVars, state>>

\* execute_runqueue() has caught the exception and torn the workers down.
ExecuteAborted ==
  /\ state' = "Complete"
  /\ UNCHANGED <<queueVars, stampVars>>

-----------------------------------------------------------------------------
(* Setscene enforcement, in the first execute() *)

UnexpectedTask ==
  \E t \in NotWhitelisted : MustRun(t) /\ t \notin NoExec

\* Every task the scheduler still returns is skipped, then the run is over.
EnforceSkip(t) ==
  /\ sched_next(t)
  /\ task_skip(t)
  /\ UNCHANGED <<state, stampVars>>

EnforceDone ==
  /\ sched_none
  /\ state' = "CleanUp"
  /\ UNCHANGED <<queueVars, stampVars>>

-----------------------------------------------------------------------------
(* Stopping early *)

finish_without_waiting ==
  /\ state' = IF failed_tids # {} THEN "Failed" ELSE "Complete"
  /\ UNCHANGED <<queueVars, stampVars>>

\* finish() without the read_workers() it calls while tasks are active.
finish ==
  /\ state' = IF stats.active > 0 THEN "CleanUp"
              ELSE IF failed_tids # {} THEN "Failed" ELSE "Complete"
  /\ UNCHANGED <<queueVars, stampVars>>

finish_now ==
  /\ state' = IF failed_tids # {} THEN "Failed" ELSE "Complete"
  /\ UNCHANGED <<queueVars, stampVars>>
=============================================================================
