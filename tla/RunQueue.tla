------------------------------ MODULE RunQueue ------------------------------
(***************************************************************************)
(* The execution of a build, end to end: the idle function that the server *)
(* calls again and again (buildTargetsIdle), the stages of                 *)
(* _execute_runqueue it drives, the disk monitor, the workers with their   *)
(* pipes, and the shutdown commands of the user interface.  A call of the  *)
(* idle function is cut into the steps between which a worker can act.     *)
(***************************************************************************)
EXTENDS RunQueueExecute, BitbakeWorker, Functions

CONSTANTS
  Normal, Fake,    \* the two workers
  DiskActions,     \* the actions of BB_DISKMON_DIRS, at most one path each
  Shutdowns        \* the shutdown commands the user interface may send

ASSUME RunQueueAssumption ==
  /\ Worker = {Normal, Fake} /\ Normal # Fake
  /\ DiskActions \subseteq {"STOPTASKS", "ABORT"}
  /\ Shutdowns \subseteq {"shutdown", "forceshutdown"}

VARIABLES
  pc,              \* where the server is in the idle function
  reading,         \* what is left of read_workers() or teardown_workers()
  rq_workers,      \* the keys of self.worker and self.fakeworker
  cooker_state,    \* cooker.state
  dm_checked,      \* the disk actions that were taken (diskMonitor.checked)
  whitelist_checked,
  failures         \* what BuildCompleted says when pc = "done"

serverVars == <<state, queueVars, pc, reading, rq_workers, cooker_state,
                dm_checked, whitelist_checked, failures>>
vars == <<serverVars, workerVars, stampVars>>

Stages == {"idle", "check", "monitor", "execute", "enforce", "select", "cleanup",
           "end", "teardown", "raised", "return", "done", "quit"}

TypeOK ==
  /\ ExecuteTypeOK
  /\ StampTypeOK
  /\ WorkerTypeOK
  /\ pc \in Stages
  /\ reading \in Seq(Worker \X {"poll", "read"})
  /\ rq_workers \subseteq Worker
  /\ cooker_state \in {"running", "shutdown", "forceshutdown"}
  /\ dm_checked \subseteq DiskActions
  /\ whitelist_checked \in BOOLEAN
  /\ failures \in Nat

\* The setscene tasks are over: _execute_runqueue has just made the queue.
Init ==
  /\ state = "Running"
  /\ ExecuteInit
  /\ StampInit
  /\ WorkerInit({Normal})
  /\ pc = "execute"
  /\ reading = <<>>
  /\ rq_workers = {Normal}
  /\ cooker_state = "running"
  /\ dm_checked = {}
  /\ whitelist_checked = FALSE
  /\ failures = 0

-----------------------------------------------------------------------------
(* Reading the workers.  Each pipe is polled for dead workers, then read.  *)

At(stage) == pc = stage /\ reading = <<>>

Pipes(ws) == (IF Normal \in ws THEN <<Normal>> ELSE <<>>)
               \o (IF Fake \in ws THEN <<Fake>> ELSE <<>>)

read_workers ==
  LET ws == Pipes(rq_workers) IN
    [i \in 1..2 * Len(ws) |->
       <<ws[(i + 1) \div 2], IF i % 2 = 1 THEN "poll" ELSE "read">>]

Dead == {w \in rq_workers : process[w] = "dead"}

\* runQueuePipe.read() sees that a worker is gone.
PollWorkers ==
  /\ reading # <<>> /\ Head(reading)[2] = "poll"
  /\ IF Dead = {}
     THEN UNCHANGED <<state, queueVars, stampVars, stdin>>
     ELSE finish_now /\ stdin' = write(rq_workers, <<"finishnow">>)
  /\ reading' = Tail(reading)
  /\ UNCHANGED <<pc, rq_workers, cooker_state, dm_checked, whitelist_checked,
                 failures, process, stdout, build_pids, tokill, child>>

ReadExitcode ==
  /\ reading # <<>> /\ Head(reading)[2] = "read"
  /\ LET w == Head(reading)[1] IN
       /\ stdout[w] # <<>>
       /\ runqueue_process_waitpid(Head(stdout[w]), child[Head(stdout[w])] = "ok")
       /\ stdout' = [stdout EXCEPT ![w] = Tail(@)]
  /\ UNCHANGED <<stampVars, pc, reading, rq_workers, cooker_state, dm_checked,
                 whitelist_checked, failures, process, stdin, build_pids,
                 tokill, child>>

ReadDone ==
  /\ pc \notin {"teardown", "raised"}
  /\ reading # <<>> /\ Head(reading)[2] = "read"
  /\ stdout[Head(reading)[1]] = <<>>
  /\ reading' = Tail(reading)
  /\ UNCHANGED <<state, queueVars, stampVars, workerVars, pc, rq_workers,
                 cooker_state, dm_checked, whitelist_checked, failures>>

\* finish() reads the workers while tasks are active.
FinishReads ==
  reading' = IF stats.active > 0 THEN read_workers ELSE <<>>

-----------------------------------------------------------------------------
(* The stages before execute() *)

BuildTargetsIdle ==
  /\ At("idle")
  /\ CASE cooker_state = "forceshutdown" ->
            /\ finish_now
            /\ stdin' = write(rq_workers, <<"finishnow">>)
            /\ UNCHANGED reading
       [] cooker_state = "shutdown" ->
            finish /\ FinishReads /\ UNCHANGED stdin
       [] OTHER -> UNCHANGED <<state, queueVars, stampVars, stdin, reading>>
  /\ pc' = "check"
  /\ UNCHANGED <<rq_workers, cooker_state, dm_checked, whitelist_checked,
                 failures, process, stdout, build_pids, tokill, child>>

MonitorBegin ==
  /\ At("check")
  /\ pc' = IF state \in {"Running", "CleanUp"} THEN "monitor" ELSE "execute"
  /\ UNCHANGED <<state, queueVars, stampVars, workerVars, reading, rq_workers,
                 cooker_state, dm_checked, whitelist_checked, failures>>

\* The loop of diskMonitor.check finds a path below its limit.
DiskFull(action) ==
  /\ At("monitor")
  /\ action \in DiskActions \ dm_checked
  /\ dm_checked' = dm_checked \union {action}
  /\ IF action = "ABORT"
     THEN /\ finish_now
          /\ stdin' = write(rq_workers, <<"finishnow">>)
          /\ UNCHANGED reading
     ELSE finish /\ FinishReads /\ UNCHANGED stdin
  /\ UNCHANGED <<pc, rq_workers, cooker_state, whitelist_checked, failures,
                 process, stdout, build_pids, tokill, child>>

MonitorEnd ==
  /\ At("monitor")
  /\ pc' = "execute"
  /\ UNCHANGED <<state, queueVars, stampVars, workerVars, reading, rq_workers,
                 cooker_state, dm_checked, whitelist_checked, failures>>

-----------------------------------------------------------------------------
(* execute() *)

WorkerOf(t) == IF t \in Fakeroot THEN Fake ELSE Normal

\* A faulty variant, to try the properties with.
ExecuteBegin_in_any_state ==
  /\ At("execute")
  /\ whitelist_checked' = TRUE
  /\ pc' = "select"
  /\ reading' = read_workers
  /\ UNCHANGED <<state, queueVars, stampVars, workerVars, rq_workers,
                 cooker_state, dm_checked, failures>>

ExecuteBegin ==
  /\ At("execute")
  /\ IF state # "Running"
     THEN pc' = "cleanup" /\ UNCHANGED <<reading, whitelist_checked>>
     ELSE /\ whitelist_checked' = TRUE
          /\ IF ~whitelist_checked /\ UnexpectedTask
             THEN pc' = "enforce" /\ UNCHANGED reading
             ELSE pc' = "select" /\ reading' = read_workers
  /\ UNCHANGED <<state, queueVars, stampVars, workerVars, rq_workers,
                 cooker_state, dm_checked, failures>>

Enforce ==
  /\ At("enforce")
  /\ \/ (\E t \in Task : EnforceSkip(t)) /\ UNCHANGED pc
     \/ EnforceDone /\ pc' = "cleanup"
  /\ UNCHANGED <<workerVars, reading, rq_workers, cooker_state, dm_checked,
                 whitelist_checked, failures>>

\* The outcomes of execute() that touch no worker.
ExecuteHere ==
  /\ At("select")
  /\ \/ \E t \in Task : ExecuteSkip(t) \/ ExecuteNoExec(t) \/ ExecuteSpawnFails(t)
     \/ ExecuteFinished
  /\ pc' = "cleanup"
  /\ UNCHANGED <<workerVars, reading, rq_workers, cooker_state, dm_checked,
                 whitelist_checked, failures>>

\* t goes to its worker, the fakeroot worker being started for the first task
\* that needs it.  With every slot taken execute() goes on to wait.
ExecuteLaunchOn(t) ==
  /\ At("select")
  /\ ExecuteLaunch(t)
  /\ LET w == WorkerOf(t)
         starts == IF w = Fake /\ ~fakeworker THEN {Fake} ELSE {} IN
       /\ process[w] # "dead"
       /\ process' = [u \in Worker |-> IF u \in starts THEN "up" ELSE process[u]]
       /\ rq_workers' = rq_workers \union starts
       /\ stdin' = [stdin EXCEPT ![w] = Append(@, <<"runtask", t>>)]
  /\ reading' = IF stats'.active < NumberTasks THEN <<>> ELSE read_workers'
  /\ pc' = "cleanup"
  /\ UNCHANGED <<stdout, build_pids, tokill, child, cooker_state, dm_checked,
                 whitelist_checked, failures>>

ExecuteWait ==
  /\ At("select")
  /\ sched_none
  /\ stats.active > 0
  /\ reading' = read_workers
  /\ pc' = "cleanup"
  /\ UNCHANGED <<state, queueVars, stampVars, workerVars, rq_workers,
                 cooker_state, dm_checked, whitelist_checked, failures>>

-----------------------------------------------------------------------------
(* The stages after execute() *)

\* Without a worker to wait for, finish() returns an empty list, which the idle
\* function takes for the end of the build.
CleanUp ==
  /\ At("cleanup")
  /\ IF state = "CleanUp"
     THEN /\ finish
          /\ FinishReads
          /\ pc' = IF stats.active > 0 /\ rq_workers = {} THEN "done" ELSE "end"
     ELSE pc' = "end" /\ UNCHANGED <<state, queueVars, stampVars, reading>>
  /\ UNCHANGED <<workerVars, rq_workers, cooker_state, dm_checked,
                 whitelist_checked, failures>>

\* teardown_workers(): each worker in turn is told to quit and read until it is
\* gone.  Nobody looks for unexpected deaths any more.
Quitting(ws) == [i \in DOMAIN ws |-> <<ws[i], "read">>]
\* A faulty variant, to try the properties with.
WriteQuit_never(todo) == stdin

WriteQuit(todo) ==
  IF todo = <<>> THEN stdin ELSE write({Head(todo)[1]}, <<"quit">>)

StartTeardown(stage) ==
  /\ reading' = Quitting(Pipes(rq_workers))
  /\ stdin' = WriteQuit(reading')
  /\ pc' = stage

End ==
  /\ At("end")
  /\ IF state \in {"Complete", "Failed"}
     THEN StartTeardown("teardown")
     ELSE pc' = "idle" /\ UNCHANGED <<reading, stdin>>
  /\ UNCHANGED <<state, queueVars, stampVars, process, stdout, build_pids, tokill,
                 child, rq_workers, cooker_state, dm_checked, whitelist_checked,
                 failures>>

WorkerGone ==
  /\ pc \in {"teardown", "raised"}
  /\ reading # <<>>
  /\ LET w == Head(reading)[1] IN process[w] = "dead" /\ stdout[w] = <<>>
  /\ reading' = Tail(reading)
  /\ stdin' = WriteQuit(reading')
  /\ UNCHANGED <<state, queueVars, stampVars, process, stdout, build_pids, tokill,
                 child, pc, rq_workers, cooker_state, dm_checked,
                 whitelist_checked, failures>>

TeardownDone ==
  /\ At("teardown")
  /\ rq_workers' = {}
  /\ pc' = "return"
  /\ UNCHANGED <<state, queueVars, stampVars, workerVars, reading, cooker_state,
                 dm_checked, whitelist_checked, failures>>

\* TaskFailure carries failed_tids, and BuildCompleted counts its arguments.
\* An exit code read during the teardown may have set the state to CleanUp.
Return ==
  /\ At("return")
  /\ CASE state = "Failed" -> pc' = "done" /\ failures' = Cardinality(failed_tids)
       [] state = "Complete" -> pc' = "done" /\ failures' = 0
       [] OTHER -> pc' = "idle" /\ UNCHANGED failures
  /\ UNCHANGED <<state, queueVars, stampVars, workerVars, reading, rq_workers,
                 cooker_state, dm_checked, whitelist_checked>>

-----------------------------------------------------------------------------
(* Exceptions *)

ExecuteException ==
  /\ pc \in {"select", "enforce"} /\ reading = <<>>
  /\ \/ ExecuteRaises
     \/ \E t \in Task : /\ pc = "select"
                        /\ ExecuteWriteFails(t)
                        /\ process[WorkerOf(t)] = "dead"
  /\ StartTeardown("raised")
  /\ UNCHANGED <<process, stdout, build_pids, tokill, child, rq_workers,
                 cooker_state, dm_checked, whitelist_checked, failures>>

\* idle_commands() drops the idle function and ends the server.
ExceptionHandled ==
  /\ At("raised")
  /\ ExecuteAborted
  /\ rq_workers' = {}
  /\ pc' = "quit"
  /\ UNCHANGED <<workerVars, reading, cooker_state, dm_checked,
                 whitelist_checked, failures>>

-----------------------------------------------------------------------------

Command(cmd) ==
  /\ At("idle")
  /\ cmd \in Shutdowns
  /\ cooker_state' = cmd
  /\ UNCHANGED <<state, queueVars, stampVars, workerVars, pc, reading, rq_workers,
                 dm_checked, whitelist_checked, failures>>

Server ==
  \/ PollWorkers \/ ReadExitcode \/ ReadDone
  \/ BuildTargetsIdle \/ MonitorBegin \/ MonitorEnd
  \/ \E action \in DiskActions : DiskFull(action)
  \/ ExecuteBegin \/ Enforce \/ ExecuteHere \/ ExecuteWait
  \/ \E t \in Task : ExecuteLaunchOn(t)
  \/ CleanUp \/ End \/ WorkerGone \/ TeardownDone \/ Return
  \/ ExecuteException \/ ExceptionHandled

Next ==
  \/ Server
  \/ \E cmd \in Shutdowns : Command(cmd)
  \/ \E w \in Worker :
       \/ Serve(w) /\ UNCHANGED serverVars
       \/ WorkerDies(w) /\ UNCHANGED serverVars
  \/ \E t \in Task : TaskProcess(t) /\ UNCHANGED serverVars

Spec == Init /\ [][Next]_vars

\* The server's loop, the loops of the workers and the task processes all go
\* on; no command, full disk or death of a worker has to come.
FairSpec ==
  /\ Spec
  /\ WF_vars(Server)
  /\ \A w \in Worker : WF_vars(Serve(w) /\ UNCHANGED serverVars)
  /\ \A t \in Task : WF_vars(TaskProcess(t) /\ UNCHANGED serverVars)

-----------------------------------------------------------------------------
(* Properties *)

\* Where the order to run t, its process or its exit code is.
Places(t) ==
  {p \in Worker \X {"stdin", "build_pids", "stdout"} :
     \/ p[2] = "stdin" /\ <<"runtask", t>> \in Range(stdin[p[1]])
     \/ p[2] = "build_pids" /\ t \in build_pids[p[1]]
     \/ p[2] = "stdout" /\ t \in Range(stdout[p[1]])}

\* Unless a worker is killed or told to finish now, each task in build_stamps
\* is on its way in one place: its exit code will come, and come once.
ExitcodeTracked ==
  \A t \in Task : Cardinality(Places(t)) = IF t \in build_stamps THEN 1 ELSE 0

\* However the build is stopped, no exit code can arrive that the queue does
\* not expect (runqueue_process_waitpid never sees a task twice).
NoStrayExitcode ==
  \A t \in Task : Cardinality(Places(t)) <= IF t \in build_stamps THEN 1 ELSE 0

Alive == {t \in Task : child[t] \in Running}

\* What runs on the machine, not what the server counts: never more than
\* BB_NUMBER_THREADS processes, no two of one stamp, each after all it needs.
ProcessesInOrder ==
  /\ Cardinality(Alive) <= NumberTasks
  /\ \A t, u \in Alive : StampNoExtra[t] = StampNoExtra[u] => t = u
  /\ \A t \in Alive : \A d \in Depends[t] : child[d] \in {"none", "ok"}

SpawnFailed == stats.failed > Cardinality(failed_tids)

\* A build that is stopped in good order, or not at all, ends after its last
\* process, and BuildCompleted counts each of the failures.
CompletedTellsAll ==
  pc = "done" /\ ~SpawnFailed =>
    /\ Alive = {}
    /\ failures = Cardinality({t \in Task : child[t] = "failed"})

\* BuildBase.getFailures(): "Return the number of failed packages".  A failure
\* that the statistics count is not reported as a success.
FailuresReported == pc = "done" /\ stats.failed > 0 => failures > 0

\* The build ends, whatever fails, and whoever stops it in whatever way.
BuildEnds == <>(pc \in {"done", "quit"})

\* "ABORT: Immediately abort the build when a threshold is broken"
\* (BB_DISKMON_DIRS): a build the disk monitor aborts does end.
AbortEnds == "ABORT" \in dm_checked ~> pc \in {"done", "quit"}

\* Where the task queue is, and what the workers have for it, in the words of
\* RunQueueExecuteTasks.
queuePc == IF pc = "select" THEN "execute"
           ELSE IF pc \in {"enforce", "raised"} THEN pc ELSE "idle"
exitcode == [t \in Task |-> IF child[t] \in Ended THEN child[t] ELSE "none"]

TaskQueue == INSTANCE RunQueueExecuteTasks WITH pc <- queuePc

\* The whole keeps the task queue's own specification, so that what is proved
\* of it holds here too.
ImplementsTaskQueue == TaskQueue!Spec
=============================================================================
