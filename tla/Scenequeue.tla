----------------------------- MODULE Scenequeue -----------------------------
(***************************************************************************)
(* The setscene stage: RunQueueExecuteScenequeue and the coverage that     *)
(* RunQueueExecuteTasks.__init__ works out from its results                *)
(* (lib/bb/runqueue.py).  execute() is called from the idle loop; the      *)
(* setscene tasks run in a worker, whose reports are read inside execute() *)
(* and finish().  A definition with a suffix is a faulty variant of its    *)
(* namesake, with which the properties are tried.                          *)
(***************************************************************************)
EXTENDS ScenequeueGraph

CONSTANTS
  RunQueue,      \* the run queues to start from: records with
                 \*   depends, scene, hard   the graph, see ScenequeueGraph
                 \*   targets                target_tids
                 \*   hashvalidate           BB_HASHCHECK_FUNCTION is set
                 \*   force                  -f
                 \*   forbidden              setscene tasks BB_SETSCENE_ENFORCE
                 \*                          lets not fail
  NumberTasks    \* BB_NUMBER_THREADS

ASSUME RunQueueAssumption ==
  /\ NumberTasks \in Nat \ {0}
  /\ \A q \in RunQueue :
       /\ q.depends \in [DOMAIN q.depends -> SUBSET DOMAIN q.depends]
       /\ \A T \in SUBSET DOMAIN q.depends :   \* prepare() refuses cycles
            T # {} => \E t \in T : \A u \in T : t \notin q.depends[u]
       /\ q.scene \subseteq DOMAIN q.depends
       /\ q.hard \subseteq q.scene \X q.scene
       /\ \A T \in SUBSET q.scene :   \* no circular [depends] of setscene tasks
            T # {} => \E t \in T : \A u \in T : <<u, t>> \notin q.hard
       /\ q.forbidden \subseteq q.scene

VARIABLES
  queue,         \* the member of RunQueue of this build
  noexec,        \* setscene tasks with the noexec flag
  current,       \* tasks whose own stamp is current, dependencies included
  stamp_setscene,\* tasks with a _setscene stamp
  state,         \* RunQueue.state
  pc,            \* where the server is
  buildable, running,     \* runq_buildable, runq_running
  waiting,       \* sq_revdeps2: what a task still waits for
  covered, notcovered, notneeded,   \* scenequeue_covered, ...
  outrightfail,
  launched,      \* tasks with the worker: stats.active is their number
  exitcode,      \* what the worker has to report
  initial_covered,
  todo           \* tasks the loop at hand has still to look at

queueVars == <<queue, noexec, current>>
setVars == <<buildable, running, waiting, covered, notcovered, notneeded, launched>>
coverVars == <<initial_covered, todo>>
vars == <<graphVars, queueVars, stamp_setscene, state, pc, setVars, outrightfail,
          exitcode, coverVars>>

TypeOK ==
  /\ queue \in RunQueue
  /\ state \in {"SceneInit", "SceneRun", "CleanUp", "RunInit", "Running", "Complete"}
  /\ pc \in {"init", "idle", "execute", "reading", "cover", "verify", "remove", "end"}
  /\ buildable \subseteq setscene /\ running \subseteq setscene
  /\ covered \subseteq Tids /\ notcovered \subseteq setscene
  /\ notneeded \subseteq covered \union initial_covered
  /\ launched \subseteq running
  /\ outrightfail \subseteq setscene
  /\ stamp_setscene \subseteq Tids
  /\ todo \subseteq Tids /\ initial_covered \subseteq setscene

Init ==
  /\ queue \in RunQueue
  /\ depends = queue.depends
  /\ GraphInit
  /\ \E kind \in [queue.scene -> {"nothing", "noexec", "stamped", "current"}] :
       /\ noexec = {t \in queue.scene : kind[t] = "noexec"}
       /\ stamp_setscene = {t \in queue.scene : kind[t] = "stamped"}
       /\ current = {t \in queue.scene : kind[t] = "current"}
  /\ state = "SceneInit"
  /\ pc = "init"
  /\ buildable = {} /\ running = {} /\ waiting = <<>>
  /\ covered = {} /\ notcovered = {} /\ notneeded = {}
  /\ outrightfail = {} /\ launched = {} /\ exitcode = <<>>
  /\ initial_covered = {} /\ todo = {}

-----------------------------------------------------------------------------
(* __init__ *)

Begin ==
  /\ state = "SceneInit"
  /\ queue.scene # {}
  /\ GraphStart(queue.scene, queue.hard)
  /\ UNCHANGED <<queueVars, stamp_setscene, state, pc, setVars, outrightfail,
                 exitcode, coverVars>>

\* Without a setscene task the stage is left at once.
BeginNone ==
  /\ state = "SceneInit"
  /\ queue.scene = {}
  /\ state' = "RunInit"
  /\ pc' = "idle"
  /\ UNCHANGED <<graphVars, queueVars, stamp_setscene, setVars, outrightfail,
                 exitcode, coverVars>>

Collapse ==
  /\ GraphNext
  /\ UNCHANGED <<queueVars, stamp_setscene, state, pc, setVars, outrightfail,
                 exitcode, coverVars>>

HardClosed(S) == \A p \in harddeps : p[1] \in S => p[2] \in S

\* The tasks a failure of t takes down: those it is a hard dependency of, and
\* so on.  They are not marked as not covered, and nothing buildable ever again.
FailsWith(t) ==
  {u \in setscene : \A S \in SUBSET setscene : t \in S /\ HardClosed(S) => u \in S}

HardOf(u, d) == <<u, d>> \in harddeps

\* scenequeue_updatecounters(), for the tasks of done: the others wait for one
\* less.  A hard dependent of a task that failed goes on waiting for it.
updatecounters_ignores_hard(done, fail, ready) ==
  LET gone(d) == done \intersect waiting[d] IN
    /\ waiting' = [d \in setscene |-> waiting[d] \ gone(d)]
    /\ buildable' = ready \union {d \in setscene : gone(d) # {} /\ waiting[d] \subseteq done}

updatecounters(done, fail, ready) ==
  LET gone(d) == {u \in done \intersect waiting[d] : ~(fail /\ HardOf(u, d))}
      rest(d) == waiting[d] \ gone(d)
  IN
    /\ waiting' = [d \in setscene |-> rest(d)]
    /\ buildable' = ready \union {d \in setscene : gone(d) # {} /\ rest(d) = {}}

Stamped == noexec \union stamp_setscene \union current

\* The hash check, when there is one: what is stamped or has nothing to execute
\* is skipped, and the function says which of the others may be obtained.
SceneInitDone ==
  /\ state = "SceneInit"
  /\ pass = "ready"
  /\ state' = "SceneRun"
  /\ pc' = "idle"
  /\ IF queue.hashvalidate
     THEN /\ covered' = Stamped
          /\ running' = Stamped
          /\ LET none == {d \in setscene : squash[d] = {}} IN
               /\ waiting' = [d \in setscene |-> squash[d] \ Stamped]
               /\ buildable' = none \union Stamped
                    \union {d \in setscene : waiting'[d] = {}}
          /\ stamp_setscene' = stamp_setscene \union noexec
          /\ \E valid \in SUBSET (setscene \ Stamped) :
               outrightfail' = (setscene \ Stamped) \ valid
     ELSE /\ waiting' = squash
          /\ buildable' = {d \in setscene : squash[d] = {}}
          /\ UNCHANGED <<covered, running, stamp_setscene, outrightfail>>
  /\ UNCHANGED <<graphVars, queueVars, notcovered, notneeded, launched, exitcode,
                 coverVars>>

-----------------------------------------------------------------------------
(* Completing, failing and skipping setscene tasks *)

\* Faulty variants, to try the properties with.
task_skip_not_running(t) ==
  /\ covered' = covered \union {t}
  /\ updatecounters({t}, FALSE, buildable \union {t})
  /\ UNCHANGED <<running, notcovered, launched>>

task_failoutright_not_counted(t) ==
  /\ running' = running \union {t}
  /\ notcovered' = notcovered \union {t}
  /\ UNCHANGED <<buildable, waiting, covered, launched>>

task_skip(t) ==
  /\ running' = running \union {t}
  /\ covered' = covered \union {t}
  /\ updatecounters({t}, FALSE, buildable \union {t})
  /\ UNCHANGED <<notcovered, launched>>

task_failoutright(t) ==
  /\ running' = running \union {t}
  /\ notcovered' = notcovered \union {t}
  /\ updatecounters(FailsWith(t), TRUE, buildable \union {t})
  /\ UNCHANGED <<covered, launched>>

task_complete(t) ==
  /\ covered' = covered \union {t}
  /\ updatecounters({t}, FALSE, buildable)
  /\ UNCHANGED <<notcovered, state>>

\* check_taskfail: a failure the enforcement does not allow ends the build.
task_fail(t) ==
  /\ notcovered' = notcovered \union {t}
  /\ updatecounters(FailsWith(t), TRUE, buildable)
  /\ state' = IF t \in queue.forbidden THEN "CleanUp" ELSE state
  /\ UNCHANGED covered

\* read_workers(), at the start of execute() and while it or finish() waits.
ProcessWaitpid(t) ==
  /\ pc \in {"execute", "reading"}
  /\ t \in launched
  /\ t \in DOMAIN exitcode
  /\ launched' = launched \ {t}
  /\ IF exitcode[t] = "ok" THEN task_complete(t) ELSE task_fail(t)
  /\ UNCHANGED <<graphVars, queueVars, stamp_setscene, pc, running, notneeded,
                 outrightfail, exitcode, coverVars>>

\* A setscene task that succeeds is stamped by its worker.
WorkerEnds(t, code) ==
  /\ t \in launched \ DOMAIN exitcode
  /\ exitcode' = [u \in {t} \union DOMAIN exitcode |-> IF u = t THEN code ELSE exitcode[u]]
  /\ stamp_setscene' = stamp_setscene \union (IF code = "ok" THEN {t} ELSE {})
  /\ UNCHANGED <<graphVars, queueVars, state, pc, setVars, outrightfail, coverVars>>

-----------------------------------------------------------------------------
(* execute() *)

ExecuteBegin ==
  /\ pc = "idle"
  /\ state = "SceneRun"
  /\ pc' = "execute"
  /\ UNCHANGED <<graphVars, queueVars, stamp_setscene, state, setVars, outrightfail,
                 exitcode, coverVars>>

\* The loop over runq_setscene_tids stops at the first of these, in an order
\* prepare() happened to leave them in.
Candidates ==
  IF Cardinality(launched) < NumberTasks THEN buildable \ running ELSE {}

\* All that depends on t has been obtained: whether that makes t superfluous is
\* for the metadata to say (BB_SETSCENE_DEPVALID).
MayBeNotNeeded_unskippable_too(t) == squash[t] # {} /\ squash[t] \subseteq covered
MayBeNotNeeded(t) ==
  t \notin unskippable /\ squash[t] # {} /\ squash[t] \subseteq covered

ExecuteSkipNotNeeded(t) ==
  /\ MayBeNotNeeded(t)
  /\ t \notin queue.targets
  /\ task_skip(t)
  /\ notneeded' = notneeded \union {t}
  /\ UNCHANGED <<stamp_setscene, state>>

FailsOutright(t) ==
  \/ t \in outrightfail
  \/ t \in current
  \/ queue.force /\ t \in queue.targets

ExecuteFailOutright(t) ==
  /\ FailsOutright(t)
  /\ task_failoutright(t)
  /\ UNCHANGED <<stamp_setscene, state, notneeded>>

ExecuteSkipStamped(t) ==
  /\ ~FailsOutright(t)
  /\ t \in stamp_setscene
  /\ task_skip(t)
  /\ UNCHANGED <<stamp_setscene, state, notneeded>>

ExecuteLaunch_not_running(t) ==
  /\ ~FailsOutright(t)
  /\ t \notin stamp_setscene
  /\ launched' = launched \union {t}
  /\ UNCHANGED <<running, buildable, waiting, covered, notcovered, notneeded,
                 stamp_setscene, state>>

ExecuteLaunch(t) ==
  /\ ~FailsOutright(t)
  /\ t \notin stamp_setscene
  /\ running' = running \union {t}
  /\ launched' = launched \union {t}
  /\ UNCHANGED <<buildable, waiting, covered, notcovered, notneeded, stamp_setscene, state>>

\* With the last slot taken execute() goes on to read what the workers report.
ExecuteTask(t) ==
  /\ pc = "execute"
  /\ t \in Candidates
  /\ \/ ExecuteSkipNotNeeded(t) \/ ExecuteFailOutright(t)
     \/ ExecuteSkipStamped(t) \/ ExecuteLaunch(t)
  /\ pc' = IF launched' # launched /\ Cardinality(launched') >= NumberTasks
           THEN "reading" ELSE "idle"
  /\ UNCHANGED <<graphVars, queueVars, outrightfail, exitcode, coverVars>>

ExecuteWait ==
  /\ pc = "execute"
  /\ Candidates = {}
  /\ launched # {}
  /\ pc' = "reading"
  /\ UNCHANGED <<graphVars, queueVars, stamp_setscene, state, setVars, outrightfail,
                 exitcode, coverVars>>

ReadingEnd ==
  /\ pc = "reading"
  /\ pc' = "idle"
  /\ UNCHANGED <<graphVars, queueVars, stamp_setscene, state, setVars, outrightfail,
                 exitcode, coverVars>>

\* The queue is done: on to the tasks, whatever state the read at the start of
\* this very call has set.
ExecuteFinished ==
  /\ pc = "execute"
  /\ Candidates = {}
  /\ launched = {}
  /\ state' = "RunInit"
  /\ pc' = "idle"
  /\ UNCHANGED <<graphVars, queueVars, stamp_setscene, setVars, outrightfail,
                 exitcode, coverVars>>

\* finish(), called for the disk monitor, a shutdown or the state CleanUp: there
\* is never a failed task to report.
Finish ==
  /\ pc = "idle"
  /\ state \in {"SceneRun", "CleanUp"}
  /\ state' = IF launched # {} THEN "CleanUp" ELSE "Complete"
  /\ pc' = IF launched # {} THEN "reading" ELSE "idle"
  /\ UNCHANGED <<graphVars, queueVars, stamp_setscene, setVars, outrightfail,
                 exitcode, coverVars>>

\* finish_now(), for a forced shutdown or the death of the worker.
finish_now ==
  /\ pc \in {"idle", "reading"}
  /\ state \in {"SceneRun", "CleanUp"}
  /\ state' = "Complete"
  /\ pc' = "idle"
  /\ UNCHANGED <<graphVars, queueVars, stamp_setscene, setVars, outrightfail,
                 exitcode, coverVars>>

-----------------------------------------------------------------------------
(* RunQueueExecuteTasks.__init__: what the setscene tasks cover *)

AllDependentsCovered(t, done) == RevDepsOf(t) # {} /\ RevDepsOf(t) \subseteq done

RunInit ==
  /\ pc = "idle"
  /\ state = "RunInit"
  /\ state' = "Running"
  /\ pc' = "cover"
  /\ initial_covered' = covered
  /\ todo' = Tids
  /\ UNCHANGED <<graphVars, queueVars, stamp_setscene, setVars, outrightfail, exitcode>>

\* The first loop, in the order of the dictionary: it also takes tasks whose
\* setscene task failed.
CoverOne(t) ==
  /\ pc = "cover"
  /\ t \in todo
  /\ todo' = todo \ {t}
  /\ covered' = IF AllDependentsCovered(t, covered) THEN covered \union {t} ELSE covered
  /\ UNCHANGED <<graphVars, queueVars, stamp_setscene, state, pc, buildable, running,
                 waiting, notcovered, notneeded, launched, outrightfail, exitcode,
                 initial_covered>>

\* The second loop, repeated until nothing is added, skips those.
CoverClosed(S) ==
  \A t \in Tids \ notcovered : AllDependentsCovered(t, S) => t \in S

CoverRest(done) ==
  {t \in Tids : \A S \in SUBSET Tids : done \subseteq S /\ CoverClosed(S) => t \in S}

CoverAll ==
  /\ pc = "cover"
  /\ todo = {}
  /\ covered' = CoverRest(covered)
  /\ pc' = "verify"
  /\ UNCHANGED <<graphVars, queueVars, stamp_setscene, state, buildable, running, waiting,
                 notcovered, notneeded, launched, outrightfail, exitcode, coverVars>>

\* BB_SETSCENE_VERIFY_FUNCTION2 wants some of the covered tasks to run.
Verify ==
  /\ pc = "verify"
  /\ \E remove \in SUBSET (covered \intersect setscene) : todo' = remove
  /\ pc' = "remove"
  /\ UNCHANGED <<graphVars, queueVars, stamp_setscene, state, setVars, outrightfail,
                 exitcode, initial_covered>>

\* What a task to run depends on has to run too, unless it was obtained.
ToRunToo(t) == (depends[t] \intersect covered) \ (todo \union initial_covered)

RemoveLevel ==
  /\ pc = "remove"
  /\ stamp_setscene' = stamp_setscene \ todo
  /\ covered' = covered \ todo
  /\ todo' = UNION {ToRunToo(t) : t \in todo}
  /\ pc' = IF todo' = {} THEN "end" ELSE "remove"
  /\ UNCHANGED <<graphVars, queueVars, state, buildable, running, waiting, notcovered,
                 notneeded, launched, outrightfail, exitcode, initial_covered>>

-----------------------------------------------------------------------------

Next ==
  \/ Begin \/ BeginNone \/ Collapse \/ SceneInitDone
  \/ ExecuteBegin \/ ExecuteWait \/ ReadingEnd \/ ExecuteFinished
  \/ Finish \/ finish_now
  \/ \E t \in setscene :
       \/ ProcessWaitpid(t) \/ ExecuteTask(t)
       \/ \E code \in {"ok", "failed"} : WorkerEnds(t, code)
  \/ RunInit \/ CoverAll \/ Verify \/ RemoveLevel
  \/ \E t \in Tids : CoverOne(t)

Spec == Init /\ [][Next]_vars

\* The idle loop calls again and again, each loop of __init__ goes on, and every
\* setscene task ends at some time; nobody has to stop the build.
FairSpec ==
  /\ Spec
  /\ WF_vars(Begin \/ BeginNone \/ Collapse \/ SceneInitDone)
  /\ WF_vars(ExecuteBegin) /\ WF_vars(ExecuteWait) /\ WF_vars(ReadingEnd)
  /\ WF_vars(ExecuteFinished) /\ WF_vars(state = "CleanUp" /\ Finish)
  /\ WF_vars(\E t \in setscene : ExecuteTask(t))
  /\ SF_vars(\E t \in setscene : ProcessWaitpid(t))
  /\ WF_vars(\E t \in setscene, code \in {"ok", "failed"} : WorkerEnds(t, code))
  /\ WF_vars(RunInit \/ CoverAll \/ Verify \/ RemoveLevel \/ \E t \in Tids : CoverOne(t))

-----------------------------------------------------------------------------
(* Properties *)

\* Tasks that were never tried because a hard dependency of theirs failed.
Failed == UNION {FailsWith(t) : t \in notcovered}
HardFailed == Failed \ running
Decided == covered \union notcovered \union HardFailed

\* A setscene task is tried only once every setscene task it would serve is
\* decided, so that nothing is obtained in vain, and never after a setscene task
\* its own [depends] names has failed (scenequeue_updatecounters).
LaunchOrder ==
  \A t \in launched : squash[t] \subseteq Decided /\ HardFor(t) \subseteq covered

\* When the stage hands over, every setscene task is decided, one way only: none
\* is lost between the counters, the skips and the failures.
AllDecided ==
  state = "RunInit" =>
    /\ setscene \subseteq Decided
    /\ covered \intersect notcovered = {}
    /\ launched = {}

Available == current \union stamp_setscene \union noexec

WillRun == Tids \ (covered \union current)

Missing(t) == (depends[t] \intersect covered) \ Available

\* "It is pointless to obtain a compiler if you already have the compiled
\* binary": a task may be covered without being there, but then nothing that
\* will run depends on it; and the tasks the metadata elects to run anyway miss
\* at most what was skipped as unneeded while they were still covered.
InputsAvailable ==
  \A t \in WillRun :
    /\ pc = "verify" => Missing(t) = {}
    /\ pc = "end" => Missing(t) \subseteq notneeded

\* The stage ends, and with it the start of the task queue.
SceneEnds == <>(pc = "end" \/ state = "Complete")

-----------------------------------------------------------------------------
(* The inductive invariant behind LaunchOrder and AllDecided *)

PointsAbove(ps) ==
  \A t \in DOMAIN ps : t \in Tids /\ ps[t] \subseteq setscene \intersect Above(t)

SquashAbove(sq) ==
  sq \in [Tids -> SUBSET setscene] /\ \A t \in Tids : sq[t] \subseteq Above(t)

\* Waiting goes up the dependencies, or along the [depends] of setscene tasks.
Resolved ==
  /\ squash \in [setscene -> SUBSET setscene]
  /\ \A t \in setscene :
       /\ HardFor(t) \subseteq squash[t]
       /\ squash[t] \subseteq HardFor(t) \union (IF IsHard(t) THEN {} ELSE Above(t))

GraphInv ==
  /\ depends = queue.depends
  /\ noexec \union stamp_setscene \union current \subseteq queue.scene
  /\ pass \in {"none", "squash", "unskippable", "resolve", "ready"}
  /\ pass = "none" => setscene = {} /\ harddeps = {}
  /\ pass # "none" => setscene = queue.scene /\ harddeps = queue.hard /\ setscene # {}
  /\ pass = "squash" => PointsAbove(points) /\ PointsAbove(newpoints) /\ SquashAbove(new)
  /\ pass \in {"unskippable", "resolve"} => SquashAbove(squash)
  /\ pass = "ready" => Resolved

StageInv ==
  /\ pc = "init" <=> state = "SceneInit"
  /\ state = "SceneInit" =>
       buildable = {} /\ running = {} /\ covered = {} /\ notcovered = {} /\ launched = {}
  /\ state # "SceneInit" => pass \in {"none", "ready"}
  /\ pc \in {"execute", "reading"} => state \in {"SceneRun", "CleanUp"}
  /\ pc \in {"cover", "verify", "remove", "end"} <=> state = "Running"
  /\ state \in {"RunInit", "Running"} => launched = {}
  /\ state = "RunInit" => buildable \subseteq running
  /\ state # "Running" => covered \subseteq setscene /\ notneeded \subseteq covered
  /\ state = "Running" => notneeded \subseteq initial_covered

\* A task started is with the worker, covered or not, and only one of these.
Parts ==
  state # "Running" =>
    /\ running = covered \union notcovered \union launched
    /\ covered \intersect notcovered = {}
    /\ launched \intersect (covered \union notcovered) = {}

\* What a task waits for is what is not decided, and its own hard dependencies
\* as long as they are not covered; a task is buildable when that is nothing.
WaitingFor(d) == {u \in squash[d] : u \notin covered /\ (u \in Failed => HardOf(u, d))}

Counters ==
  state \notin {"SceneInit", "Running"} =>
    \A d \in setscene :
      /\ waiting[d] = WaitingFor(d)
      /\ waiting[d] = {} => d \in buildable
      /\ d \in buildable => d \in running \/ waiting[d] = {}
      /\ d \in launched => waiting[d] = {}

IInv == TypeOK /\ GraphInv /\ StageInv /\ Parts /\ Counters

\* Where nothing is skipped at the start, what is tried has its hard
\* dependencies, and so no failure takes down a task that was tried.
HardDepsFirst ==
  state # "Running" /\ ~queue.hashvalidate =>
    \A u \in covered \union launched : HardFor(u) \subseteq covered

-----------------------------------------------------------------------------
(* The inductive invariant behind InputsAvailable *)

\* What an endpoint has to hand on, and the endpoints there are.
Gathered(x) == new[x] \union (IF x \in DOMAIN points THEN points[x] ELSE {})
Points == DOMAIN points \union DOMAIN newpoints

\* Neither pass loses anything on its way down to a setscene task.
NothingLost ==
  /\ pass \in {"squash", "unskippable"} => (points = <<>> => newpoints = <<>>)
  /\ pass = "squash" =>
       /\ \A x \in Tids \ setscene : new[x] # {} => x \in Points
       /\ \A d \in setscene : \A s \in ServedBy(d) : \E x \in Between(d) : s \in Gathered(x)
  /\ pass = "unskippable" =>
       \A d \in setscene : EndAbove(d) => new[d] # {} \/ \E x \in Between(d) : x \in Points
  /\ pass \in {"unskippable", "resolve"} => \A d \in setscene : ServedBy(d) \subseteq squash[d]
  /\ pass = "ready" => \A d \in setscene : IsHard(d) \/ ServedBy(d) \subseteq squash[d]
  /\ pass \in {"resolve", "ready"} => \A d \in setscene : EndAbove(d) => d \in unskippable

\* Nor does the second pass come to anything but what serves an endpoint of the
\* build, and what the first has left with a task without a setscene is nothing.
EndsOnly ==
  /\ pass = "unskippable" =>
       /\ \A x \in Points : x \in Tids \ setscene /\ EndAbove(x)
       /\ \A x \in Tids : new[x] # {} => EndAbove(x)
  /\ pass \in {"unskippable", "resolve"} => NotSquashed = {}
  /\ pass \in {"resolve", "ready"} => \A t \in unskippable : t \in setscene /\ EndAbove(t)

\* What is covered is there, or was skipped as not needed, when all it serves was
\* covered; and stays so until it is taken back.
Obtained == IF state = "Running" THEN initial_covered ELSE covered

Stamps ==
  /\ DOMAIN exitcode \subseteq running
  /\ \A t \in launched \intersect DOMAIN exitcode :
       exitcode[t] = "ok" => t \in stamp_setscene
  /\ (Obtained \intersect covered) \ notneeded \subseteq Available
  /\ \A d \in notneeded :
       d \notin unskippable /\ squash[d] # {} /\ squash[d] \subseteq Obtained

\* Coverage spreads to what nothing else needs, and recedes the same way.
Spread ==
  /\ pc \in {"cover", "verify"} => initial_covered \subseteq covered
  /\ pc \in {"cover", "verify", "remove", "end"} =>
       \A d \in covered \ initial_covered :
         RevDepsOf(d) \subseteq covered \/ (pc = "remove" /\ d \in todo)
  /\ pc = "verify" => CoverClosed(covered)

InputsInv == NothingLost /\ Stamps /\ Spread

\* What the metadata has to keep to for LaunchOrder where the hash check skips
\* tasks at the start, and for InputsAvailable: no hard dependency has one itself.
Unchained(q) == \A p, r \in q.hard : p[2] # r[1]
NoHardChains == \A q \in RunQueue : q.hashvalidate => Unchained(q)
NoHardChainsAtAll == \A q \in RunQueue : Unchained(q)
=============================================================================
