------------------------------ MODULE Prepare ------------------------------
(***************************************************************************)
(* RunQueueData.prepare(): from the task data of the recipes to the tasks  *)
(* of a run, their dependencies, weights and order (lib/bb/runqueue.py).   *)
(* Each step of the method is an action.  A task id is a recipe file and a *)
(* task name; one multiconfig.  A definition with a suffix is a faulty     *)
(* variant of its namesake, with which the properties are tried; no        *)
(* specification uses it.                                                  *)
(***************************************************************************)
EXTENDS TaskGraph, Integers, FiniteSets, Sequences, FiniteSetsExt, SequencesExt

CONSTANTS
  FnName,      \* the recipe files
  TaskName,    \* the task names
  TaskData     \* the task data prepare() may be given: a set of records

Tid == FnName \X TaskName

\* What taskdata.py and the data cache know.  The providers are resolved: depids
\* and rdepids name the recipe chosen for each DEPENDS and RDEPENDS item that
\* has one, idepends the tasks named by the [depends] and [rdepends] flags:
\*   taskentries   the tasks of the recipes, a subset of Tid
\*   tdepends      addtask ... after: for each Tid, a subset of Tid
\*   idepends      the same for the flags
\*   depids, rdepids                      for each recipe, a set of recipes
\*   deptask, rdeptask, recrdeptask, recideptask
\*                 the flags: for each task name, a set of task names
\*   scene         the tasks that have a _setscene variant
\*   failed_fns    recipes that cannot be built
\*   targets       pairs of a Tid and whether it was given as "task-": only
\*                 what it depends on
ASSUME TaskDataAssumption ==
  /\ IsFiniteSet(FnName) /\ IsFiniteSet(TaskName)
  /\ \A d \in TaskData :
       /\ DOMAIN d = {"taskentries", "tdepends", "idepends", "depids", "rdepids",
                      "deptask", "rdeptask", "recrdeptask", "recideptask",
                      "scene", "failed_fns", "targets"}
       /\ d.taskentries \subseteq Tid
       /\ \A t \in Tid : d.tdepends[t] \subseteq d.taskentries

VARIABLES
  data,        \* the task data of this run
  step,        \* where prepare() is: not called yet ("resolve"), "expand",
               \* "recurse", "mark", "check", "weigh", or how it ended: "prepared",
               \* with nothing to do ("empty", "nothing"), refused ("nonexistent",
               \* "circular") or with an exception ("raised")
  revdeps,     \* runtaskentries[t].revdeps
  weight, deps_left, task_done,
  endpoints    \* the endpoints of this pass over the weights

prepareVars ==
  <<data, step, depends, revdeps, weight, deps_left, task_done, endpoints>>

runtaskentries == DOMAIN depends

Const(S, value) == [x \in S |-> value]

PrepareStart(d, s) ==
  /\ data = d
  /\ step = s
  /\ depends = Const({}, {})
  /\ revdeps = Const({}, {})
  /\ weight = Const({}, 0)
  /\ deps_left = Const({}, 0)
  /\ task_done = {}
  /\ endpoints = {}

-----------------------------------------------------------------------------
(* Step A: the dependencies of each task *)

\* add_build_dependencies and add_runtime_dependencies: only tasks that exist.
TasksOf(fns, names) == (fns \X names) \intersect data.taskentries

recursivetasks == {t \in data.taskentries : data.recrdeptask[t[2]] # {}
                                              /\ t[1] \notin data.failed_fns}
recursivetasksselfref == {t \in recursivetasks : t[2] \in data.recrdeptask[t[2]]}

dependsOf(t) ==
  IF t[1] \in data.failed_fns THEN {}
  ELSE data.tdepends[t]
         \union TasksOf(data.depids[t[1]], data.deptask[t[2]] \union data.recrdeptask[t[2]])
         \union TasksOf(data.rdepids[t[1]], data.rdeptask[t[2]] \union data.recrdeptask[t[2]])
         \union data.idepends[t]

Expand ==
  /\ step = "expand"
  /\ depends' = [t \in data.taskentries |-> dependsOf(t)]
  /\ step' = IF data.taskentries = {} THEN "empty"
             ELSE IF \A t \in data.taskentries : dependsOf(t) \subseteq data.taskentries
             THEN "recurse" ELSE "nonexistent"
  /\ revdeps' = Const(data.taskentries, {})
  /\ weight' = Const(data.taskentries, 0)
  /\ deps_left' = Const(data.taskentries, 0)
  /\ UNCHANGED <<data, task_done, endpoints>>

\* generate_recdeps(t): the dependency tree of t, entered at every task the flag
\* names of every recipe it comes to.  What recursion adds to one task is not
\* seen by another: depends is updated at the end.
RecTree(roots, names) ==
  Reachable(Tid, roots, [t \in Tid |->
    UNION {depends[i] : i \in ({t} \union TasksOf({t[1]}, names)) \intersect runtaskentries}])

\* A faulty variant, to try the properties with: one level only.
generate_recdeps_flat(t) == depends[t]

generate_recdeps(t) ==
  LET names == data.recrdeptask[t[2]]
      roots == {t} \union ({t[1]} \X data.recideptask[t[2]])
  IN depends[t] \union TasksOf({u[1] : u \in RecTree(roots, names)}, names)

\* The tasks named by the recideptask flag of t, where the walk starts too.
recursiveitasks(t) == {t[1]} \X data.recideptask[t[2]]

ItaskMissing == \E t \in recursivetasks : ~ recursiveitasks(t) \subseteq runtaskentries

\* KeyError: generate_recdeps looks the task up.
RecurseRaises ==
  /\ step = "recurse"
  /\ ItaskMissing
  /\ step' = "raised"
  /\ UNCHANGED <<data, depends, revdeps, weight, deps_left, task_done, endpoints>>

Recurse ==
  /\ step = "recurse"
  /\ ~ItaskMissing
  /\ depends' = [t \in runtaskentries |->
       (IF t \in recursivetasks THEN generate_recdeps(t) \ recursivetasksselfref
                                ELSE depends[t]) \ {t}]
  /\ step' = "mark"
  /\ UNCHANGED <<data, revdeps, weight, deps_left, task_done, endpoints>>

-----------------------------------------------------------------------------
(* Steps B and C: mark the active tasks, prune the others *)

targets == {g \in data.targets : g[1][1] \notin data.failed_fns}
target_tids == {g[1] : g \in targets}

active ==
  Reachable(runtaskentries, UNION {IF g[2] THEN depends[g[1]] ELSE {g[1]} : g \in targets}, depends)

RevDepsAmong(t, kept) == {r \in kept : t \in depends[r]}

\* "Task %s does not exist for target %s"
TargetMissing ==
  /\ step = "mark"
  /\ ~ target_tids \subseteq data.taskentries
  /\ step' = "nonexistent"
  /\ UNCHANGED <<data, depends, revdeps, weight, deps_left, task_done, endpoints>>

MarkAndPrune ==
  /\ step = "mark"
  /\ target_tids \subseteq data.taskentries
  /\ LET kept == active IN
       /\ depends' = [t \in kept |-> depends[t]]
       /\ step' = IF kept = {} THEN "nothing" ELSE "check"
       /\ revdeps' = [t \in kept |-> RevDepsAmong(t, kept)]
       /\ weight' = Const(kept, 0)
       /\ deps_left' = Const(kept, 0)
  /\ UNCHANGED <<data, task_done, endpoints>>

-----------------------------------------------------------------------------
(* Step D: endpoints, circular dependencies and weights *)

CheckLengthTwo ==
  /\ step = "check"
  /\ endpoints' = {t \in runtaskentries : revdeps[t] = {}}
  /\ step' = IF \E t \in runtaskentries : revdeps[t] \intersect depends[t] # {}
             THEN "circular" ELSE "weigh"
  /\ weight' = [t \in runtaskentries |-> IF t \in endpoints' THEN 10 ELSE 1]
  /\ deps_left' = [t \in runtaskentries |-> Cardinality(revdeps[t])]
  /\ task_done' = endpoints'
  /\ UNCHANGED <<data, depends, revdeps>>

\* A faulty variant, to try the properties with: the weight of the dependents
\* is not passed on.
weightFrom_constant(t, points) == Cardinality(points)

\* What the endpoints of this pass add to the weight of t.
weightFrom(t, points) == MapThenSumSet(LAMBDA p : weight[p], points)

\* One pass: an endpoint is a task whose dependents have all been weighed.
WeighEndpoints ==
  /\ step = "weigh"
  /\ endpoints # {}
  /\ LET from == [t \in runtaskentries |-> endpoints \intersect revdeps[t]] IN
       /\ weight' = [t \in runtaskentries |-> weight[t] + weightFrom(t, from[t])]
       /\ deps_left' = [t \in runtaskentries |-> deps_left[t] - Cardinality(from[t])]
       /\ endpoints' = {t \in runtaskentries : from[t] # {} /\ deps_left'[t] = 0}
  /\ task_done' = task_done \union endpoints'
  /\ UNCHANGED <<data, step, depends, revdeps>>

problem_tasks_ignores_done == {t \in runtaskentries : deps_left[t] < 0}

problem_tasks == {t \in runtaskentries : t \notin task_done \/ deps_left[t] # 0}

WeighEnd ==
  /\ step = "weigh"
  /\ endpoints = {}
  /\ step' = IF problem_tasks # {} THEN "circular" ELSE "prepared"
  /\ UNCHANGED <<data, depends, revdeps, weight, deps_left, task_done, endpoints>>

PrepareNext ==
  \/ Expand \/ Recurse \/ RecurseRaises \/ TargetMissing \/ MarkAndPrune
  \/ CheckLengthTwo \/ WeighEndpoints \/ WeighEnd

-----------------------------------------------------------------------------
(* The priority maps of the schedulers.  The tasks of one weight come in the *)
(* order of a dictionary: any.                                               *)

\* RunQueueSchedulerSpeed: heaviest first.
SpeedOrders ==
  {s \in SetToSeqs(runtaskentries) :
     \A i, j \in DOMAIN s : i < j => weight[s[i]] >= weight[s[j]]}

\* RunQueueSchedulerCompletion: the rest of its recipe follows the first task
\* of the recipe.
CompletionOrder(speed) ==
  LET ofFn(fn) == SelectSeq(speed, LAMBDA t : t[1] = fn)
      firsts == SelectSeq(speed, LAMBDA t : t = Head(ofFn(t[1])))
  IN FlattenSeq([i \in DOMAIN firsts |-> ofFn(firsts[i][1])])

-----------------------------------------------------------------------------
(* The inductive invariant behind CycleDetection and RecursionComplete *)

\* What dependsOf and Recurse make of the task data.
RecTreeOf(t) ==
  LET names == data.recrdeptask[t[2]] IN
  Reachable(Tid, {t} \union ({t[1]} \X data.recideptask[t[2]]), [u \in Tid |->
    UNION {dependsOf(i) : i \in ({u} \union TasksOf({u[1]}, names)) \intersect data.taskentries}])

Recursed(t) ==
  (IF t \in recursivetasks
   THEN (dependsOf(t) \union TasksOf({u[1] : u \in RecTreeOf(t)}, data.recrdeptask[t[2]]))
          \ recursivetasksselfref
   ELSE dependsOf(t)) \ {t}

TreeInv ==
  /\ data.taskentries \subseteq Tid
  /\ step \in {"recurse", "mark", "check", "weigh", "prepared", "circular"} =>
       depends \in [Tids -> SUBSET Tids] /\ Tids \subseteq data.taskentries
  /\ step \in {"recurse", "mark"} => Tids = data.taskentries
  /\ step = "recurse" => \A t \in Tids : depends[t] = dependsOf(t)
  /\ step \in {"mark", "check", "weigh", "prepared"} =>
       \A t \in Tids : depends[t] = Recursed(t)
  /\ step \in {"check", "weigh", "prepared"} => revdeps = [t \in Tids |-> RevDepsOf(t)]

\* Of any of these tasks, one has no dependent among them: they have no cycle.
Acyclic(S) == \A T \in SUBSET S : T # {} => \E t \in T : RevDepsOf(t) \intersect T = {}

\* A task is done once all its dependents have passed on their weight, which
\* they do in the pass after they are done themselves.
WeighInv ==
  /\ step = "weigh" =>
       /\ endpoints \subseteq task_done /\ task_done \subseteq Tids
       /\ \A t \in Tids :
            LET waits == RevDepsOf(t) \ (task_done \ endpoints) IN
            (t \in task_done <=> waits = {}) /\ deps_left[t] = Cardinality(waits)
       /\ Acyclic(task_done)
  /\ step = "prepared" => Acyclic(Tids)
  /\ step = "circular" => \E t \in Tids : OnCycle(t)

PrepareInv == TreeInv /\ WeighInv
=============================================================================
