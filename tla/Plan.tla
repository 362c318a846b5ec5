-------------------------------- MODULE Plan --------------------------------
(***************************************************************************)
(* How a build is planned: the targets and what they need are resolved to  *)
(* recipes, prepare() turns that task data into the run queue, and the     *)
(* start of the setscene stage collapses it into the graph of the setscene *)
(* tasks.                                                                  *)
(***************************************************************************)
EXTENDS Prepare, Taskdata, ScenequeueGraph

CONSTANTS
  Caches,       \* what the recipes and the configuration may say: sets of records
  OrderBound    \* the priority maps of more tasks are not enumerated

ASSUME OrderBoundAssumption == OrderBound \in Nat

\* The recipes are numbers, and so is what they are compared by; an item has a
\* name.
CacheOK(c) ==
  LET files == DOMAIN c.pkg_fn IN
  /\ IsFiniteSet(files) /\ files \subseteq Int
  /\ \A measure \in {c.bbfile_priority, c.pkg_dp, c.version} : measure \in [files -> Int]
  /\ \A k \in Kinds : \A f \in files :
       "" \notin c.deps[k][f] /\ \A g \in c.flags[k][f] : g[2] # ""
  /\ c.goals \in Seq(ToSet(c.goals)) /\ \A goal \in ToSet(c.goals) : goal[1] # ""

ASSUME CacheAssumption == \A family \in Caches : \A c \in family : CacheOK(c)

sceneVars == <<setscene, harddeps, pass, points, newpoints, left, new, squash, unskippable>>
vars == <<resolveVars, prepareVars, sceneVars>>

EmptyTaskData ==
  LET none == [t \in Tid |-> {}]
      nothing == [f \in FnName |-> {}]
      noFlag == [n \in TaskName |-> {}]
  IN [taskentries |-> {}, tdepends |-> none, idepends |-> none, depids |-> nothing,
      rdepids |-> nothing, deptask |-> noFlag, rdeptask |-> noFlag, recrdeptask |-> noFlag,
      recideptask |-> noFlag, scene |-> {}, failed_fns |-> {}, targets |-> {}]

\* A build is planned from the recipes, or from task data of any form.
NoCache == [pkg_fn |-> [f \in {} |-> ""], goals |-> <<>>]

Init ==
  /\ \/ \E family \in Caches : \E c \in family : ResolveInit(c) /\ PrepareStart(EmptyTaskData, "resolve")
     \/ \E d \in TaskData : ResolveInit(NoCache) /\ PrepareStart(d, "expand")
  /\ GraphInit

ResolveStep ==
  /\ step = "resolve"
  /\ ResolveNext
  /\ UNCHANGED <<prepareVars, sceneVars>>

\* What prepare() reads of a TaskData object and the data cache: the first
\* provider of each item, the flags of the tasks.
First(k, i) == td.targets[k][i][1]
Provided(k, items) == {First(k, i) : i \in {d \in items : have(k, d)}}

taskentries == {t \in Tid : t[1] \in td.seenfns /\ t[2] \in cache.tasks[t[1]]}

FlagTasks(k, t) ==
  {<<First(k, g[2]), g[3]>> :
     g \in {h \in cache.flags[k][t[1]] :
             h[1] = t[2] /\ have(k, h[2]) /\ (k = "build" => h[2] \notin td.failed.build)}}

Resolved ==
  [taskentries |-> taskentries,
   tdepends |-> [t \in Tid |-> IF t \notin taskentries THEN {}
                   ELSE {t[1]} \X (cache.parents[t[2]] \intersect cache.tasks[t[1]])],
   idepends |-> [t \in Tid |-> IF t \notin taskentries THEN {}
                   ELSE FlagTasks("build", t) \union FlagTasks("run", t)],
   depids  |-> [f \in FnName |-> IF f \in td.seenfns THEN Provided("build", cache.deps.build[f]) ELSE {}],
   rdepids |-> [f \in FnName |-> IF f \in td.seenfns THEN Provided("run", cache.deps.run[f]) ELSE {}],
   deptask |-> cache.deptask, rdeptask |-> cache.rdeptask,
   recrdeptask |-> cache.recrdeptask, recideptask |-> cache.recideptask,
   scene |-> cache.scene, failed_fns |-> td.failed_fns,
   targets |-> {<<<<r[2], r[1][2]>>, r[1][3]>> :
                  r \in {q \in ToSet(runlist) : /\ have("build", q[1][1])
                                               /\ q[1][1] \notin td.failed.build}}]

\* run_targets[depname][0] of a [rdepends] that has no provider.
IndexError ==
  \E f \in td.seenfns \ td.failed_fns : \E g \in cache.flags.run[f] : ~have("run", g[2])

HandOver ==
  /\ step = "resolve" /\ phase = "done"
  /\ ~(cache.abort /\ cache.allowincomplete)   \* showEnvironment needs no run queue
  /\ data' = Resolved
  /\ step' = IF IndexError THEN "raised" ELSE "expand"
  /\ UNCHANGED <<depends, revdeps, weight, deps_left, task_done, endpoints, resolveVars, sceneVars>>

PrepareStep ==
  /\ PrepareNext
  /\ UNCHANGED <<resolveVars, sceneVars>>

\* runq_setscene_tids, at the end of prepare(); then the setscene stage starts.
runq_setscene_tids == data.scene \intersect runtaskentries

SceneStart ==
  /\ step = "prepared"
  /\ runq_setscene_tids # {}
  /\ GraphStart(runq_setscene_tids, {})
  /\ UNCHANGED <<resolveVars, prepareVars>>

SceneStep ==
  /\ GraphNext
  /\ UNCHANGED <<data, step, revdeps, weight, deps_left, task_done, endpoints, resolveVars>>

Next == ResolveStep \/ HandOver \/ PrepareStep \/ SceneStart \/ SceneStep

Spec == Init /\ [][Next]_vars

-----------------------------------------------------------------------------
(* Properties *)

\* What cannot be built whichever recipe is chosen: a recipe that needs an item
\* none of whose eligible recipes can be built.  Loosely: also one that names
\* such an item in a flag of a task, or whose preferred recipes may conflict.
NeedsOf(k, f, loosely) ==
  (cache.deps[k][f] \union IF loosely THEN Items(cache.flags[k][f]) ELSE {}) \ cache.ignored

MayConflict(i) == \E o \in filterProvidersRunTime(i) : o.numberPreferred > 1

Hopeless(k, i, bad, loosely) ==
  \/ Eligible(ProvidersOf(k, i)) \subseteq bad
  \/ k = "run" /\ loosely /\ MayConflict(i)

BadClosed(bad, loosely) ==
  \A f \in recipes \ bad : \A k \in {"build", "run"} : \A i \in NeedsOf(k, f, loosely) :
    ~Hopeless(k, i, bad, loosely)

Unbuildable(loosely) ==
  {f \in recipes : \A bad \in SUBSET recipes : BadClosed(bad, loosely) => f \in bad}

HandedOver == phase = "done"

\* "While the target that failed and anything depending on it cannot be built, as
\* much as possible will be built": the recipes given up are those that cannot be
\* built, and no others.  The exceptions: an item was removed because the first
\* recipe tried for it failed at once; the graph is only drawn; an abort was lost.
BuildableExactly ==
  HandedOver =>
    /\ ~premature => td.failed_fns \subseteq Unbuildable(TRUE)
    /\ ~swallowed /\ ~cache.allowincomplete => Unbuildable(FALSE) \intersect td.seenfns \subseteq td.failed_fns

\* prepare() drops a dependency that has no provider, taking it for
\* ASSUME_PROVIDED: so it is, for every recipe to be built, in the lists that
\* are left no recipe is failed, and none gets into the run queue.
NothingDropped ==
  /\ HandedOver /\ ~swallowed =>
       \A k \in {"build", "run"} : ~(k = "build" /\ cache.allowincomplete) =>
         \A f \in td.seenfns \ td.failed_fns : \A i \in cache.deps[k][f] \ cache.ignored :
            have(k, i) /\ ToSet(td.targets[k][i]) \intersect td.failed_fns = {}
  /\ HandedOver /\ ~swallowed /\ step = "prepared" =>
       \A t \in runtaskentries : t[1] \notin td.failed_fns

Prepared == step = "prepared"

\* prepare() refuses exactly the task data with a dependency cycle, whether the
\* check of length two or the weights find it, and hands over a closed graph:
\* what RunQueueExecute relies on.
CycleDetection ==
  /\ step = "circular" => \E t \in runtaskentries : OnCycle(t)
  /\ Prepared => \A t \in runtaskentries :
       ~OnCycle(t) /\ depends[t] \subseteq runtaskentries

\* "Heavier weighted tasks (tasks needed by the most other tasks) are run first":
\* in every order of RunQueueSchedulerSpeed a task comes before all that need it,
\* and RunQueueSchedulerCompletion only moves whole recipes.
SchedulerOrders ==
  Prepared /\ Cardinality(runtaskentries) <= OrderBound =>
    \A s \in SpeedOrders :
      LET c == CompletionOrder(s) IN
        /\ \A i, j \in DOMAIN s : s[i] \in depends[s[j]] => i < j
        /\ ToSet(c) = runtaskentries /\ Len(c) = Len(s)
        /\ \A i, j, k \in DOMAIN c :
             i < j /\ j < k /\ c[i][1] = c[k][1] => c[i][1] = c[j][1]
        /\ \A i, j \in DOMAIN c :
             c[i][1] = c[j][1] /\ c[i] \in depends[c[j]] => i < j

\* The tree of t before anything is added by recursion.
OwnTree(t) == Reachable(data.taskentries, {t}, [u \in data.taskentries |-> dependsOf(u)])

\* The flags of the recursive tasks t waits for name nothing that its own does not.
NamesAll(t) ==
  \A r \in recursivetasks \intersect Ancestors(t) :
    data.recrdeptask[r[2]] \union data.recideptask[r[2]] \subseteq data.recrdeptask[t[2]]

\* do_sometask[recrdeptask] "makes sure sometask runs after someothertask of all
\* DEPENDS, RDEPENDS and intertask dependencies, recursively": of every recipe
\* in its tree, but for the tasks that recurse to themselves; of every recipe it
\* waits for in the end, what other recursive tasks added included, if their
\* flags name nothing else.
RecursionComplete ==
  step \in {"check", "weigh", "prepared"} =>
    \A t \in recursivetasks \intersect runtaskentries :
      \A u \in OwnTree(t) \union (IF NamesAll(t) THEN Ancestors(t) ELSE {}) :
        TasksOf({u[1]}, data.recrdeptask[t[2]]) \ (recursivetasksselfref \union {t})
          \subseteq Ancestors(t)

-----------------------------------------------------------------------------
(* The inductive invariants behind NothingDropped and BuildableExactly *)

\* Only what cannot be built is given up.
JustlyInv ==
  /\ td.failed_fns \subseteq Unbuildable(TRUE)
  /\ \A k \in Kinds : \A i \in td.failed[k] :
       i \notin cache.ignored /\ Hopeless(k, i, Unbuildable(TRUE), TRUE)

\* Every recipe for an item that lists one is on the list, has failed or will be
\* added yet; all of them are still to come before the first is on it.
Untried(k, i) == IF k = kind /\ i = current THEN ToSet(eligible) ELSE {}

TriedInv ==
  /\ \A k \in Kinds : \A i \in DOMAIN td.targets[k] : td.targets[k][i] # <<>> =>
       /\ i \notin cache.ignored
       /\ Eligible(ProvidersOf(k, i)) \subseteq ToSet(td.targets[k][i]) \union td.failed_fns \union Untried(k, i)
  /\ eligible # <<>> /\ ~have(kind, current) =>
       Eligible(ProvidersOf(kind, current)) \subseteq ToSet(eligible) \union td.failed_fns

\* A recipe that fails at once is only on the list of the item it was added for;
\* what it takes down is that item, before anything else.
CurrentInv ==
  stack # <<>> /\ ~failing =>
    \/ /\ Len(stack) = 1 /\ top.call = "fail"
       /\ \A k \in Kinds : HoldersOf(top.name, k) \subseteq (IF k = kind THEN {current} ELSE {})
    \/ current \in td.failed[kind] /\ ~have(kind, current)

JustifiedInv == JustlyInv /\ TriedInv /\ CurrentInv

\* Items are resolved from a cache that is as it should be.
CacheInv == (step # "resolve" /\ phase = "targets") \/ CacheOK(cache)

\* No task of a recipe that was given up is among those to be run.
SoundRunInv ==
  /\ phase = "done" /\ step \notin {"resolve"} => data = Resolved
  /\ phase = "done" /\ ~swallowed /\ step \in {"check", "weigh", "prepared"} =>
       \A t \in Tids : t[1] \notin td.failed_fns

PlanInv ==
  /\ CacheInv /\ ResolveInv /\ SoundRunInv
  /\ phase # "raised" /\ ~premature => JustifiedInv
=============================================================================
