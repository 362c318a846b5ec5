------------------------------ MODULE PlanProofs ------------------------------
(***************************************************************************)
(* How a build is planned, for any recipes and any task data: what         *)
(* prepare() hands over has no cycle and is complete, and what TaskData    *)
(* gives up is what cannot be built.                                       *)
(***************************************************************************)
EXTENDS Plan, FiniteSetTheorems, WellFoundedInduction, SequenceTheorems, TLAPS

-----------------------------------------------------------------------------
(* Walks over a graph *)

\* A walk comes to where it starts, to what its edges lead to, and to no more.
LEMMA WalkStarts ==
  ASSUME NEW U, NEW S, NEW edges
  PROVE  S \intersect U \subseteq Reachable(U, S, edges) /\ Reachable(U, S, edges) \subseteq U
BY DEF Reachable

LEMMA WalkGoesOn ==
  ASSUME NEW U, NEW S, NEW edges
  PROVE  WalkClosed(U, edges, Reachable(U, S, edges))
<1>1. SUFFICES ASSUME NEW t \in Reachable(U, S, edges) \intersect DOMAIN edges,
                      NEW x \in edges[t] \intersect U
               PROVE  x \in Reachable(U, S, edges)
  BY DEF WalkClosed
<1>2. ASSUME NEW W \in SUBSET U, S \intersect U \subseteq W, WalkClosed(U, edges, W)
      PROVE  x \in W
  <2>1. t \in W
    BY <1>2 DEF Reachable
  <2>2. QED
    BY <1>2, <2>1 DEF WalkClosed
<1>3. QED
  BY <1>2 DEF Reachable

LEMMA WalkIsLeast ==
  ASSUME NEW U, NEW S, NEW edges, NEW W \in SUBSET U,
         S \intersect U \subseteq W, WalkClosed(U, edges, W)
  PROVE  Reachable(U, S, edges) \subseteq W
BY DEF Reachable

\* The same for what a task waits for.
LEMMA AncestorsAre ==
  ASSUME depends \in [Tids -> SUBSET Tids], NEW t \in Tids
  PROVE  /\ Ancestors(t) \subseteq Tids
         /\ depends[t] \subseteq Ancestors(t)
         /\ \A u \in Ancestors(t) : depends[u] \subseteq Ancestors(t)
<1>1. depends[t] \intersect Tids = depends[t] /\ DOMAIN depends = Tids
  BY DEF Tids
<1>2. \A u \in Tids : depends[u] \intersect Tids = depends[u]
  OBVIOUS
<1>3. Ancestors(t) \subseteq Tids /\ depends[t] \subseteq Ancestors(t)
  BY <1>1, WalkStarts DEF Ancestors
<1>4. WalkClosed(Tids, depends, Ancestors(t))
  BY WalkGoesOn DEF Ancestors
<1>5. QED
  BY <1>1, <1>2, <1>3, <1>4 DEF WalkClosed

LEMMA AncestorsLeast ==
  ASSUME depends \in [Tids -> SUBSET Tids], NEW t \in Tids, NEW W \in SUBSET Tids,
         depends[t] \subseteq W, \A u \in W : depends[u] \subseteq W
  PROVE  Ancestors(t) \subseteq W
<1>1. depends[t] \intersect Tids \subseteq W
  OBVIOUS
<1>2. WalkClosed(Tids, depends, W)
  BY DEF WalkClosed, Tids
<1>3. QED
  BY <1>1, <1>2, WalkIsLeast DEF Ancestors

\* What needs a task waits for it.
LEMMA AboveWaits ==
  ASSUME depends \in [Tids -> SUBSET Tids], NEW x \in Tids, NEW u \in Above(x)
  PROVE  x \in Ancestors(u)
<1> DEFINE W == {y \in Tids : x \in Ancestors(y)}
<1>1. W \in SUBSET Tids
  OBVIOUS
<1>2. RevDepsOf(x) \subseteq W
  BY AncestorsAre DEF RevDepsOf
<1>3. ASSUME NEW y \in W, NEW z \in RevDepsOf(y) PROVE z \in W
  <2>1. z \in Tids /\ y \in Tids /\ y \in depends[z] /\ x \in Ancestors(y)
    BY <1>3 DEF RevDepsOf
  <2>2. Ancestors(y) \subseteq Ancestors(z)
    <3>1. y \in Ancestors(z)
      BY <2>1, AncestorsAre
    <3>2. Ancestors(z) \in SUBSET Tids /\ depends[y] \subseteq Ancestors(z)
          /\ \A v \in Ancestors(z) : depends[v] \subseteq Ancestors(z)
      BY <2>1, <3>1, AncestorsAre
    <3>3. QED
      BY <2>1, <3>2, AncestorsLeast
  <2>3. QED
    BY <2>1, <2>2
<1>4. u \in W
  <2> HIDE DEF W
  <2> QED
    BY <1>1, <1>2, <1>3 DEF Above
<1>5. QED
  BY <1>4

\* What is above a dependent is above the task.
LEMMA AboveGrows ==
  ASSUME NEW t \in Tids, NEW r \in RevDepsOf(t)
  PROVE  r \in Above(t) /\ Above(r) \subseteq Above(t)
BY DEF Above, RevDepsOf

\* Where each of some tasks has a dependent among them, there is a cycle.
LEMMA CycleExists ==
  ASSUME depends \in [Tids -> SUBSET Tids], IsFiniteSet(Tids),
         NEW R \in SUBSET Tids, R # {}, \A t \in R : RevDepsOf(t) \intersect R # {}
  PROVE  \E t \in Tids : OnCycle(t)
<1> DEFINE F == {Above(t) : t \in R}
<1>1. F \subseteq SUBSET Tids /\ F # {}
  <2>1. \A t : Above(t) \subseteq Tids
    BY DEF Above
  <2>2. QED
    BY <2>1
<1>2. FiniteSubsetsOf(Tids) = SUBSET Tids
  BY FS_FiniteSubsetsOfFinite
<1>3. IsWellFoundedOn(StrictSubsetOrdering(Tids), SUBSET Tids)
  BY <1>2, FS_StrictSubsetOrderingWellFounded
<1>4. PICK A \in F : \A B \in F : ~(<<B, A>> \in StrictSubsetOrdering(Tids))
  <2> HIDE DEF F
  <2> QED
    BY <1>1, <1>3, WFMin
<1>5. PICK t \in R : A = Above(t)
  BY <1>4
<1>6. PICK r \in R : r \in RevDepsOf(t)
  OBVIOUS
<1>7. r \in Above(t) /\ Above(r) \subseteq Above(t)
  BY <1>6, AboveGrows
<1>8. Above(r) = Above(t)
  <2>1. Above(r) \in F /\ Above(r) \in SUBSET Tids /\ Above(t) \in SUBSET Tids
    BY <1>1
  <2>2. ~(<<Above(r), Above(t)>> \in StrictSubsetOrdering(Tids))
    BY <1>4, <1>5, <2>1
  <2>3. QED
    BY <1>7, <2>1, <2>2 DEF StrictSubsetOrdering
<1>9. r \in Ancestors(r)
  BY <1>7, <1>8, AboveWaits
<1>10. QED
  BY <1>9 DEF OnCycle

\* Where of any tasks one has no dependent among them, there is none.
LEMMA NoCycle ==
  ASSUME depends \in [Tids -> SUBSET Tids], Acyclic(Tids), NEW t \in Tids
  PROVE  ~OnCycle(t)
<1>1. SUFFICES ASSUME t \in Ancestors(t) PROVE FALSE
  BY DEF OnCycle
<1> DEFINE T == {x \in Ancestors(t) : t \in Ancestors(x)}
<1>2. T \in SUBSET Tids /\ T # {}
  BY <1>1, AncestorsAre
<1>3. PICK x \in T : RevDepsOf(x) \intersect T = {}
  <2> HIDE DEF T
  <2> QED
    BY <1>2 DEF Acyclic
<1> DEFINE W == {y \in Ancestors(t) : y # x}
<1>4. Ancestors(t) \subseteq W
  <2>1. ASSUME NEW y \in Ancestors(t) \union {t}, x \in depends[y] PROVE FALSE
    <3>1. y \in Tids /\ y \in Ancestors(t)
      BY <1>1, <2>1, AncestorsAre
    <3>2. x \in Ancestors(y) /\ depends[x] \subseteq Ancestors(y) /\ Ancestors(y) \in SUBSET Tids
          /\ \A u \in Ancestors(y) : depends[u] \subseteq Ancestors(y)
      BY <2>1, <3>1, AncestorsAre
    <3>3. x \in Tids /\ Ancestors(x) \subseteq Ancestors(y)
      BY <3>2, AncestorsLeast
    <3>4. y \in T
      BY <3>1, <3>3
    <3>5. y \in RevDepsOf(x)
      BY <2>1, <3>1 DEF RevDepsOf
    <3>6. QED
      BY <1>3, <3>4, <3>5
  <2>2. W \in SUBSET Tids /\ depends[t] \subseteq W
    BY <2>1, AncestorsAre
  <2>3. \A u \in W : depends[u] \subseteq W
    BY <2>1, AncestorsAre
  <2>4. QED
    <3> HIDE DEF W
    <3> QED
      BY <2>2, <2>3, AncestorsLeast
<1>5. QED
  BY <1>3, <1>4

-----------------------------------------------------------------------------
(* The dependencies prepare() makes *)

\* Steps of the planning that leave the tasks alone.
LEMMA TasksSame ==
  ASSUME depends' = depends
  PROVE  /\ Tids' = Tids
         /\ \A t : RevDepsOf(t)' = RevDepsOf(t)
         /\ Acyclic(Tids)' = Acyclic(Tids)
         /\ \A t : OnCycle(t)' = OnCycle(t)
         /\ \A t : Ancestors(t)' = Ancestors(t)
<1>1. Tids' = Tids /\ \A t : RevDepsOf(t)' = RevDepsOf(t)
  BY DEF Tids, RevDepsOf
<1>2. Acyclic(Tids)' = Acyclic(Tids)
  BY <1>1 DEF Acyclic
<1>3. \A t : Ancestors(t)' = Ancestors(t)
  BY <1>1 DEF Ancestors, Reachable, WalkClosed
<1>4. QED
  BY <1>1, <1>2, <1>3 DEF OnCycle

\* What is read from the task data alone.
LEMMA DataSame ==
  ASSUME data' = data
  PROVE  /\ \A t : dependsOf(t)' = dependsOf(t)
         /\ \A f, n : TasksOf(f, n)' = TasksOf(f, n)
         /\ recursivetasks' = recursivetasks /\ recursivetasksselfref' = recursivetasksselfref
         /\ \A t : RecTreeOf(t)' = RecTreeOf(t) /\ Recursed(t)' = Recursed(t)
<1>1. /\ \A t : dependsOf(t)' = dependsOf(t)
      /\ \A f, n : TasksOf(f, n)' = TasksOf(f, n)
  BY DEF dependsOf, TasksOf
<1>2. recursivetasks' = recursivetasks
  BY DEF recursivetasks
<1>3. recursivetasksselfref' = recursivetasksselfref
  BY <1>2 DEF recursivetasksselfref
<1>4. \A t : RecTreeOf(t)' = RecTreeOf(t)
  BY <1>1 DEF RecTreeOf
<1>5. QED
  BY <1>1, <1>2, <1>3, <1>4 DEF Recursed

LEMMA TidFinite == IsFiniteSet(Tid)
BY TaskDataAssumption, FS_Product DEF Tid

\* A step that leaves prepare() where it is.
LEMMA PrepareSame ==
  ASSUME PrepareInv, UNCHANGED prepareVars
  PROVE  PrepareInv'
<1>1. UNCHANGED <<data, step, depends, revdeps, weight, deps_left, task_done, endpoints>>
  BY DEF prepareVars
<1>2. TreeInv'
  BY <1>1, TasksSame, DataSame DEF PrepareInv, TreeInv
<1>3. Acyclic(task_done)' = Acyclic(task_done)
  BY <1>1, TasksSame DEF Acyclic
<1>4. WeighInv'
  BY <1>1, <1>3, TasksSame DEF PrepareInv, WeighInv
<1>5. QED
  BY <1>2, <1>4 DEF PrepareInv

LEMMA ExpandKeeps ==
  ASSUME PrepareInv, Expand
  PROVE  PrepareInv'
<1>1. /\ data' = data
      /\ depends' = [t \in data.taskentries |-> dependsOf(t)]
      /\ step' \in {"empty", "recurse", "nonexistent"}
      /\ step' = "recurse" => \A t \in data.taskentries : dependsOf(t) \subseteq data.taskentries
  BY DEF Expand
<1>2. Tids' = data.taskentries /\ data.taskentries \subseteq Tid
  BY <1>1 DEF PrepareInv, TreeInv, Tids
<1>3. TreeInv'
  BY <1>1, <1>2, DataSame DEF TreeInv
<1>4. WeighInv'
  BY <1>1 DEF WeighInv
<1>5. QED
  BY <1>3, <1>4 DEF PrepareInv

\* The tree recursion walks over is that of the task data.
LEMMA RecTreeIs ==
  ASSUME TreeInv, step = "recurse", NEW t \in recursivetasks
  PROVE  generate_recdeps(t) = dependsOf(t)
           \union TasksOf({u[1] : u \in RecTreeOf(t)}, data.recrdeptask[t[2]])
<1> DEFINE names == data.recrdeptask[t[2]]
           roots == {t} \union ({t[1]} \X data.recideptask[t[2]])
<1>1. Tids = data.taskentries /\ runtaskentries = data.taskentries
      /\ \A u \in data.taskentries : depends[u] = dependsOf(u)
  BY DEF TreeInv, Tids, runtaskentries
<1>2. t \in data.taskentries
  BY DEF recursivetasks
<1>3. ASSUME NEW u
      PROVE UNION {depends[i] : i \in ({u} \union TasksOf({u[1]}, names)) \intersect runtaskentries}
        = UNION {dependsOf(i) : i \in ({u} \union TasksOf({u[1]}, names)) \intersect data.taskentries}
  <2> DEFINE I == ({u} \union TasksOf({u[1]}, names)) \intersect data.taskentries
  <2>1. \A i \in I : depends[i] = dependsOf(i)
    BY <1>1
  <2>2. {depends[i] : i \in I} = {dependsOf(i) : i \in I}
    <3> HIDE DEF I
    <3> QED
      BY <2>1
  <2>3. QED
    BY <1>1, <2>2
<1>4. RecTree(roots, names) = RecTreeOf(t)
  <2> DEFINE f1 == [u \in Tid |-> UNION {depends[i] : i \in ({u} \union TasksOf({u[1]}, names)) \intersect runtaskentries}]
             f2 == [u \in Tid |-> UNION {dependsOf(i) : i \in ({u} \union TasksOf({u[1]}, names)) \intersect data.taskentries}]
  <2>1. f1 = f2
    BY <1>3, Zenon
  <2>2. RecTree(roots, names) = Reachable(Tid, roots, f1)
    BY DEF RecTree
  <2>3. RecTreeOf(t) = Reachable(Tid, roots, f2)
    BY DEF RecTreeOf
  <2>4. QED
    BY <2>1, <2>2, <2>3
<1>5. QED
  BY <1>1, <1>2, <1>4 DEF generate_recdeps

LEMMA RecurseKeeps ==
  ASSUME PrepareInv, Recurse
  PROVE  PrepareInv'
<1>1. /\ data' = data /\ step = "recurse" /\ step' = "mark"
      /\ depends' = [t \in runtaskentries |->
           (IF t \in recursivetasks THEN generate_recdeps(t) \ recursivetasksselfref
                                    ELSE depends[t]) \ {t}]
  BY DEF Recurse
<1>2. /\ Tids = data.taskentries /\ runtaskentries = Tids /\ data.taskentries \subseteq Tid
      /\ depends \in [Tids -> SUBSET Tids]
      /\ \A t \in Tids : depends[t] = dependsOf(t)
  BY <1>1 DEF PrepareInv, TreeInv, Tids, runtaskentries
<1>3. Tids' = Tids
  BY <1>1, <1>2 DEF Tids
<1>4. ASSUME NEW t \in Tids PROVE depends'[t] = Recursed(t)
  <2>1. CASE t \in recursivetasks
    <3>1. generate_recdeps(t) = dependsOf(t)
             \union TasksOf({u[1] : u \in RecTreeOf(t)}, data.recrdeptask[t[2]])
      BY <1>1, <2>1, RecTreeIs DEF PrepareInv
    <3>2. QED
      BY <1>1, <1>2, <2>1, <3>1, Zenon DEF Recursed
  <2>2. CASE t \notin recursivetasks
    BY <1>1, <1>2, <2>2 DEF Recursed
  <2>3. QED
    BY <2>1, <2>2
<1>5. ASSUME NEW t \in Tids PROVE Recursed(t) \subseteq Tids
  BY <1>2 DEF Recursed, TasksOf
<1>6. depends' \in [Tids -> SUBSET Tids]
  BY <1>1, <1>2, <1>4, <1>5
<1>7. TreeInv'
  <2>1. \A t \in Tids : depends'[t] = Recursed(t)'
    BY <1>1, <1>4, DataSame
  <2>2. data'.taskentries \subseteq Tid /\ Tids' = data'.taskentries
    BY <1>1, <1>2, <1>3
  <2>3. QED
    BY <1>1, <1>3, <1>6, <2>1, <2>2 DEF TreeInv
<1>8. WeighInv'
  BY <1>1 DEF WeighInv
<1>9. QED
  BY <1>7, <1>8 DEF PrepareInv

LEMMA RecurseRaisesKeeps ==
  ASSUME PrepareInv, RecurseRaises
  PROVE  PrepareInv'
<1>1. UNCHANGED <<data, depends, revdeps, weight, deps_left, task_done, endpoints>> /\ step' = "raised"
  BY DEF RecurseRaises
<1>2. TreeInv' /\ WeighInv'
  BY <1>1 DEF PrepareInv, TreeInv, WeighInv
<1>3. QED
  BY <1>2 DEF PrepareInv

\* Nothing a task that is kept waits for is pruned.
LEMMA MarkAndPruneKeeps ==
  ASSUME PrepareInv, MarkAndPrune
  PROVE  PrepareInv'
<1>1. /\ data' = data /\ step = "mark" /\ step' \in {"nothing", "check"}
      /\ depends' = [t \in active |-> depends[t]]
      /\ revdeps' = [t \in active |-> RevDepsAmong(t, active)]
  BY DEF MarkAndPrune
<1>2. /\ data.taskentries \subseteq Tid /\ Tids \subseteq data.taskentries
      /\ depends \in [Tids -> SUBSET Tids]
      /\ \A t \in Tids : depends[t] = Recursed(t)
  BY <1>1 DEF PrepareInv, TreeInv
<1>3. active \subseteq Tids /\ \A t \in active : depends[t] \subseteq active
  <2> DEFINE S == UNION {IF g[2] THEN depends[g[1]] ELSE {g[1]} : g \in targets}
  <2>1. active = Reachable(Tids, S, depends)
    BY DEF active, runtaskentries, Tids
  <2>2. active \subseteq Tids /\ WalkClosed(Tids, depends, active)
    <3> HIDE DEF S
    <3> QED
      BY <2>1, WalkStarts, WalkGoesOn
  <2>3. QED
    BY <1>2, <2>2 DEF WalkClosed, Tids
<1>4. Tids' = active
  BY <1>1 DEF Tids
<1>5. depends' \in [Tids' -> SUBSET Tids'] /\ \A t \in Tids' : depends'[t] = depends[t]
  BY <1>1, <1>3, <1>4
<1>6. revdeps' = [t \in Tids' |-> RevDepsOf(t)']
  <2>1. \A t \in active : RevDepsAmong(t, active) = RevDepsOf(t)'
    BY <1>4, <1>5 DEF RevDepsAmong, RevDepsOf
  <2>2. QED
    BY <1>1, <1>4, <2>1
<1>7. TreeInv'
  <2>1. \A t \in Tids' : depends'[t] = Recursed(t)'
    BY <1>1, <1>2, <1>3, <1>4, <1>5, DataSame
  <2>2. data'.taskentries \subseteq Tid /\ Tids' \subseteq data'.taskentries
    BY <1>1, <1>2, <1>3, <1>4
  <2>3. QED
    BY <1>1, <1>5, <1>6, <2>1, <2>2 DEF TreeInv
<1>8. WeighInv'
  BY <1>1 DEF WeighInv
<1>9. QED
  BY <1>7, <1>8 DEF PrepareInv

LEMMA TargetMissingKeeps ==
  ASSUME PrepareInv, TargetMissing
  PROVE  PrepareInv'
<1>1. UNCHANGED <<data, depends>> /\ step' = "nonexistent"
  BY DEF TargetMissing
<1>2. QED
  BY <1>1, TasksSame, DataSame DEF PrepareInv, TreeInv, WeighInv

\* The steps after the tasks are there change none of their dependencies.
LEMMA TreeKept ==
  ASSUME TreeInv, UNCHANGED <<data, depends, revdeps>>,
         step \in {"check", "weigh"}, step' \in {"weigh", "prepared", "circular"}
  PROVE  TreeInv'
BY TasksSame, DataSame DEF TreeInv

-----------------------------------------------------------------------------
(* Cycles *)

\* The check of length two finds a cycle, and only what nothing needs is done.
LEMMA CheckLengthTwoKeeps ==
  ASSUME PrepareInv, CheckLengthTwo
  PROVE  PrepareInv'
<1>1. /\ step = "check" /\ UNCHANGED <<data, depends, revdeps>>
      /\ endpoints' = {t \in runtaskentries : revdeps[t] = {}} /\ task_done' = endpoints'
      /\ deps_left' = [t \in runtaskentries |-> Cardinality(revdeps[t])]
      /\ step' = IF \E t \in runtaskentries : revdeps[t] \intersect depends[t] # {}
                 THEN "circular" ELSE "weigh"
  BY DEF CheckLengthTwo
<1>2. /\ depends \in [Tids -> SUBSET Tids] /\ revdeps = [t \in Tids |-> RevDepsOf(t)]
      /\ runtaskentries = Tids
  BY <1>1 DEF PrepareInv, TreeInv, runtaskentries, Tids
<1>3. TreeInv'
  BY <1>1, TreeKept DEF PrepareInv
<1>4. Tids' = Tids /\ \A t : RevDepsOf(t)' = RevDepsOf(t) /\ OnCycle(t)' = OnCycle(t)
  BY <1>1, TasksSame
<1>5. CASE step' = "circular"
  <2>1. PICK t \in Tids : RevDepsOf(t) \intersect depends[t] # {}
    BY <1>1, <1>2, <1>5
  <2>2. PICK r \in depends[t] : r \in Tids /\ t \in depends[r]
    BY <2>1 DEF RevDepsOf
  <2>3. OnCycle(t)
    <3>1. r \in Ancestors(t)
      BY <1>2, AncestorsAre
    <3>2. depends[r] \subseteq Ancestors(t)
      BY <1>2, <3>1, AncestorsAre
    <3>3. QED
      BY <2>2, <3>2 DEF OnCycle
  <2>4. WeighInv'
    BY <1>4, <1>5, <2>3 DEF WeighInv
  <2>5. QED
    BY <1>3, <2>4 DEF PrepareInv
<1>6. CASE step' = "weigh"
  <2>1. task_done' \subseteq Tids /\ task_done' \ endpoints' = {}
    BY <1>1, <1>2
  <2>2. \A t \in Tids : RevDepsOf(t) \ {} = RevDepsOf(t) /\ revdeps[t] = RevDepsOf(t)
    BY <1>2
  <2>3. \A t \in Tids : /\ t \in task_done' <=> RevDepsOf(t) \ {} = {}
                        /\ deps_left'[t] = Cardinality(RevDepsOf(t) \ {})
    BY <1>1, <1>2, <2>2
  <2>4. ASSUME NEW T \in SUBSET task_done', T # {}
        PROVE  \E t \in T : RevDepsOf(t)' \intersect T = {}
    BY <1>1, <1>2, <1>4, <2>2, <2>4
  <2>5. WeighInv'
    BY <1>1, <1>4, <1>6, <2>1, <2>3, <2>4 DEF WeighInv, Acyclic
  <2>6. QED
    BY <1>3, <2>5 DEF PrepareInv
<1>7. QED
  BY <1>1, <1>5, <1>6

\* A pass: what waits for nothing but the tasks of this pass is done.
LEMMA WeighEndpointsKeeps ==
  ASSUME PrepareInv, WeighEndpoints
  PROVE  PrepareInv'
<1> DEFINE passed == task_done \ endpoints
<1>1. /\ step = "weigh" /\ UNCHANGED <<data, step, depends, revdeps>>
      /\ deps_left' = [t \in runtaskentries |->
                         deps_left[t] - Cardinality(endpoints \intersect revdeps[t])]
      /\ endpoints' = {t \in runtaskentries :
                         endpoints \intersect revdeps[t] # {} /\ deps_left'[t] = 0}
      /\ task_done' = task_done \union endpoints'
  BY DEF WeighEndpoints
<1>2. /\ depends \in [Tids -> SUBSET Tids] /\ revdeps = [t \in Tids |-> RevDepsOf(t)]
      /\ runtaskentries = Tids /\ Tids \subseteq Tid
  BY <1>1 DEF PrepareInv, TreeInv, runtaskentries, Tids
<1>3. TreeInv'
  BY <1>1, TreeKept DEF PrepareInv
<1>4. Tids' = Tids /\ \A t : RevDepsOf(t)' = RevDepsOf(t)
  BY <1>1, TasksSame
<1>5. /\ endpoints \subseteq task_done /\ task_done \subseteq Tids /\ Acyclic(task_done)
      /\ \A t \in Tids : /\ t \in task_done <=> RevDepsOf(t) \ passed = {}
                         /\ deps_left[t] = Cardinality(RevDepsOf(t) \ passed)
  BY <1>1 DEF PrepareInv, WeighInv
<1>6. ASSUME NEW t \in Tids
      PROVE  /\ deps_left'[t] = Cardinality(RevDepsOf(t) \ task_done)
             /\ deps_left'[t] = 0 <=> RevDepsOf(t) \ task_done = {}
  <2> DEFINE waits == RevDepsOf(t) \ passed
  <2>1. IsFiniteSet(waits)
    <3>1. waits \in SUBSET Tid
      BY <1>2 DEF RevDepsOf
    <3>2. QED
      BY <3>1, TidFinite, FS_Subset
  <2>2. /\ waits \ endpoints = RevDepsOf(t) \ task_done
        /\ waits \intersect endpoints = endpoints \intersect revdeps[t]
    BY <1>2, <1>5
  <2>3. /\ IsFiniteSet(waits \ endpoints)
        /\ Cardinality(waits \ endpoints) = Cardinality(waits) - Cardinality(waits \intersect endpoints)
    <3> HIDE DEF waits
    <3> QED
      BY <2>1, FS_Difference
  <2>4. Cardinality(waits \ endpoints) = 0 <=> waits \ endpoints = {}
    <3> HIDE DEF waits
    <3> QED
      BY <2>3, FS_EmptySet
  <2>5. QED
    BY <1>1, <1>2, <1>5, <2>2, <2>3, <2>4
<1>7. endpoints' = {t \in Tids : endpoints \intersect RevDepsOf(t) # {} /\ RevDepsOf(t) \ task_done = {}}
  BY <1>1, <1>2, <1>6
<1>8. endpoints' \intersect task_done = {}
  BY <1>5, <1>7
<1>9. /\ endpoints' \subseteq task_done' /\ task_done' \subseteq Tids
      /\ task_done' \ endpoints' = task_done
  BY <1>1, <1>5, <1>7, <1>8
<1>10. ASSUME NEW t \in Tids PROVE t \in task_done' <=> RevDepsOf(t) \ task_done = {}
  <2>1. CASE endpoints \intersect RevDepsOf(t) # {}
    BY <1>1, <1>5, <1>7, <2>1
  <2>2. CASE endpoints \intersect RevDepsOf(t) = {}
    BY <1>1, <1>5, <1>7, <2>2
  <2>3. QED
    BY <2>1, <2>2
<1>11. ASSUME NEW T \in SUBSET task_done', T # {}
       PROVE  \E t \in T : RevDepsOf(t) \intersect T = {}
  <2>1. CASE T \intersect task_done = {}
    <3>1. PICK t \in T : t \in endpoints'
      BY <1>1, <1>11, <2>1
    <3>2. QED
      BY <1>7, <2>1, <3>1
  <2>2. CASE T \intersect task_done # {}
    <3>1. PICK t \in T \intersect task_done : RevDepsOf(t) \intersect (T \intersect task_done) = {}
      BY <1>5, <2>2 DEF Acyclic
    <3>2. RevDepsOf(t) \subseteq task_done
      BY <1>5, <3>1
    <3>3. QED
      BY <3>1, <3>2
  <2>3. QED
    BY <2>1, <2>2
<1>12. Acyclic(task_done)'
  BY <1>4, <1>11 DEF Acyclic
<1>13. WeighInv'
  BY <1>1, <1>4, <1>6, <1>9, <1>10, <1>12 DEF WeighInv
<1>14. QED
  BY <1>3, <1>13 DEF PrepareInv

\* What is left over at the end waits for some of the rest: there is a cycle.
LEMMA WeighEndKeeps ==
  ASSUME PrepareInv, WeighEnd
  PROVE  PrepareInv'
<1>1. /\ step = "weigh" /\ endpoints = {}
      /\ UNCHANGED <<data, depends, revdeps, task_done, endpoints, deps_left>>
      /\ step' = IF problem_tasks # {} THEN "circular" ELSE "prepared"
  BY DEF WeighEnd
<1>2. /\ depends \in [Tids -> SUBSET Tids] /\ runtaskentries = Tids /\ Tids \subseteq Tid
  BY <1>1 DEF PrepareInv, TreeInv, runtaskentries, Tids
<1>3. /\ task_done \subseteq Tids /\ Acyclic(task_done)
      /\ \A t \in Tids : /\ t \in task_done <=> RevDepsOf(t) \ task_done = {}
                         /\ deps_left[t] = Cardinality(RevDepsOf(t) \ task_done)
  <2>1. task_done \ endpoints = task_done
    BY <1>1
  <2>2. QED
    BY <1>1, <2>1 DEF PrepareInv, WeighInv
<1>4. TreeInv'
  BY <1>1, TreeKept DEF PrepareInv
<1>5. problem_tasks = Tids \ task_done
  <2>1. \A t \in task_done : deps_left[t] = 0
    BY <1>3, FS_EmptySet
  <2>2. QED
    BY <1>2, <1>3, <2>1 DEF problem_tasks
<1>6. CASE problem_tasks = {}
  <2>1. task_done = Tids
    BY <1>3, <1>5, <1>6
  <2>2. Acyclic(Tids)'
    BY <1>1, <1>3, <2>1, TasksSame
  <2>3. QED
    BY <1>1, <1>4, <1>6, <2>2 DEF PrepareInv, WeighInv
<1>7. CASE problem_tasks # {}
  <2> DEFINE R == Tids \ task_done
  <2>1. \A t \in R : RevDepsOf(t) \intersect R # {}
    BY <1>3 DEF RevDepsOf
  <2>2. IsFiniteSet(Tids)
    BY <1>2, TidFinite, FS_Subset
  <2>3. R \in SUBSET Tids /\ R # {}
    BY <1>5, <1>7
  <2>4. \E t \in Tids : OnCycle(t)
    <3> HIDE DEF R
    <3> QED
      BY <1>2, <2>1, <2>2, <2>3, CycleExists
  <2>5. Tids' = Tids /\ \A t : OnCycle(t)' = OnCycle(t)
    BY <1>1, TasksSame
  <2>6. QED
    BY <1>1, <1>4, <1>7, <2>4, <2>5 DEF PrepareInv, WeighInv
<1>8. QED
  BY <1>6, <1>7

\* Before prepare() only the task data is there.
LEMMA PrepareStarts ==
  ASSUME Init
  PROVE  PrepareInv
<1>1. /\ step \in {"resolve", "expand"}
      /\ data = EmptyTaskData \/ data \in TaskData
  BY DEF Init, PrepareStart
<1>2. data.taskentries \subseteq Tid
  BY <1>1, TaskDataAssumption DEF EmptyTaskData
<1>3. QED
  BY <1>1, <1>2 DEF PrepareInv, TreeInv, WeighInv

LEMMA HandOverPrepared ==
  ASSUME PrepareInv, HandOver
  PROVE  PrepareInv'
<1>1. data' = Resolved /\ step' \in {"raised", "expand"}
  BY DEF HandOver
<1>2. data'.taskentries \subseteq Tid
  BY <1>1 DEF Resolved, taskentries
<1>3. QED
  BY <1>1, <1>2 DEF PrepareInv, TreeInv, WeighInv

LEMMA SceneLeavesTasks ==
  ASSUME SceneStart \/ SceneStep
  PROVE  UNCHANGED prepareVars
BY DEF SceneStart, SceneStep, GraphStart, GraphNext, ProcessEndpoint, SquashDone,
       UnskippableDone, ResolveHardDeps, prepareVars

THEOREM PrepareInvariance == Spec => []PrepareInv
<1>1. Init => PrepareInv
  BY PrepareStarts
<1>2. PrepareInv /\ [Next]_vars => PrepareInv'
  <2> SUFFICES ASSUME PrepareInv, [Next]_vars PROVE PrepareInv'
    OBVIOUS
  <2>1. CASE ResolveStep
    BY <2>1, PrepareSame DEF ResolveStep
  <2>2. CASE HandOver
    BY <2>2, HandOverPrepared
  <2>3. CASE PrepareStep
    BY <2>3, ExpandKeeps, RecurseKeeps, RecurseRaisesKeeps, TargetMissingKeeps, MarkAndPruneKeeps,
       CheckLengthTwoKeeps, WeighEndpointsKeeps, WeighEndKeeps DEF PrepareStep, PrepareNext
  <2>4. CASE SceneStart \/ SceneStep
    BY <2>4, SceneLeavesTasks, PrepareSame
  <2>5. CASE UNCHANGED vars
    BY <2>5, PrepareSame DEF vars
  <2>6. QED
    BY <2>1, <2>2, <2>3, <2>4, <2>5 DEF Next
<1>3. QED
  BY <1>1, <1>2, PTL DEF Spec

\* prepare() refuses exactly the task data with a circular dependency
\* (CheckLengthTwo, calculate_task_weights), and hands over a closed graph.
THEOREM CycleDetectionHolds == Spec => []CycleDetection
<1>1. PrepareInv => CycleDetection
  <2> SUFFICES ASSUME PrepareInv PROVE CycleDetection
    OBVIOUS
  <2>1. step = "circular" => \E t \in runtaskentries : OnCycle(t)
    BY DEF PrepareInv, WeighInv, runtaskentries, Tids
  <2>2. ASSUME Prepared, NEW t \in runtaskentries
        PROVE  ~OnCycle(t) /\ depends[t] \subseteq runtaskentries
    <3>1. depends \in [Tids -> SUBSET Tids] /\ Acyclic(Tids) /\ runtaskentries = Tids
      BY <2>2 DEF PrepareInv, TreeInv, WeighInv, Prepared, runtaskentries, Tids
    <3>2. QED
      BY <2>2, <3>1, NoCycle
  <2>3. QED
    BY <2>1, <2>2 DEF CycleDetection
<1>2. QED
  BY <1>1, PrepareInvariance, PTL

\* What RunQueueExecute and the setscene stage assume of a run queue is what
\* prepare() hands over.
THEOREM RunQueueIsSound ==
  Spec => [](Prepared => /\ depends \in [Tids -> SUBSET Tids] /\ Acyclic(Tids)
                         /\ runq_setscene_tids \subseteq Tids)
<1>1. PrepareInv => (Prepared => /\ depends \in [Tids -> SUBSET Tids] /\ Acyclic(Tids)
                                 /\ runq_setscene_tids \subseteq Tids)
  BY DEF PrepareInv, TreeInv, WeighInv, Prepared, runq_setscene_tids, runtaskentries, Tids
<1>2. QED
  BY <1>1, PrepareInvariance, PTL

-----------------------------------------------------------------------------
(* Recursion *)

\* A task that needs no recursion of others waits for all its tree has.
LEMMA RecursionOverTree ==
  ASSUME TreeInv, NEW t \in recursivetasks, NEW u \in OwnTree(t)
  PROVE  u \in RecTreeOf(t)
<1> DEFINE names == data.recrdeptask[t[2]]
           edges == [x \in Tid |->
             UNION {dependsOf(i) : i \in ({x} \union TasksOf({x[1]}, names)) \intersect data.taskentries}]
           roots == {t} \union ({t[1]} \X data.recideptask[t[2]])
           W == RecTreeOf(t) \intersect data.taskentries
<1>1. t \in data.taskentries /\ data.taskentries \subseteq Tid
  BY DEF recursivetasks, TreeInv
<1>2. RecTreeOf(t) = Reachable(Tid, roots, edges)
  BY DEF RecTreeOf
<1>3. roots \intersect Tid \subseteq RecTreeOf(t) /\ WalkClosed(Tid, edges, RecTreeOf(t))
  <2> HIDE DEF roots, edges
  <2> QED
    BY <1>2, WalkStarts, WalkGoesOn
<1>4. \A x \in W : dependsOf(x) \intersect data.taskentries \subseteq W
  <2>1. ASSUME NEW x \in W PROVE dependsOf(x) \subseteq edges[x] /\ x \in DOMAIN edges
    BY <1>1, <2>1
  <2>2. ASSUME NEW x \in W PROVE edges[x] \intersect Tid \subseteq RecTreeOf(t)
    BY <1>3, <2>1, <2>2 DEF WalkClosed
  <2>3. QED
    BY <1>1, <2>1, <2>2
<1>5. OwnTree(t) \subseteq W
  <2> DEFINE own == [x \in data.taskentries |-> dependsOf(x)]
  <2>1. WalkClosed(data.taskentries, own, W)
    BY <1>4 DEF WalkClosed
  <2>2. {t} \intersect data.taskentries \subseteq W /\ W \in SUBSET data.taskentries
    BY <1>1, <1>3
  <2>3. OwnTree(t) = Reachable(data.taskentries, {t}, own)
    BY DEF OwnTree
  <2>4. QED
    <3> HIDE DEF own, W
    <3> QED
      BY <2>1, <2>2, <2>3, WalkIsLeast
<1>6. QED
  BY <1>5

\* The recipes recursion comes to, and the tasks it comes to or adds.
RecipesOf(t) == {w[1] : w \in RecTreeOf(t)}
Entered(t) ==
  {x \in Tid : x \in RecTreeOf(t) \/ (x[1] \in RecipesOf(t) /\ x[2] \in data.recrdeptask[t[2]])}

LEMMA EnteredAre ==
  ASSUME data.taskentries \subseteq Tid, NEW t \in recursivetasks
  PROVE  /\ t \in Entered(t)
         /\ \A x \in Entered(t) : x[1] \in RecipesOf(t)
         /\ \A i \in Entered(t) \intersect data.taskentries :
              dependsOf(i) \intersect Tid \subseteq Entered(t)
<1> DEFINE names == data.recrdeptask[t[2]]
           edges == [x \in Tid |->
             UNION {dependsOf(i) : i \in ({x} \union TasksOf({x[1]}, names)) \intersect data.taskentries}]
           roots == {t} \union ({t[1]} \X data.recideptask[t[2]])
<1>1. t \in Tid
  BY DEF recursivetasks
<1>2. RecTreeOf(t) = Reachable(Tid, roots, edges)
  BY DEF RecTreeOf
<1>3. /\ roots \intersect Tid \subseteq RecTreeOf(t) /\ RecTreeOf(t) \subseteq Tid
      /\ WalkClosed(Tid, edges, RecTreeOf(t))
  <2> HIDE DEF roots, edges
  <2> QED
    BY <1>2, WalkStarts, WalkGoesOn
<1>4. \A x \in Entered(t) : x[1] \in RecipesOf(t)
  BY DEF Entered, RecipesOf
<1>5. ASSUME NEW i \in Entered(t) \intersect data.taskentries
      PROVE  dependsOf(i) \intersect Tid \subseteq Entered(t)
  <2>1. PICK w \in RecTreeOf(t) : i = w \/ i \in TasksOf({w[1]}, names)
    <3>1. CASE i \in RecTreeOf(t)
      BY <3>1
    <3>2. CASE i[1] \in RecipesOf(t) /\ i[2] \in names
      <4>1. PICK w \in RecTreeOf(t) : i[1] = w[1]
        BY <3>2 DEF RecipesOf
      <4>2. i \in Tid /\ i = <<i[1], i[2]>>
        BY DEF Tid
      <4>3. i \in {w[1]} \X names
        BY <3>2, <4>1, <4>2
      <4>4. QED
        BY <4>1, <4>3 DEF TasksOf
    <3>3. QED
      BY <3>1, <3>2 DEF Entered
  <2>2. dependsOf(i) \subseteq edges[w] /\ w \in DOMAIN edges
    BY <1>3, <2>1
  <2>3. edges[w] \intersect Tid \subseteq RecTreeOf(t)
    BY <1>3, <2>1, <2>2 DEF WalkClosed
  <2>4. QED
    BY <2>2, <2>3 DEF Entered
<1>6. t \in Entered(t)
  BY <1>1, <1>3 DEF Entered
<1>7. QED
  BY <1>4, <1>5, <1>6

\* A recursive task on the way, whose flags name nothing else, comes to no other
\* recipes.
LEMMA RecursionWithin ==
  ASSUME data.taskentries \subseteq Tid, NEW t \in recursivetasks,
         NEW x \in recursivetasks, x \in Entered(t),
         data.recrdeptask[x[2]] \union data.recideptask[x[2]] \subseteq data.recrdeptask[t[2]]
  PROVE  RecTreeOf(x) \subseteq Entered(t)
<1> DEFINE names == data.recrdeptask[x[2]]
           edges == [y \in Tid |->
             UNION {dependsOf(i) : i \in ({y} \union TasksOf({y[1]}, names)) \intersect data.taskentries}]
           roots == {x} \union ({x[1]} \X data.recideptask[x[2]])
<1>1. RecTreeOf(x) = Reachable(Tid, roots, edges)
  BY DEF RecTreeOf
<1>2. Entered(t) \in SUBSET Tid
  BY DEF Entered
<1>3. x[1] \in RecipesOf(t)
  BY EnteredAre
<1>4. roots \intersect Tid \subseteq Entered(t)
  <2>1. ASSUME NEW n \in data.recideptask[x[2]], <<x[1], n>> \in Tid
        PROVE  <<x[1], n>> \in Entered(t)
    <3>1. <<x[1], n>>[1] = x[1] /\ <<x[1], n>>[2] = n
      OBVIOUS
    <3>2. QED
      BY <1>3, <2>1, <3>1 DEF Entered
  <2>2. QED
    BY <2>1
<1>5. ASSUME NEW y \in Entered(t), NEW d \in edges[y] \intersect Tid
      PROVE  d \in Entered(t)
  <2>1. PICK i \in ({y} \union TasksOf({y[1]}, names)) \intersect data.taskentries : d \in dependsOf(i)
    BY <1>2, <1>5
  <2>2. i \in Entered(t)
    <3>1. CASE i = y
      BY <3>1
    <3>2. CASE i \in TasksOf({y[1]}, names)
      <4>1. i[1] = y[1] /\ i[2] \in data.recrdeptask[t[2]] /\ i \in Tid
        BY <2>1, <3>2 DEF TasksOf
      <4>2. y[1] \in RecipesOf(t)
        BY EnteredAre
      <4>3. QED
        BY <4>1, <4>2 DEF Entered
    <3>3. QED
      BY <2>1, <3>1, <3>2
  <2>3. QED
    BY <1>5, <2>1, <2>2, EnteredAre
<1>6. WalkClosed(Tid, edges, Entered(t))
  BY <1>5 DEF WalkClosed
<1>7. QED
  <2> HIDE DEF roots, edges
  <2> QED
    BY <1>1, <1>2, <1>4, <1>6, WalkIsLeast

LEMMA AncestorsEntered ==
  ASSUME data.taskentries \subseteq Tid, Tids \subseteq data.taskentries,
         depends \in [Tids -> SUBSET Tids], \A t \in Tids : depends[t] = Recursed(t),
         NEW t \in recursivetasks, t \in Tids, NamesAll(t)
  PROVE  Ancestors(t) \subseteq Entered(t)
<1> DEFINE W == Ancestors(t) \intersect Entered(t)
<1>1. ASSUME NEW x \in Entered(t) \intersect Tids,
             x \in recursivetasks =>
               data.recrdeptask[x[2]] \union data.recideptask[x[2]] \subseteq data.recrdeptask[t[2]]
                 \/ x = t
      PROVE  depends[x] \subseteq Entered(t)
  <2>1. SUFFICES ASSUME NEW d \in depends[x] PROVE d \in Entered(t)
    OBVIOUS
  <2>2. d \in Tid /\ d \in Recursed(x)
    BY <2>1
  <2>3. CASE d \in dependsOf(x)
    BY <2>2, <2>3, EnteredAre
  <2>4. CASE x \in recursivetasks /\ d \in TasksOf(RecipesOf(x), data.recrdeptask[x[2]])
    <3>1. d[1] \in RecipesOf(x) /\ d[2] \in data.recrdeptask[x[2]]
      BY <2>4 DEF TasksOf
    <3>2. CASE x = t
      BY <2>2, <3>1, <3>2 DEF Entered
    <3>3. CASE data.recrdeptask[x[2]] \union data.recideptask[x[2]] \subseteq data.recrdeptask[t[2]]
      <4>1. PICK w \in RecTreeOf(x) : d[1] = w[1]
        BY <3>1 DEF RecipesOf
      <4>2. w \in Entered(t)
        BY <2>4, <3>3, <4>1, RecursionWithin
      <4>3. w[1] \in RecipesOf(t)
        BY <4>2, EnteredAre
      <4>4. QED
        BY <2>2, <3>1, <3>3, <4>1, <4>3 DEF Entered
    <3>4. QED
      BY <1>1, <2>4, <3>2, <3>3
  <2>5. QED
    BY <2>2, <2>3, <2>4 DEF Recursed, RecipesOf
<1>2. depends[t] \subseteq W
  <2>1. depends[t] \subseteq Entered(t)
    BY <1>1, EnteredAre
  <2>2. QED
    BY <2>1, AncestorsAre
<1>3. ASSUME NEW x \in W PROVE depends[x] \subseteq W
  <2>1. x \in recursivetasks =>
          data.recrdeptask[x[2]] \union data.recideptask[x[2]] \subseteq data.recrdeptask[t[2]]
    BY DEF NamesAll
  <2>2. x \in Tids /\ depends[x] \subseteq Ancestors(t)
    BY AncestorsAre
  <2>3. depends[x] \subseteq Entered(t)
    BY <1>1, <2>1, <2>2
  <2>4. QED
    BY <2>2, <2>3
<1>4. W \in SUBSET Tids
  BY AncestorsAre
<1>5. Ancestors(t) \subseteq W
  <2> HIDE DEF W
  <2> QED
    BY <1>2, <1>3, <1>4, AncestorsLeast
<1>6. QED
  BY <1>5

\* recrdeptask (RunQueueData.prepare, generate_recdeps): the task waits for what
\* it names of every recipe in its tree, and of those other recursive tasks bring
\* it to when their flags name no more than its own.
THEOREM RecursionCompleteHolds == Spec => []RecursionComplete
<1>1. PrepareInv => RecursionComplete
  <2> SUFFICES ASSUME PrepareInv, step \in {"check", "weigh", "prepared"},
                      NEW t \in recursivetasks \intersect runtaskentries,
                      NEW u \in OwnTree(t) \union (IF NamesAll(t) THEN Ancestors(t) ELSE {}),
                      NEW x \in TasksOf({u[1]}, data.recrdeptask[t[2]])
                                  \ (recursivetasksselfref \union {t})
               PROVE  x \in Ancestors(t)
    BY DEF RecursionComplete
  <2>1. /\ data.taskentries \subseteq Tid /\ Tids \subseteq data.taskentries
        /\ depends \in [Tids -> SUBSET Tids] /\ \A s \in Tids : depends[s] = Recursed(s)
        /\ t \in Tids
    BY DEF PrepareInv, TreeInv, runtaskentries, Tids
  <2>2. u[1] \in RecipesOf(t)
    <3>1. CASE u \in OwnTree(t)
      BY <3>1, RecursionOverTree DEF PrepareInv, RecipesOf
    <3>2. CASE NamesAll(t) /\ u \in Ancestors(t)
      <4>1. u \in Entered(t)
        BY <2>1, <3>2, AncestorsEntered
      <4>2. QED
        BY <2>1, <4>1, EnteredAre
    <3>3. QED
      BY <3>1, <3>2
  <2>3. x \in TasksOf(RecipesOf(t), data.recrdeptask[t[2]])
    BY <2>2 DEF TasksOf
  <2>4. x \in Recursed(t)
    BY <2>3 DEF Recursed, RecipesOf
  <2>5. QED
    BY <2>1, <2>4, AncestorsAre
<1>2. QED
  BY <1>1, PrepareInvariance, PTL

-----------------------------------------------------------------------------
(* Which recipes are eligible, and in which order they are tried *)

\* Of finitely many things, one has the least measure and one the greatest.
LEMMA LeastExists ==
  ASSUME NEW S, IsFiniteSet(S), S # {}, NEW measure, \A f \in S : measure[f] \in Int
  PROVE  \E f \in S : \A g \in S : measure[f] <= measure[g]
<1> DEFINE Below(f) == {g \in S : measure[g] < measure[f]}
           F == {Below(f) : f \in S}
<1>1. F \subseteq SUBSET S /\ F # {}
  OBVIOUS
<1>2. IsWellFoundedOn(StrictSubsetOrdering(S), SUBSET S)
  BY FS_FiniteSubsetsOfFinite, FS_StrictSubsetOrderingWellFounded
<1>3. PICK A \in F : \A B \in F : ~(<<B, A>> \in StrictSubsetOrdering(S))
  <2> HIDE DEF F
  <2> QED
    BY <1>1, <1>2, WFMin
<1>4. PICK f \in S : A = Below(f)
  BY <1>3
<1>5. ASSUME NEW g \in S, ~(measure[f] <= measure[g]) PROVE FALSE
  <2>1. measure[g] < measure[f]
    BY <1>5
  <2>2. Below(g) \subseteq Below(f) /\ g \in Below(f) /\ g \notin Below(g)
    BY <2>1
  <2>3. Below(g) \in F /\ Below(g) \in SUBSET S /\ Below(f) \in SUBSET S
    OBVIOUS
  <2>4. <<Below(g), Below(f)>> \in StrictSubsetOrdering(S)
    BY <2>2, <2>3 DEF StrictSubsetOrdering
  <2>5. QED
    BY <1>3, <1>4, <2>3, <2>4
<1>6. QED
  BY <1>5

LEMMA ExtremesExist ==
  ASSUME NEW S, IsFiniteSet(S), S # {}, NEW measure, \A f \in S : measure[f] \in Int
  PROVE  /\ Highest(S, measure) # {} /\ Highest(S, measure) \subseteq S
         /\ Lowest(S, measure) # {} /\ Lowest(S, measure) \subseteq S
<1>1. \E f \in S : \A g \in S : measure[f] <= measure[g]
  BY LeastExists
<1> DEFINE negated == [f \in S |-> 0 - measure[f]]
<1>2. \A f \in S : negated[f] \in Int
  OBVIOUS
<1>3. PICK f \in S : \A g \in S : negated[f] <= negated[g]
  <2> HIDE DEF negated
  <2> QED
    BY <1>2, LeastExists
<1>4. \A g \in S : measure[g] <= measure[f]
  BY <1>3
<1>5. QED
  BY <1>1, <1>4 DEF Highest, Lowest

LEMMA MinIsIn ==
  ASSUME NEW S, S \subseteq Int, IsFiniteSet(S), S # {}
  PROVE  Min(S) \in S
<1> DEFINE same == [x \in S |-> x]
<1>1. \A x \in S : same[x] \in Int
  OBVIOUS
<1>2. \E x \in S : \A y \in S : same[x] <= same[y]
  <2> HIDE DEF same
  <2> QED
    BY <1>1, LeastExists
<1>3. \E x \in S : \A y \in S : x <= y
  BY <1>2
<1>4. QED
  BY <1>3 DEF Min

\* findPreferredProvider and findLatestProvider return one of what they are given.
LEMMA FoundAmong ==
  ASSUME CacheOK(cache), NEW files, files \subseteq recipes
  PROVE  /\ findPreferredProvider(files) \subseteq files
         /\ files # {} => findLatestProvider(files) \in files
<1>1. /\ IsFiniteSet(recipes) /\ recipes \subseteq Int
      /\ \A f \in recipes : cache.bbfile_priority[f] \in Int /\ cache.pkg_dp[f] \in Int
                              /\ cache.version[f] \in Int
  BY DEF CacheOK, recipes
<1>2. \A S : S \subseteq recipes =>
        IsFiniteSet(S) /\ S \subseteq Int
  BY <1>1, FS_Subset
<1>3. \A S : S \subseteq recipes /\ S # {} => Min(S) \in S
  BY <1>2, MinIsIn
<1>4. findPreferredProvider(files) \subseteq files
  <2> DEFINE matching == {f \in files : cache.preferred_version[f]}
             high == Highest(matching, cache.bbfile_priority)
             low == Lowest(high, cache.pkg_dp)
  <2>1. CASE matching = {}
    BY <2>1 DEF findPreferredProvider
  <2>2. CASE matching # {}
    <3>1. matching \subseteq recipes
      OBVIOUS
    <3>2. high # {} /\ high \subseteq matching
      BY <1>1, <1>2, <2>2, <3>1, ExtremesExist
    <3>3. low # {} /\ low \subseteq high
      <4>1. IsFiniteSet(high) /\ \A f \in high : cache.pkg_dp[f] \in Int
        BY <1>1, <1>2, <3>1, <3>2
      <4> HIDE DEF high
      <4> QED
        BY <3>2, <4>1, ExtremesExist
    <3>4. Min(low) \in low
      BY <1>3, <3>1, <3>2, <3>3
    <3>5. findPreferredProvider(files) = {Min(low)}
      BY <2>2 DEF findPreferredProvider
    <3>6. QED
      BY <3>2, <3>3, <3>4, <3>5
  <2>3. QED
    BY <2>1, <2>2
<1>5. ASSUME files # {} PROVE findLatestProvider(files) \in files
  <2> DEFINE high == Highest(files, cache.bbfile_priority)
             best == Highest(high, cache.pkg_dp)
             latest == Highest(best, cache.version)
  <2>1. high # {} /\ high \subseteq files
    BY <1>1, <1>2, <1>5, ExtremesExist
  <2>2. best # {} /\ best \subseteq high
    <3>1. IsFiniteSet(high) /\ \A f \in high : cache.pkg_dp[f] \in Int
      BY <1>1, <1>2, <2>1
    <3> HIDE DEF high
    <3> QED
      BY <2>1, <3>1, ExtremesExist
  <2>3. latest # {} /\ latest \subseteq best
    <3>1. IsFiniteSet(best) /\ \A f \in best : cache.version[f] \in Int
      BY <1>1, <1>2, <2>1, <2>2
    <3> HIDE DEF best
    <3> QED
      BY <2>2, <3>1, ExtremesExist
  <2>4. Min(latest) \in latest
    BY <1>3, <2>1, <2>2, <2>3
  <2>5. QED
    BY <2>1, <2>2, <2>3, <2>4 DEF findLatestProvider
<1>6. QED
  BY <1>4, <1>5

\* What is eligible for an item provides it.
LEMMA EligibleProvide ==
  ASSUME CacheOK(cache), NEW k, NEW item
  PROVE  /\ Eligible(ProvidersOf(k, item)) \subseteq recipes
         /\ IsFiniteSet(Eligible(ProvidersOf(k, item)))
<1> DEFINE P == ProvidersOf(k, item)
<1>1. P \subseteq recipes
  BY DEF ProvidersOf
<1>2. ASSUME NEW x \in Eligible(P) PROVE x \in recipes
  <2>1. PICK pn \in {cache.pkg_fn[f] : f \in P} :
          x = LET files == {f \in P : cache.pkg_fn[f] = pn}
                  preferred == findPreferredProvider(files)
              IN IF preferred # {} THEN CHOOSE f \in preferred : TRUE ELSE findLatestProvider(files)
    BY <1>2 DEF Eligible
  <2> DEFINE files == {f \in P : cache.pkg_fn[f] = pn}
             preferred == findPreferredProvider(files)
  <2>2. files # {} /\ files \subseteq recipes
    BY <1>1
  <2>3. preferred \subseteq files /\ findLatestProvider(files) \in files
    <3> HIDE DEF files
    <3> QED
      BY <2>2, FoundAmong
  <2>4. x = IF preferred # {} THEN CHOOSE f \in preferred : TRUE ELSE findLatestProvider(files)
    BY <2>1
  <2>5. x \in files
    <3> HIDE DEF files, preferred
    <3> QED
      BY <2>3, <2>4
  <2>6. QED
    BY <2>2, <2>5
<1>3. IsFiniteSet(recipes)
  BY DEF CacheOK, recipes
<1>4. QED
  BY <1>2, <1>3, FS_Subset

\* list.remove: the first of the same is gone, the others are left.
LEMMA RemoveFirstKeeps ==
  ASSUME NEW E, NEW s \in Seq(E), NEW e
  PROVE  /\ RemoveFirst(s, e) \in Seq(E)
         /\ ToSet(RemoveFirst(s, e)) \subseteq ToSet(s)
         /\ ToSet(s) \subseteq ToSet(RemoveFirst(s, e)) \union {e}
<1>1. CASE ~ \E i \in 1..Len(s) : s[i] = e
  BY <1>1 DEF RemoveFirst
<1>2. CASE \E i \in 1..Len(s) : s[i] = e
  <2> DEFINE I == {i \in 1..Len(s) : s[i] = e}
             n == Min(I)
             before == SubSeq(s, 1, n - 1)
             after == SubSeq(s, n + 1, Len(s))
             r == before \o after
  <2>1. Len(s) \in Nat /\ DOMAIN s = 1..Len(s)
    OBVIOUS
  <2>2. I # {} /\ I \subseteq Int /\ IsFiniteSet(I)
    <3>1. IsFiniteSet(1..Len(s))
      BY <2>1, FS_Interval
    <3>2. IsFiniteSet(I)
      BY <3>1, FS_Subset
    <3>3. QED
      BY <1>2, <2>1, <3>2
  <2>3. n \in I
    <3> HIDE DEF I
    <3> QED
      BY <2>2, MinIsIn
  <2>4. n \in 1..Len(s) /\ s[n] = e
    BY <2>3
  <2>5. RemoveFirst(s, e) = r
    BY <1>2 DEF RemoveFirst, RemoveAt, SelectInSeq
  <2> HIDE DEF n
  <2>6. Len(s) \in Nat /\ n \in Int /\ 1 <= n /\ n <= Len(s)
    BY <2>1, <2>4
  <2> HIDE DEF r
  <2>7. /\ before \in Seq(E) /\ Len(before) = n - 1
        /\ \A i \in 1..(n - 1) : before[i] = s[i]
    <3>1. /\ before \in Seq(E)
          /\ Len(before) = IF 1 <= n - 1 THEN n - 1 ELSE 0
          /\ \A i \in 1..(n - 1) - 1 + 1 : before[i] = s[1 + i - 1]
      <4>1. (n - 1) \in Int /\ 1 \in Int /\ \A i \in 1..(n - 1) : s[i] \in E
        BY <2>1, <2>4
      <4>2. /\ before \in Seq(E)
            /\ Len(before) = IF 1 <= n - 1 THEN (n - 1) - 1 + 1 ELSE 0
            /\ \A i \in 1..(n - 1) - 1 + 1 : before[i] = s[1 + i - 1]
        BY <4>1, SubSeqProperties
      <4>3. (n - 1) - 1 + 1 = n - 1
        BY <4>1
      <4>4. QED
        BY <4>2, <4>3
    <3>2. Len(before) = n - 1
      <4> HIDE DEF before
      <4> QED
        BY <2>1, <2>4, <3>1
    <3>3. \A i \in 1..(n - 1) : before[i] = s[i]
      <4> HIDE DEF before
      <4> QED
        BY <2>1, <2>4, <3>1
    <3>4. QED
      BY <3>1, <3>2, <3>3
  <2>8. /\ after \in Seq(E) /\ Len(after) = Len(s) - n
        /\ \A i \in 1..(Len(s) - n) : after[i] = s[n + i]
    <3>1. n + 1 \in 1..(Len(s) + 1) /\ Len(s) \in n..Len(s)
      BY <2>1, <2>4
    <3>2. /\ after \in Seq(E)
          /\ Len(after) = IF n + 1 <= Len(s) THEN Len(s) - (n + 1) + 1 ELSE 0
          /\ \A i \in 1..(Len(s) - (n + 1) + 1) : after[i] = s[n + 1 + i - 1]
      <4>1. n + 1 \in Int /\ Len(s) \in Int /\ \A i \in (n + 1)..Len(s) : s[i] \in E
        BY <2>1, <3>1
      <4>2. QED
        BY <4>1, SubSeqProperties
    <3>3. Len(after) = Len(s) - n
      <4> HIDE DEF after
      <4>1. Len(after) = IF n + 1 <= Len(s) THEN Len(s) - (n + 1) + 1 ELSE 0
        BY <3>2
      <4>2. \A m, k \in Int : 0 <= m /\ k <= m =>
              m - k = IF k + 1 <= m THEN m - (k + 1) + 1 ELSE 0
        OBVIOUS
      <4>3. Len(s) \in Int /\ n \in Int /\ 0 <= Len(s) /\ n <= Len(s)
        BY <2>6
      <4>4. Len(s) - n = IF n + 1 <= Len(s) THEN Len(s) - (n + 1) + 1 ELSE 0
        BY <4>2, <4>3, Zenon
      <4>5. QED
        BY <4>1, <4>4
    <3>4. \A i \in 1..(Len(s) - n) : after[i] = s[n + i]
      <4> HIDE DEF after
      <4> QED
        BY <2>6, <3>2
    <3>5. QED
      BY <3>2, <3>3, <3>4
  <2> HIDE DEF before, after
  <2>9. /\ r \in Seq(E) /\ Len(r) = Len(s) - 1
        /\ \A i \in 1..(n - 1) : r[i] = s[i]
        /\ \A i \in n..(Len(s) - 1) : r[i] = s[i + 1]
    <3> USE DEF r
    <3>0. /\ r \in Seq(E) /\ Len(r) = Len(before) + Len(after)
          /\ \A i \in 1..(Len(before) + Len(after)) :
               r[i] = IF i <= Len(before) THEN before[i] ELSE after[i - Len(before)]
      BY <2>7, <2>8, ConcatProperties
    <3> HIDE DEF r
    <3>1. r \in Seq(E) /\ Len(r) = Len(s) - 1
      <4>1. (n - 1) + (Len(s) - n) = Len(s) - 1
        BY <2>6
      <4>2. Len(r) = (n - 1) + (Len(s) - n)
        BY <2>7, <2>8, <3>0, Zenon
      <4>3. QED
        BY <3>0, <4>1, <4>2, Zenon
    <3>2. \A i \in 1..(n - 1) : r[i] = s[i]
      <4>1. TAKE i \in 1..(n - 1)
      <4>2. i \in 1..((n - 1) + (Len(s) - n)) /\ i <= n - 1
        BY <2>6, <4>1
      <4>3. r[i] = before[i]
        BY <2>7, <2>8, <3>0, <4>2, Zenon
      <4>4. QED
        BY <2>7, <4>1, <4>3, Zenon
    <3>3. \A i \in n..(Len(s) - 1) : r[i] = s[i + 1]
      <4>1. TAKE i \in n..(Len(s) - 1)
      <4>2. i \in Int /\ i >= n /\ i <= Len(s) - 1 /\ n \in Int
        BY <2>1, <2>4
      <4>3. r[i] = after[i - (n - 1)]
        <5>1. i \in 1..((n - 1) + (Len(s) - n)) /\ ~(i <= n - 1)
          BY <2>6, <4>2
        <5>2. QED
          BY <2>7, <2>8, <3>0, <5>1, Zenon
      <4>4. i - (n - 1) \in 1..(Len(s) - n) /\ n + (i - (n - 1)) = i + 1
        BY <2>1, <4>2
      <4>5. QED
        BY <2>8, <4>3, <4>4
    <3>4. QED
      BY <3>1, <3>2, <3>3
  <2> HIDE DEF r
  <2>10. ASSUME NEW x \in ToSet(r) PROVE x \in ToSet(s)
    <3>1. PICK i \in 1..(Len(s) - 1) : x = r[i]
      BY <2>1, <2>9, <2>10 DEF ToSet
    <3>2. CASE i < n
      BY <2>1, <2>4, <2>9, <3>1, <3>2 DEF ToSet
    <3>3. CASE i >= n
      BY <2>1, <2>4, <2>9, <3>1, <3>3 DEF ToSet
    <3>4. QED
      BY <2>4, <3>2, <3>3
  <2>11. ASSUME NEW x \in ToSet(s), x # e PROVE x \in ToSet(r)
    <3>1. PICK i \in 1..Len(s) : x = s[i]
      BY <2>1, <2>11 DEF ToSet
    <3>2. i # n
      BY <2>4, <2>11, <3>1
    <3>3. DOMAIN r = 1..(Len(s) - 1)
      BY <2>9
    <3>4. CASE i < n
      <4>1. i \in 1..(n - 1) /\ i \in DOMAIN r
        BY <2>6, <3>1, <3>3, <3>4
      <4>2. r[i] = x
        BY <2>9, <3>1, <4>1, Zenon
      <4>3. QED
        BY <4>1, <4>2 DEF ToSet
    <3>5. CASE i > n
      <4>1. i - 1 \in 1..(Len(s) - 1) /\ i - 1 \in n..(Len(s) - 1) /\ (i - 1) + 1 = i
        BY <2>1, <2>4, <3>5
      <4>2. r[i - 1] = x
        BY <2>9, <3>1, <4>1
      <4>3. QED
        BY <3>3, <4>1, <4>2 DEF ToSet
    <3>6. QED
      BY <2>4, <3>1, <3>2, <3>4, <3>5
  <2>12. QED
    BY <2>5, <2>9, <2>10, <2>11
<1>3. QED
  BY <1>1, <1>2

LEMMA ToFrontKeeps ==
  ASSUME NEW E, NEW s \in Seq(E), NEW f \in ToSet(s)
  PROVE  ToFront(f, s) \in Seq(E) /\ ToSet(ToFront(f, s)) = ToSet(s)
<1> DEFINE r == RemoveFirst(s, f)
<1>1. /\ r \in Seq(E) /\ ToSet(r) \subseteq ToSet(s) /\ ToSet(s) \subseteq ToSet(r) \union {f}
  BY RemoveFirstKeeps
<1>2. f \in E
  BY DEF ToSet
<1> HIDE DEF r
<1>3. <<f>> \o r \in Seq(E) /\ ToSet(<<f>> \o r) = {f} \union ToSet(r)
  <2>1. /\ <<f>> \o r \in Seq(E) /\ Len(<<f>> \o r) = Len(r) + 1 /\ Len(r) \in Nat
        /\ DOMAIN r = 1..Len(r) /\ DOMAIN (<<f>> \o r) = 1..(Len(r) + 1)
        /\ (<<f>> \o r)[1] = f /\ \A i \in 1..Len(r) : (<<f>> \o r)[i + 1] = r[i]
    BY <1>1, <1>2
  <2> DEFINE q == <<f>> \o r
  <2> HIDE DEF q
  <2>2. ASSUME NEW x \in ToSet(q) PROVE x \in {f} \union ToSet(r)
    <3>1. PICK i \in 1..(Len(r) + 1) : x = q[i]
      BY <2>1, <2>2 DEF ToSet, q
    <3>2. CASE i = 1
      BY <2>1, <3>1, <3>2 DEF q
    <3>3. CASE i # 1
      <4>1. i - 1 \in 1..Len(r) /\ (i - 1) + 1 = i
        BY <2>1, <3>1, <3>3
      <4>2. x = r[i - 1]
        BY <2>1, <3>1, <4>1 DEF q
      <4>3. QED
        BY <2>1, <4>1, <4>2 DEF ToSet
    <3>4. QED
      BY <3>2, <3>3
  <2>3. ASSUME NEW x \in {f} \union ToSet(r) PROVE x \in ToSet(q)
    <3>1. CASE x = f
      <4>1. 1 \in DOMAIN q /\ q[1] = x
        BY <2>1, <3>1 DEF q
      <4>2. QED
        BY <4>1 DEF ToSet
    <3>2. CASE x # f
      <4>1. PICK i \in 1..Len(r) : x = r[i]
        BY <2>1, <2>3, <3>2 DEF ToSet
      <4>2. i + 1 \in DOMAIN q /\ q[i + 1] = x
        BY <2>1, <4>1 DEF q
      <4>3. QED
        BY <4>2 DEF ToSet
    <3>3. QED
      BY <3>1, <3>2
  <2>4. QED
    BY <2>1, <2>2, <2>3 DEF q
<1>4. QED
  BY <1>1, <1>3 DEF ToFront, r

\* An order of a finite set has all its members.
LEMMA RankedHasAll ==
  ASSUME NEW E, IsFiniteSet(E), NEW rank, NEW s \in Ranked(E, rank)
  PROVE  s \in Seq(E) /\ ToSet(s) = E
<1> DEFINE D == 1..Cardinality(E)
<1>1. Cardinality(E) \in Nat
  BY FS_CardinalityType
<1>2. s \in [D -> E] /\ \A i, j \in D : i # j => s[i] # s[j]
  BY DEF Ranked, SetToSeqs
<1>3. s \in Seq(E) /\ DOMAIN s = D
  BY <1>1, <1>2
<1>4. IsFiniteSet(D) /\ Cardinality(D) = Cardinality(E)
  BY <1>1, FS_Interval
<1>5. s \in Injection(D, E)
  BY <1>2 DEF Injection, IsInjective
<1>6. s \in Surjection(D, E)
  <2> HIDE DEF D
  <2> QED
    BY <1>4, <1>5, FS_Injection
<1>7. \A e \in E : \E i \in D : s[i] = e
  BY <1>6 DEF Surjection
<1>8. QED
  BY <1>2, <1>3, <1>7 DEF ToSet

LEMMA InferredKeeps ==
  ASSUME NEW E, NEW s \in Seq(E), NEW c
  PROVE  InferredOrder(c, s) \in Seq(E) /\ ToSet(InferredOrder(c, s)) = ToSet(s)
<1>1. CASE Speakers(c, s) = {}
  BY <1>1 DEF InferredOrder
<1>2. CASE Speakers(c, s) # {}
  <2> DEFINE first == Min(Speakers(c, s))
  <2>1. Speakers(c, s) \subseteq 1..Len(s) /\ Len(s) \in Nat
    BY DEF Speakers
  <2>2. Speakers(c, s) \subseteq Int /\ IsFiniteSet(Speakers(c, s))
    <3>1. IsFiniteSet(1..Len(s))
      BY <2>1, FS_Interval
    <3>2. QED
      BY <2>1, <3>1, FS_Subset
  <2>3. first \in Speakers(c, s)
    BY <1>2, <2>2, MinIsIn
  <2>4. SpeaksFor(c, s[first], s, {}) # {}
    BY <2>3 DEF Speakers
  <2>5. SpeaksFor(c, s[first], s, {}) \subseteq ToSet(s)
    BY DEF SpeaksFor, Chosen
  <2>6. FirstSpokenFor(c, s) \in ToSet(s)
    BY <2>4, <2>5 DEF FirstSpokenFor
  <2>7. QED
    BY <1>2, <2>6, ToFrontKeeps DEF InferredOrder
<1>3. QED
  BY <1>1, <1>2

\* filterProviders and filterProvidersRunTime return all that is eligible.
LEMMA AttemptHasAll ==
  ASSUME CacheOK(cache), NEW item, NEW attempt \in Attempts(item)
  PROVE  /\ attempt.order \in Seq(Eligible(ProvidersOf(kind, item)))
         /\ ToSet(attempt.order) = Eligible(ProvidersOf(kind, item))
         /\ attempt.numberPreferred > 1 => kind = "run" /\ MayConflict(item)
<1> DEFINE E == Eligible(ProvidersOf(kind, item))
<1>1. IsFiniteSet(E)
  BY EligibleProvide
<1>2. CASE kind = "run"
  <2>1. attempt \in filterProvidersRunTime(item)
    BY <1>2 DEF Attempts
  <2>2. PICK s \in Ranked(E, [f \in recipes |-> RankOf(item, f)]) :
          \/ /\ Chosen(cache, s, cache.preferred_r[item]) # {}
             /\ attempt.order = ToFront(CHOOSE f \in Chosen(cache, s, cache.preferred_r[item]) : TRUE, s)
          \/ attempt.order = InferredOrder(cache, s)
    BY <1>2, <2>1 DEF filterProvidersRunTime
  <2>3. s \in Seq(E) /\ ToSet(s) = E
    <3> HIDE DEF E
    <3> QED
      BY <1>1, RankedHasAll
  <2>4. ASSUME attempt.order = InferredOrder(cache, s)
        PROVE  attempt.order \in Seq(E) /\ ToSet(attempt.order) = E
    <3> HIDE DEF E
    <3> QED
      BY <2>3, <2>4, InferredKeeps
  <2>5. ASSUME Chosen(cache, s, cache.preferred_r[item]) # {},
               attempt.order = ToFront(CHOOSE f \in Chosen(cache, s, cache.preferred_r[item]) : TRUE, s)
        PROVE  attempt.order \in Seq(E) /\ ToSet(attempt.order) = E
    <3> DEFINE f == CHOOSE f \in Chosen(cache, s, cache.preferred_r[item]) : TRUE
    <3>1. f \in ToSet(s)
      BY <2>5 DEF Chosen
    <3> HIDE DEF E, f
    <3>2. ToFront(f, s) \in Seq(E) /\ ToSet(ToFront(f, s)) = ToSet(s)
      BY <2>3, <3>1, ToFrontKeeps
    <3>3. QED
      BY <2>3, <2>5, <3>2 DEF f
  <2>6. attempt.order \in Seq(E) /\ ToSet(attempt.order) = E
    BY <2>2, <2>3, <2>4, <2>5
  <2>7. attempt.numberPreferred > 1 => MayConflict(item)
    BY <2>1 DEF MayConflict
  <2>8. QED
    BY <1>2, <2>6, <2>7
<1>3. CASE kind = "build"
  <2>1. PICK s \in filterProviders(item) : attempt = [order |-> s, numberPreferred |-> 0]
    BY <1>3 DEF Attempts
  <2>2. s \in Seq(E) /\ ToSet(s) = E
    <3> DEFINE rank == [f \in recipes |-> IF cache.pkg_fn[f] = cache.preferred[item] THEN 0
                                          ELSE RankOf(item, f)]
    <3>1. s \in Ranked(E, rank)
      BY <1>3, <2>1 DEF filterProviders
    <3> HIDE DEF E, rank
    <3>2. QED
      BY <1>1, <3>1, RankedHasAll
  <2>3. QED
    BY <2>1, <2>2
<1>4. QED
  BY <1>2, <1>3 DEF kind

-----------------------------------------------------------------------------
(* The operations on the task data, field by field *)

SameBut(t, u, field) ==
  /\ field # "targets" => t.targets = u.targets
  /\ field # "failed" => t.failed = u.failed
  /\ field # "failed_fns" => t.failed_fns = u.failed_fns
  /\ field # "seenfns" => t.seenfns = u.seenfns

ListOf(t, k, i) == IF i \in DOMAIN t.targets[k] THEN t.targets[k][i] ELSE <<>>

\* What See and Hold make of the task data t.
Seen(u, t, k, items) ==
  /\ IsTaskData(u) /\ SameBut(u, t, "targets")
  /\ \A j \in Kinds : DOMAIN u.targets[j] = DOMAIN t.targets[j] \union (IF j = k THEN items ELSE {})
  /\ \A j \in Kinds : \A i : ListOf(u, j, i) = ListOf(t, j, i)

Held(u, t, k, item, fn) ==
  /\ IsTaskData(u) /\ SameBut(u, t, "targets")
  /\ \A j \in Kinds : DOMAIN u.targets[j] = DOMAIN t.targets[j] \union (IF j = k THEN {item} ELSE {})
  /\ \A j \in Kinds : \A i :
       ListOf(u, j, i) = IF j = k /\ i = item THEN Append(ListOf(t, k, item), fn) ELSE ListOf(t, j, i)

LEMMA SeeIs ==
  ASSUME NEW t, IsTaskData(t), NEW k \in Kinds, NEW items
  PROVE  Seen(See(t, k, items), t, k, items)
<1> DEFINE u == See(t, k, items)
           lists == [i \in items \union DOMAIN t.targets[k] |->
                       IF i \in DOMAIN t.targets[k] THEN t.targets[k][i] ELSE <<>>]
<1>1. u = [t EXCEPT !.targets[k] = lists]
  BY DEF See
<1>2. /\ DOMAIN t = {"targets", "failed", "failed_fns", "seenfns", "external"}
      /\ DOMAIN t.targets = Kinds /\ DOMAIN t.failed = Kinds
  BY DEF IsTaskData
<1> HIDE DEF u
<1>3. /\ DOMAIN u = DOMAIN t /\ DOMAIN u.targets = Kinds /\ u.failed = t.failed
      /\ u.failed_fns = t.failed_fns /\ u.seenfns = t.seenfns
      /\ u.targets[k] = lists
      /\ \A j \in Kinds : j # k => u.targets[j] = t.targets[j]
  <2> HIDE DEF lists
  <2> QED
    BY <1>1, <1>2
<1>4. IsTaskData(u) /\ SameBut(u, t, "targets")
  BY <1>2, <1>3 DEF IsTaskData, SameBut
<1>5. \A j \in Kinds : DOMAIN u.targets[j] = DOMAIN t.targets[j] \union (IF j = k THEN items ELSE {})
  BY <1>3
<1>6. ASSUME NEW j \in Kinds, NEW i PROVE ListOf(u, j, i) = ListOf(t, j, i)
  BY <1>3 DEF ListOf
<1>7. QED
  BY <1>4, <1>5, <1>6 DEF u, Seen

LEMMA HoldIs ==
  ASSUME NEW t, IsTaskData(t), NEW k \in Kinds, NEW item, NEW fn
  PROVE  Held(Hold(t, k, item, fn), t, k, item, fn)
<1> DEFINE s == See(t, k, {item})
           u == Hold(t, k, item, fn)
<1>1. /\ IsTaskData(s) /\ SameBut(s, t, "targets")
      /\ \A j \in Kinds : DOMAIN s.targets[j] = DOMAIN t.targets[j] \union (IF j = k THEN {item} ELSE {})
      /\ \A j \in Kinds : \A i : ListOf(s, j, i) = ListOf(t, j, i)
  <2>1. Seen(s, t, k, {item})
    BY SeeIs
  <2>2. QED
    BY <2>1 DEF Seen
<1>2. u = [s EXCEPT !.targets[k][item] = Append(@, fn)]
  BY DEF Hold
<1> HIDE DEF s, u
<1>3. /\ DOMAIN s = {"targets", "failed", "failed_fns", "seenfns", "external"}
      /\ DOMAIN s.targets = Kinds /\ DOMAIN s.failed = Kinds
  BY <1>1 DEF IsTaskData
<1>4. /\ DOMAIN u = DOMAIN s /\ DOMAIN u.targets = Kinds /\ u.failed = s.failed
      /\ u.failed_fns = s.failed_fns /\ u.seenfns = s.seenfns
      /\ u.targets[k] = [s.targets[k] EXCEPT ![item] = Append(s.targets[k][item], fn)]
      /\ \A j \in Kinds : j # k => u.targets[j] = s.targets[j]
  BY <1>2, <1>3
<1>5. /\ DOMAIN u.targets[k] = DOMAIN s.targets[k]
      /\ \A i \in DOMAIN s.targets[k] :
           u.targets[k][i] = IF i = item THEN Append(s.targets[k][item], fn) ELSE s.targets[k][i]
  BY <1>4
<1>6. IsTaskData(u) /\ SameBut(u, t, "targets")
  BY <1>1, <1>3, <1>4 DEF IsTaskData, SameBut
<1>7. \A j \in Kinds : DOMAIN u.targets[j] = DOMAIN s.targets[j]
  BY <1>4, <1>5
<1>8. s.targets[k][item] = ListOf(t, k, item)
  BY <1>1 DEF ListOf
<1>9. ASSUME NEW j \in Kinds, NEW i
      PROVE  ListOf(u, j, i) = IF j = k /\ i = item THEN Append(ListOf(t, k, item), fn) ELSE ListOf(s, j, i)
  <2>1. CASE j # k
    BY <1>4, <2>1 DEF ListOf
  <2>2. CASE j = k /\ i = item
    <3>1. item \in DOMAIN u.targets[k] /\ u.targets[k][item] = Append(s.targets[k][item], fn)
      BY <1>1, <1>5
    <3>2. QED
      BY <1>8, <2>2, <3>1, Zenon DEF ListOf
  <2>3. CASE j = k /\ i # item
    BY <1>5, <2>3 DEF ListOf
  <2>4. QED
    BY <2>1, <2>2, <2>3
<1>10. QED
  BY <1>1, <1>6, <1>7, <1>9 DEF u, Held

LEMMA FailIs ==
  ASSUME NEW t, IsTaskData(t), NEW fn
  PROVE  /\ IsTaskData(Fail(t, fn)) /\ SameBut(Fail(t, fn), t, "failed_fns")
         /\ Fail(t, fn).failed_fns = t.failed_fns \union {fn}
BY DEF Fail, IsTaskData, SameBut

LEMMA RemoveTargetIs ==
  ASSUME NEW t, IsTaskData(t), NEW k \in Kinds, NEW item
  PROVE  /\ IsTaskData(RemoveTarget(t, k, item)) /\ SameBut(RemoveTarget(t, k, item), t, "failed")
         /\ \A j \in Kinds : RemoveTarget(t, k, item).failed[j]
                               = t.failed[j] \union (IF j = k THEN {item} ELSE {})
BY DEF RemoveTarget, IsTaskData, SameBut

\* Those that hold a recipe, and what is unresolved, are read from the lists.
LEMMA ByLists ==
  ASSUME IsTaskData(td), NEW k \in Kinds
  PROVE  /\ \A f : HoldersOf(f, k) = {i \in DOMAIN td.targets[k] : f \in ToSet(ListOf(td, k, i))}
         /\ \A i : have(k, i) <=> i \in DOMAIN td.targets[k] /\ ListOf(td, k, i) # <<>>
         /\ \A i \in DOMAIN td.targets[k] : td.targets[k][i] = ListOf(td, k, i)
BY DEF HoldersOf, have, ListOf

-----------------------------------------------------------------------------
(* The calls on the stack *)

LEMMA PushCalls ==
  ASSUME NEW S, stack \in Seq(S), NEW c \in S, stack' = <<c>> \o stack
  PROVE  /\ stack' \in Seq(S) /\ Calls' = Calls \union {c}
         /\ stack' # <<>> /\ stack'[1] = c /\ Len(stack') = Len(stack) + 1
<1>1. <<c>> \in Seq(S) /\ Len(<<c>>) = 1 /\ <<c>>[1] = c
  OBVIOUS
<1>2. /\ stack' \in Seq(S) /\ Len(stack') = 1 + Len(stack)
      /\ \A i \in 1..(1 + Len(stack)) : stack'[i] = IF i <= 1 THEN <<c>>[i] ELSE stack[i - 1]
  BY <1>1, ConcatProperties
<1>3. Len(stack) \in Nat /\ DOMAIN stack = 1..Len(stack) /\ DOMAIN stack' = 1..(1 + Len(stack))
  BY <1>2
<1>4. stack'[1] = c /\ \A i \in 1..Len(stack) : stack'[i + 1] = stack[i]
  BY <1>1, <1>2, <1>3
<1>5. ASSUME NEW x \in Calls' PROVE x \in Calls \union {c}
  <2>1. PICK i \in 1..(1 + Len(stack)) : x = stack'[i]
    BY <1>3, <1>5 DEF Calls, ToSet
  <2>2. CASE i = 1
    BY <1>4, <2>1, <2>2
  <2>3. CASE i # 1
    <3>1. i - 1 \in 1..Len(stack) /\ x = stack[i - 1]
      BY <1>2, <1>3, <2>1, <2>3
    <3>2. QED
      BY <1>3, <3>1 DEF Calls, ToSet
  <2>4. QED
    BY <2>2, <2>3
<1>6. ASSUME NEW x \in Calls \union {c} PROVE x \in Calls'
  <2>1. CASE x = c
    <3>1. 1 \in DOMAIN stack'
      BY <1>3
    <3>2. QED
      BY <1>4, <2>1, <3>1 DEF Calls, ToSet
  <2>2. CASE x # c
    <3>1. PICK i \in 1..Len(stack) : x = stack[i]
      BY <1>3, <1>6, <2>2 DEF Calls, ToSet
    <3>2. i + 1 \in DOMAIN stack' /\ stack'[i + 1] = x
      BY <1>3, <1>4, <3>1
    <3>3. QED
      BY <3>2 DEF Calls, ToSet
  <2>3. QED
    BY <2>1, <2>2
<1>7. QED
  BY <1>2, <1>3, <1>4, <1>5, <1>6

LEMMA PopCalls ==
  ASSUME NEW S, stack \in Seq(S), stack # <<>>, stack' = Tail(stack)
  PROVE  /\ stack' \in Seq(S) /\ Calls' \subseteq Calls /\ Calls \subseteq Calls' \union {top}
         /\ Len(stack') = Len(stack) - 1
<1>1. /\ stack' \in Seq(S) /\ Len(stack') = Len(stack) - 1
      /\ \A i \in 1..Len(stack') : stack'[i] = stack[i + 1]
  BY HeadTailProperties
<1>2. Len(stack) \in Nat /\ Len(stack) >= 1 /\ DOMAIN stack = 1..Len(stack)
      /\ DOMAIN stack' = 1..(Len(stack) - 1)
  BY <1>1
<1>3. Calls' \subseteq Calls
  BY <1>1, <1>2 DEF Calls, ToSet
<1>4. ASSUME NEW x \in Calls, x # top PROVE x \in Calls'
  <2>1. PICK i \in 1..Len(stack) : x = stack[i]
    BY <1>2 DEF Calls, ToSet
  <2>2. i # 1
    BY <1>4, <2>1 DEF top
  <2>3. i - 1 \in DOMAIN stack' /\ i - 1 \in 1..Len(stack') /\ (i - 1) + 1 = i
    BY <1>1, <1>2, <2>1, <2>2
  <2>4. stack'[i - 1] = x
    BY <1>1, <2>1, <2>3
  <2>5. QED
    BY <2>3, <2>4 DEF Calls, ToSet
<1>5. QED
  BY <1>1, <1>3, <1>4

LEMMA TopIsCall ==
  ASSUME NEW S, stack \in Seq(S), stack # <<>>
  PROVE  top \in Calls /\ top \in S
<1>1. 1 \in DOMAIN stack
  OBVIOUS
<1>2. QED
  BY <1>1 DEF top, Calls, ToSet

LEMMA FrameIs ==
  ASSUME FramesInv, stack # <<>>
  PROVE  /\ top \in Calls
         /\ \/ top = Frame("fail", "build", top.name) /\ top.call = "fail" /\ top.name \in td.failed_fns
            \/ /\ top = Frame("remove", top.kind, top.name) /\ top.call = "remove"
               /\ top.kind \in Kinds /\ top.name \in td.failed[top.kind]
<1>1. top \in Calls /\ top \in GivenUp
  BY TopIsCall DEF FramesInv
<1>2. CASE top \in {Frame("fail", "build", f) : f \in td.failed_fns}
  BY <1>1, <1>2 DEF Frame
<1>3. CASE top \in UNION {{Frame("remove", k, i) : i \in td.failed[k]} : k \in Kinds}
  <2>1. PICK k \in Kinds : top \in {Frame("remove", k, i) : i \in td.failed[k]}
    BY <1>3
  <2>2. PICK i \in td.failed[k] : top = Frame("remove", k, i)
    BY <2>1
  <2>3. QED
    BY <1>1, <2>2 DEF Frame
<1>4. QED
  BY <1>1, <1>2, <1>3 DEF GivenUp

\* The calls stay while nothing is taken back.
LEMMA CallsKept ==
  ASSUME td.failed_fns \subseteq td'.failed_fns,
         \A k \in Kinds : td.failed[k] \subseteq td'.failed[k]
  PROVE  GivenUp \subseteq GivenUp'
BY DEF GivenUp

LEMMA CacheSame ==
  ASSUME cache' = cache
  PROVE  /\ recipes' = recipes
         /\ \A k, i : Eligible(ProvidersOf(k, i))' = Eligible(ProvidersOf(k, i))
<1>1. recipes' = recipes
  BY DEF recipes
<1>2. \A files : /\ findPreferredProvider(files)' = findPreferredProvider(files)
                 /\ findLatestProvider(files)' = findLatestProvider(files)
  BY DEF findPreferredProvider, findLatestProvider
<1>3. \A P : Eligible(P)' = Eligible(P)
  BY <1>2 DEF Eligible
<1>4. \A k, i : ProvidersOf(k, i)' = ProvidersOf(k, i)
  BY <1>1 DEF ProvidersOf
<1>5. QED
  BY <1>1, <1>3, <1>4

LEMMA DropIs ==
  ASSUME NEW t, IsTaskData(t), NEW k \in Kinds, NEW item \in DOMAIN t.targets[k], NEW fn
  PROVE  /\ IsTaskData(Drop(t, k, item, fn)) /\ SameBut(Drop(t, k, item, fn), t, "targets")
         /\ \A j \in Kinds : DOMAIN Drop(t, k, item, fn).targets[j] = DOMAIN t.targets[j]
         /\ \A j \in Kinds : \A i :
              ListOf(Drop(t, k, item, fn), j, i)
                = IF j = k /\ i = item THEN RemoveFirst(ListOf(t, k, item), fn) ELSE ListOf(t, j, i)
<1> DEFINE u == Drop(t, k, item, fn)
           list == RemoveFirst(t.targets[k][item], fn)
<1>0. u = [t EXCEPT !.targets[k][item] = list] /\ list = RemoveFirst(ListOf(t, k, item), fn)
  BY DEF Drop, ListOf
<1> HIDE DEF u, list
<1>1. /\ DOMAIN t = {"targets", "failed", "failed_fns", "seenfns", "external"}
      /\ DOMAIN t.targets = Kinds /\ DOMAIN t.failed = Kinds
  BY DEF IsTaskData
<1>2. /\ DOMAIN u = DOMAIN t /\ DOMAIN u.targets = Kinds /\ u.failed = t.failed
      /\ u.failed_fns = t.failed_fns /\ u.seenfns = t.seenfns
      /\ u.targets[k] = [t.targets[k] EXCEPT ![item] = list]
      /\ \A j \in Kinds : j # k => u.targets[j] = t.targets[j]
  BY <1>0, <1>1
<1>3. /\ DOMAIN u.targets[k] = DOMAIN t.targets[k]
      /\ \A i \in DOMAIN t.targets[k] :
           u.targets[k][i] = IF i = item THEN list ELSE t.targets[k][i]
  BY <1>2
<1>4. IsTaskData(u) /\ SameBut(u, t, "targets")
  BY <1>1, <1>2 DEF IsTaskData, SameBut
<1>5. \A j \in Kinds : DOMAIN u.targets[j] = DOMAIN t.targets[j]
  BY <1>2, <1>3
<1>6. ASSUME NEW j \in Kinds, NEW i
      PROVE  ListOf(u, j, i) = IF j = k /\ i = item THEN list ELSE ListOf(t, j, i)
  BY <1>2, <1>3 DEF ListOf
<1>7. QED
  BY <1>0, <1>4, <1>5, <1>6 DEF u

\* fail_fn takes its recipe out of a list, and gives up the item if it has no
\* other.
LEMMA FailLoopDoes ==
  ASSUME TargetsInv, FailLoop
  PROVE  \E k \in Kinds : \E item \in DOMAIN td.targets[k] : \E list :
           /\ top.name \in ToSet(ListOf(td, k, item))
           /\ list = RemoveFirst(ListOf(td, k, item), top.name)
           /\ IsTaskData(td') /\ td'.seenfns = td.seenfns /\ td'.failed_fns = td.failed_fns
           /\ \A j \in Kinds : DOMAIN td'.targets[j] = DOMAIN td.targets[j]
           /\ \A j \in Kinds : \A i :
                ListOf(td', j, i) = IF j = k /\ i = item THEN list ELSE ListOf(td, j, i)
           /\ \/ /\ list = <<>> /\ stack' = <<Frame("remove", k, item)>> \o stack
                 /\ \A j \in Kinds : td'.failed[j] = td.failed[j] \union (IF j = k THEN {item} ELSE {})
                 /\ premature' = (premature \/ (k = kind /\ item = current /\ StillEligible # {}))
              \/ /\ list # <<>> /\ stack' = stack /\ td'.failed = td.failed
                 /\ premature' = premature
<1>1. PICK k \in Kinds : \E item \in HoldersOf(top.name, k) :
        LET t == Drop(td, k, item, top.name) IN
        IF t.targets[k][item] = <<>>
        THEN /\ td' = RemoveTarget(t, k, item)
             /\ stack' = <<Frame("remove", k, item)>> \o stack
             /\ premature' = (premature \/ (k = kind /\ item = current /\ StillEligible # {}))
        ELSE td' = t /\ UNCHANGED <<stack, premature>>
  BY DEF FailLoop, Kinds
<1>2. PICK item \in HoldersOf(top.name, k) :
        LET t == Drop(td, k, item, top.name) IN
        IF t.targets[k][item] = <<>>
        THEN /\ td' = RemoveTarget(t, k, item)
             /\ stack' = <<Frame("remove", k, item)>> \o stack
             /\ premature' = (premature \/ (k = kind /\ item = current /\ StillEligible # {}))
        ELSE td' = t /\ UNCHANGED <<stack, premature>>
  BY <1>1
<1>3. IsTaskData(td) /\ item \in DOMAIN td.targets[k] /\ top.name \in ToSet(ListOf(td, k, item))
  <2>1. IsTaskData(td)
    BY DEF TargetsInv
  <2>2. item \in {i \in DOMAIN td.targets[k] : top.name \in ToSet(ListOf(td, k, i))}
    BY <2>1, ByLists
  <2>3. QED
    BY <2>1, <2>2
<1> DEFINE list == RemoveFirst(ListOf(td, k, item), top.name)
           t == Drop(td, k, item, top.name)
<1>4. IF t.targets[k][item] = <<>>
      THEN /\ td' = RemoveTarget(t, k, item)
           /\ stack' = <<Frame("remove", k, item)>> \o stack
           /\ premature' = (premature \/ (k = kind /\ item = current /\ StillEligible # {}))
      ELSE td' = t /\ stack' = stack /\ premature' = premature
  BY <1>2
<1>5. /\ IsTaskData(t) /\ SameBut(t, td, "targets")
      /\ \A j \in Kinds : DOMAIN t.targets[j] = DOMAIN td.targets[j]
      /\ \A j \in Kinds : \A i :
           ListOf(t, j, i) = IF j = k /\ i = item THEN list ELSE ListOf(td, j, i)
  BY <1>3, DropIs
<1>6. list = RemoveFirst(ListOf(td, k, item), top.name)
  OBVIOUS
<1> HIDE DEF t, list
<1>7. item \in DOMAIN t.targets[k] /\ t.targets[k][item] = list
  <2>1. item \in DOMAIN t.targets[k] /\ ListOf(t, k, item) = list
    BY <1>3, <1>5
  <2>2. QED
    BY <2>1 DEF ListOf
<1>8. CASE list = <<>>
  <2>1. /\ IsTaskData(td') /\ SameBut(td', t, "failed")
        /\ \A j \in Kinds : td'.failed[j] = t.failed[j] \union (IF j = k THEN {item} ELSE {})
    BY <1>4, <1>5, <1>7, <1>8, RemoveTargetIs
  <2>2. \A j \in Kinds : \A i : ListOf(td', j, i) = ListOf(t, j, i)
    BY <2>1 DEF SameBut, ListOf
  <2>3. /\ td'.seenfns = td.seenfns /\ td'.failed_fns = td.failed_fns
        /\ \A j \in Kinds : DOMAIN td'.targets[j] = DOMAIN td.targets[j]
        /\ \A j \in Kinds : td'.failed[j] = td.failed[j] \union (IF j = k THEN {item} ELSE {})
    BY <1>5, <2>1 DEF SameBut
  <2>4. \A j \in Kinds : \A i :
          ListOf(td', j, i) = IF j = k /\ i = item THEN list ELSE ListOf(td, j, i)
    BY <1>5, <2>2
  <2>5. QED
    BY <1>3, <1>4, <1>6, <1>7, <1>8, <2>1, <2>3, <2>4
<1>9. CASE list # <<>>
  <2>1. td' = t /\ stack' = stack /\ premature' = premature
    BY <1>4, <1>7, <1>9
  <2>2. td'.seenfns = td.seenfns /\ td'.failed_fns = td.failed_fns /\ td'.failed = td.failed
    BY <1>5, <2>1 DEF SameBut
  <2>3. QED
    BY <1>3, <1>5, <1>6, <1>9, <2>1, <2>2
<1>10. QED
  BY <1>8, <1>9

\* add_tasks goes through all a recipe needs, or comes to a failed one.
LEMMA WalkIs ==
  ASSUME NEW fn, NEW walk \in Walks(fn)
  PROVE  /\ \A k \in Kinds : walk[k] \subseteq cache.deps[k][fn]
         /\ \/ \A k \in Kinds : walk[k] = cache.deps[k][fn] /\ walk[k] \intersect td.failed[k] = {}
            \/ \E k \in Kinds : walk[k] \intersect td.failed[k] # {}
<1> DEFINE bad(k) == cache.deps[k][fn] \intersect td.failed[k]
           upto(k) == {S \union {i} : S \in SUBSET (cache.deps[k][fn] \ bad(k)), i \in bad(k)}
<1>1. ASSUME NEW k, NEW b \in upto(k)
      PROVE  b \subseteq cache.deps[k][fn] /\ b \intersect td.failed[k] # {}
  <2>1. PICK S \in SUBSET (cache.deps[k][fn] \ bad(k)), i \in bad(k) : b = S \union {i}
    BY <1>1
  <2>2. QED
    BY <2>1
<1>2. CASE bad("build") # {}
  <2>1. PICK b \in upto("build") : walk = [build |-> b, run |-> {}]
    BY <1>2 DEF Walks
  <2>2. walk["build"] = b /\ walk["run"] = {}
    BY <2>1
  <2> HIDE DEF bad, upto
  <2>3. QED
    BY <1>1, <2>2 DEF Kinds
<1>3. CASE bad("build") = {} /\ bad("run") # {}
  <2>1. PICK r \in upto("run") : walk = [build |-> cache.deps.build[fn], run |-> r]
    BY <1>3 DEF Walks
  <2>2. walk["build"] = cache.deps["build"][fn] /\ walk["run"] = r
    BY <2>1
  <2> HIDE DEF bad, upto
  <2>3. QED
    BY <1>1, <2>2 DEF Kinds
<1>4. CASE bad("build") = {} /\ bad("run") = {}
  <2>1. walk = [build |-> cache.deps.build[fn], run |-> cache.deps.run[fn]]
    BY <1>4 DEF Walks
  <2>2. walk["build"] = cache.deps["build"][fn] /\ walk["run"] = cache.deps["run"][fn]
    BY <2>1
  <2>3. QED
    BY <1>4, <2>2 DEF Kinds
<1>5. QED
  BY <1>2, <1>3, <1>4

LEMMA KindIs == kind \in Kinds
BY DEF kind, Kinds

SeenBoth(u, t, b, r) ==
  /\ IsTaskData(u) /\ SameBut(u, t, "targets")
  /\ b \subseteq DOMAIN u.targets["build"] /\ r \subseteq DOMAIN u.targets["run"]
  /\ \A j \in Kinds : DOMAIN t.targets[j] \subseteq DOMAIN u.targets[j]
                        /\ "" \notin DOMAIN u.targets[j]
  /\ \A j \in Kinds : \A i : ListOf(u, j, i) = ListOf(t, j, i)

LEMMA SeeBoth ==
  ASSUME NEW t, IsTaskData(t), NEW b, NEW r,
         "" \notin b, "" \notin r, \A j \in Kinds : "" \notin DOMAIN t.targets[j]
  PROVE  SeenBoth(See(See(t, "build", b), "run", r), t, b, r)
<1> DEFINE m == See(t, "build", b)
           u == See(m, "run", r)
<1>1. "build" \in Kinds /\ "run" \in Kinds
  BY DEF Kinds
<1>2. Seen(m, t, "build", b)
  BY <1>1, SeeIs
<1>3. Seen(u, m, "run", r)
  <2>1. IsTaskData(m)
    BY <1>2 DEF Seen
  <2>2. QED
    BY <1>1, <2>1, SeeIs
<1> HIDE DEF m, u
<1>4. IsTaskData(u) /\ SameBut(u, t, "targets")
  BY <1>2, <1>3 DEF SameBut, Seen
<1>5. \A j \in Kinds : \A i : ListOf(u, j, i) = ListOf(t, j, i)
  BY <1>2, <1>3 DEF Seen
<1>6. /\ b \subseteq DOMAIN u.targets["build"] /\ r \subseteq DOMAIN u.targets["run"]
      /\ \A j \in Kinds : DOMAIN t.targets[j] \subseteq DOMAIN u.targets[j]
                            /\ "" \notin DOMAIN u.targets[j]
  BY <1>1, <1>2, <1>3 DEF Seen
<1>7. QED
  BY <1>4, <1>5, <1>6 DEF u, m, SeenBoth

\* add_provider_internal and add_rprovider add the recipe to the item's list;
\* add_tasks makes what it needs known, or fails it at once.
LEMMA AddTasksDoes ==
  ASSUME CacheOK(cache), TargetsInv, ItemInv, AddTasks, NEW fn, fn = Head(eligible)
  PROVE  /\ fn \in Eligible(ProvidersOf(kind, current)) /\ fn \in recipes
         /\ eligible' = Tail(eligible) /\ IsTaskData(td') /\ td'.failed = td.failed
         /\ \/ fn \in td.failed_fns /\ td' = td /\ stack' = stack
            \/ /\ fn \notin td.failed_fns /\ td'.seenfns = td.seenfns \union {fn}
               /\ current \in DOMAIN td'.targets[kind]
               /\ \A j \in Kinds : DOMAIN td.targets[j] \subseteq DOMAIN td'.targets[j]
                                     /\ "" \notin DOMAIN td'.targets[j]
               /\ \A j \in Kinds : \A i :
                    ListOf(td', j, i) = IF j = kind /\ i = current
                                        THEN Append(ListOf(td, kind, current), fn) ELSE ListOf(td, j, i)
               /\ \/ fn \in td.seenfns /\ td'.failed_fns = td.failed_fns /\ stack' = stack
                  \/ /\ fn \notin td.seenfns /\ td'.failed_fns = td.failed_fns /\ stack' = stack
                     /\ \A j \in Kinds : cache.deps[j][fn] \subseteq DOMAIN td'.targets[j]
                                           /\ cache.deps[j][fn] \intersect td.failed[j] = {}
                  \/ /\ fn \notin td.seenfns /\ td'.failed_fns = td.failed_fns \union {fn}
                     /\ stack' = <<Frame("fail", "build", fn)>>
                     /\ \E j \in Kinds : cache.deps[j][fn] \intersect td.failed[j] # {}
<1> DEFINE held == Hold(td, kind, current, fn)
           marked == [held EXCEPT !.seenfns = @ \union {fn}]
           flagged == See(See(marked, "build", Items(cache.flags.build[fn])),
                          "run", Items(cache.flags.run[fn]))
<1>1. /\ current # "" /\ stack = <<>> /\ eligible # <<>> /\ eligible' = Tail(eligible)
      /\ \/ fn \in td.failed_fns /\ td' = td /\ stack' = stack
         \/ fn \notin td.failed_fns /\ fn \in td.seenfns /\ td' = held /\ stack' = stack
         \/ /\ fn \notin td.failed_fns /\ fn \notin td.seenfns
            /\ \E walk \in Walks(fn) :
                 LET t == See(See(flagged, "build", walk.build), "run", walk.run)
                     fails == walk.build \intersect td.failed.build # {}
                              \/ walk.run \intersect td.failed.run # {}
                 IN IF fails THEN td' = Fail(t, fn) /\ stack' = <<Frame("fail", "build", fn)>>
                             ELSE td' = t /\ stack' = stack
  BY DEF AddTasks
<1>2. IsTaskData(td) /\ kind \in Kinds /\ \A j \in Kinds : "" \notin DOMAIN td.targets[j]
  BY KindIs DEF TargetsInv
<1>3. fn \in Eligible(ProvidersOf(kind, current)) /\ fn \in recipes
  <2>1. eligible \in Seq(Eligible(ProvidersOf(kind, current)))
    BY DEF ItemInv
  <2>2. fn \in Eligible(ProvidersOf(kind, current))
    BY <1>1, <2>1, HeadTailProperties
  <2>3. QED
    BY <2>2, EligibleProvide
<1>4. /\ IsTaskData(held) /\ SameBut(held, td, "targets")
      /\ \A j \in Kinds : DOMAIN held.targets[j]
                            = DOMAIN td.targets[j] \union (IF j = kind THEN {current} ELSE {})
      /\ \A j \in Kinds : \A i :
           ListOf(held, j, i) = IF j = kind /\ i = current
                                THEN Append(ListOf(td, kind, current), fn) ELSE ListOf(td, j, i)
  <2>1. Held(held, td, kind, current, fn)
    BY <1>2, HoldIs
  <2>2. QED
    BY <2>1 DEF Held
<1> HIDE DEF held
<1>5. CASE fn \in td.failed_fns /\ td' = td /\ stack' = stack
  BY <1>1, <1>2, <1>3, <1>5
<1>6. CASE fn \notin td.failed_fns /\ fn \in td.seenfns /\ td' = held /\ stack' = stack
  <2>1. /\ td'.failed = td.failed /\ td'.seenfns = td.seenfns /\ td'.failed_fns = td.failed_fns
        /\ td.seenfns = td.seenfns \union {fn}
    BY <1>4, <1>6 DEF SameBut
  <2>2. current \in DOMAIN td'.targets[kind]
    BY <1>2, <1>4, <1>6
  <2>3. \A j \in Kinds : DOMAIN td.targets[j] \subseteq DOMAIN td'.targets[j]
                           /\ "" \notin DOMAIN td'.targets[j]
    BY <1>1, <1>2, <1>4, <1>6
  <2>4. IsTaskData(td')
    BY <1>4, <1>6
  <2>5. \A j \in Kinds : \A i :
          ListOf(td', j, i) = IF j = kind /\ i = current
                              THEN Append(ListOf(td, kind, current), fn) ELSE ListOf(td, j, i)
    BY <1>4, <1>6
  <2>6. QED
    BY <1>1, <1>3, <1>6, <2>1, <2>2, <2>3, <2>4, <2>5
<1>7. ASSUME fn \notin td.failed_fns, fn \notin td.seenfns, NEW walk \in Walks(fn),
             LET t == See(See(flagged, "build", walk.build), "run", walk.run)
                 fails == walk.build \intersect td.failed.build # {}
                          \/ walk.run \intersect td.failed.run # {}
             IN IF fails THEN td' = Fail(t, fn) /\ stack' = <<Frame("fail", "build", fn)>>
                         ELSE td' = t /\ stack' = stack
      PROVE  /\ IsTaskData(td') /\ td'.failed = td.failed /\ td'.seenfns = td.seenfns \union {fn}
             /\ current \in DOMAIN td'.targets[kind]
             /\ \A j \in Kinds : DOMAIN td.targets[j] \subseteq DOMAIN td'.targets[j]
                                   /\ "" \notin DOMAIN td'.targets[j]
             /\ \A j \in Kinds : \A i :
                  ListOf(td', j, i) = IF j = kind /\ i = current
                                      THEN Append(ListOf(td, kind, current), fn) ELSE ListOf(td, j, i)
             /\ \/ /\ td'.failed_fns = td.failed_fns /\ stack' = stack
                   /\ \A j \in Kinds : cache.deps[j][fn] \subseteq DOMAIN td'.targets[j]
                                         /\ cache.deps[j][fn] \intersect td.failed[j] = {}
                \/ /\ td'.failed_fns = td.failed_fns \union {fn}
                   /\ stack' = <<Frame("fail", "build", fn)>>
                   /\ \E j \in Kinds : cache.deps[j][fn] \intersect td.failed[j] # {}
  <2> DEFINE t == See(See(flagged, "build", walk.build), "run", walk.run)
             fails == walk.build \intersect td.failed.build # {}
                        \/ walk.run \intersect td.failed.run # {}
  <2>1. /\ "" \notin Items(cache.flags.build[fn]) /\ "" \notin Items(cache.flags.run[fn])
        /\ \A j \in Kinds : "" \notin cache.deps[j][fn]
    <3>1. \A k \in Kinds : \A f \in recipes :
            "" \notin cache.deps[k][f] /\ \A g \in cache.flags[k][f] : g[2] # ""
      BY DEF CacheOK, recipes
    <3>2. \A k \in Kinds : \A g \in cache.flags[k][fn] : g[2] # ""
      BY <1>3, <3>1
    <3>3. QED
      BY <1>3, <3>1, <3>2 DEF Items, Kinds
  <2>2. /\ IsTaskData(marked) /\ marked.failed = held.failed /\ marked.failed_fns = held.failed_fns
        /\ marked.seenfns = held.seenfns \union {fn} /\ marked.targets = held.targets
    BY <1>4 DEF IsTaskData
  <2>3. /\ \A j \in Kinds : DOMAIN marked.targets[j]
                              = DOMAIN td.targets[j] \union (IF j = kind THEN {current} ELSE {})
        /\ \A j \in Kinds : "" \notin DOMAIN marked.targets[j]
        /\ \A j \in Kinds : \A i : ListOf(marked, j, i) = ListOf(held, j, i)
    <3> HIDE DEF marked
    <3> QED
      BY <1>1, <1>2, <1>4, <2>2 DEF ListOf
  <2>4. flagged = See(See(marked, "build", Items(cache.flags.build[fn])), "run", Items(cache.flags.run[fn]))
    OBVIOUS
  <2> HIDE DEF marked, flagged
  <2>5. /\ IsTaskData(flagged) /\ SameBut(flagged, marked, "targets")
        /\ \A j \in Kinds : DOMAIN marked.targets[j] \subseteq DOMAIN flagged.targets[j]
                              /\ "" \notin DOMAIN flagged.targets[j]
        /\ \A j \in Kinds : \A i : ListOf(flagged, j, i) = ListOf(marked, j, i)
    <3>1. SeenBoth(flagged, marked, Items(cache.flags.build[fn]), Items(cache.flags.run[fn]))
      BY <2>1, <2>2, <2>3, <2>4, SeeBoth
    <3>2. QED
      BY <3>1 DEF SeenBoth
  <2>6. /\ \A k \in Kinds : walk[k] \subseteq cache.deps[k][fn]
        /\ \/ \A k \in Kinds : walk[k] = cache.deps[k][fn] /\ walk[k] \intersect td.failed[k] = {}
           \/ \E k \in Kinds : walk[k] \intersect td.failed[k] # {}
    BY WalkIs
  <2>7. "" \notin walk.build /\ "" \notin walk.run
    BY <2>1, <2>6 DEF Kinds
  <2>8. t = See(See(flagged, "build", walk.build), "run", walk.run)
    OBVIOUS
  <2> HIDE DEF t
  <2>9. /\ IsTaskData(t) /\ SameBut(t, flagged, "targets")
        /\ walk.build \subseteq DOMAIN t.targets["build"] /\ walk.run \subseteq DOMAIN t.targets["run"]
        /\ \A j \in Kinds : DOMAIN flagged.targets[j] \subseteq DOMAIN t.targets[j]
                              /\ "" \notin DOMAIN t.targets[j]
        /\ \A j \in Kinds : \A i : ListOf(t, j, i) = ListOf(flagged, j, i)
    <3>1. SeenBoth(t, flagged, walk.build, walk.run)
      BY <2>5, <2>7, <2>8, SeeBoth
    <3>2. QED
      BY <3>1 DEF SeenBoth
  <2>10. /\ fails <=> \E k \in Kinds : walk[k] \intersect td.failed[k] # {}
        /\ IF fails THEN td' = Fail(t, fn) /\ stack' = <<Frame("fail", "build", fn)>>
                    ELSE td' = t /\ stack' = stack
    BY <1>7 DEF Kinds, t
  <2> HIDE DEF fails
  <2>11. /\ t.failed = td.failed /\ t.failed_fns = td.failed_fns /\ t.seenfns = td.seenfns \union {fn}
    BY <1>4, <2>2, <2>5, <2>9 DEF SameBut
  <2>12. /\ current \in DOMAIN t.targets[kind]
         /\ \A j \in Kinds : DOMAIN td.targets[j] \subseteq DOMAIN t.targets[j]
    <3>1. current \in DOMAIN marked.targets[kind]
      BY <1>2, <2>3
    <3>2. QED
      BY <1>2, <2>3, <2>5, <2>9, <3>1
  <2>13. \A j \in Kinds : \A i :
           ListOf(t, j, i) = IF j = kind /\ i = current
                             THEN Append(ListOf(td, kind, current), fn) ELSE ListOf(td, j, i)
    <3>1. \A j \in Kinds : \A i : ListOf(t, j, i) = ListOf(held, j, i)
      <4>1. \A j \in Kinds : \A i : ListOf(t, j, i) = ListOf(flagged, j, i)
        BY <2>9
      <4>2. \A j \in Kinds : \A i : ListOf(flagged, j, i) = ListOf(marked, j, i)
        BY <2>5
      <4>3. \A j \in Kinds : \A i : ListOf(marked, j, i) = ListOf(held, j, i)
        BY <2>3
      <4>4. QED
        BY <4>1, <4>2, <4>3
    <3>2. \A j \in Kinds : \A i :
            ListOf(held, j, i) = IF j = kind /\ i = current
                                 THEN Append(ListOf(td, kind, current), fn) ELSE ListOf(td, j, i)
      BY <1>4
    <3>3. QED
      BY <3>1, <3>2
  <2>14. /\ IsTaskData(td') /\ td'.failed = td.failed /\ td'.seenfns = td.seenfns \union {fn}
         /\ td'.targets = t.targets
         /\ td'.failed_fns = IF fails THEN td.failed_fns \union {fn} ELSE td.failed_fns
    <3>1. CASE fails
      <4>1. IsTaskData(Fail(t, fn)) /\ SameBut(Fail(t, fn), t, "failed_fns")
            /\ Fail(t, fn).failed_fns = t.failed_fns \union {fn}
        BY <2>9, FailIs
      <4>2. QED
        BY <2>10, <2>11, <3>1, <4>1 DEF SameBut
    <3>2. CASE ~fails
      BY <2>9, <2>10, <2>11, <3>2
    <3>3. QED
      BY <3>1, <3>2
  <2>15. \A j \in Kinds : \A i : ListOf(td', j, i) = ListOf(t, j, i)
    BY <2>14 DEF ListOf
  <2>16. \A j \in Kinds : walk[j] \subseteq DOMAIN td'.targets[j]
    BY <2>9, <2>14 DEF Kinds
  <2>17. \/ /\ td'.failed_fns = td.failed_fns /\ stack' = stack
            /\ \A j \in Kinds : cache.deps[j][fn] \subseteq DOMAIN td'.targets[j]
                                  /\ cache.deps[j][fn] \intersect td.failed[j] = {}
         \/ /\ td'.failed_fns = td.failed_fns \union {fn}
            /\ stack' = <<Frame("fail", "build", fn)>>
            /\ \E j \in Kinds : cache.deps[j][fn] \intersect td.failed[j] # {}
    BY <2>6, <2>10, <2>14, <2>16
  <2>18. \A j \in Kinds : DOMAIN td.targets[j] \subseteq DOMAIN td'.targets[j]
                            /\ "" \notin DOMAIN td'.targets[j]
    BY <2>9, <2>12, <2>14
  <2>19. current \in DOMAIN td'.targets[kind]
    BY <2>12, <2>14
  <2>20. \A j \in Kinds : \A i :
           ListOf(td', j, i) = IF j = kind /\ i = current
                               THEN Append(ListOf(td, kind, current), fn) ELSE ListOf(td, j, i)
    BY <2>13, <2>15
  <2>21. QED
    BY <2>14, <2>17, <2>18, <2>19, <2>20
<1>8. CASE /\ fn \notin td.failed_fns /\ fn \notin td.seenfns
           /\ \E walk \in Walks(fn) :
                LET t == See(See(flagged, "build", walk.build), "run", walk.run)
                    fails == walk.build \intersect td.failed.build # {}
                             \/ walk.run \intersect td.failed.run # {}
                IN IF fails THEN td' = Fail(t, fn) /\ stack' = <<Frame("fail", "build", fn)>>
                            ELSE td' = t /\ stack' = stack
  <2> HIDE DEF flagged
  <2>1. PICK walk \in Walks(fn) :
                LET t == See(See(flagged, "build", walk.build), "run", walk.run)
                    fails == walk.build \intersect td.failed.build # {}
                             \/ walk.run \intersect td.failed.run # {}
                IN IF fails THEN td' = Fail(t, fn) /\ stack' = <<Frame("fail", "build", fn)>>
                            ELSE td' = t /\ stack' = stack
    BY <1>8
  <2>2. QED
    BY <1>1, <1>3, <1>7, <1>8, <2>1
<1>9. QED
  BY <1>1, <1>5, <1>6, <1>8

-----------------------------------------------------------------------------
(* What is given up takes down what it has to, while items are resolved *)

LEMMA ByListsNext ==
  ASSUME IsTaskData(td'), NEW k \in Kinds
  PROVE  /\ \A f : HoldersOf(f, k)' = {i \in DOMAIN td'.targets[k] : f \in ToSet(ListOf(td', k, i))}
         /\ \A i : have(k, i)' <=> i \in DOMAIN td'.targets[k] /\ ListOf(td', k, i) # <<>>
         /\ \A i \in DOMAIN td'.targets[k] : td'.targets[k][i] = ListOf(td', k, i)
BY DEF HoldersOf, have, ListOf

LEMMA AppendKeeps ==
  ASSUME NEW S, NEW s \in Seq(S), NEW e \in S
  PROVE  Append(s, e) \in Seq(S) /\ Append(s, e) # <<>> /\ ToSet(Append(s, e)) = ToSet(s) \union {e}
<1>1. /\ Append(s, e) \in Seq(S) /\ Append(s, e) # <<>> /\ Len(Append(s, e)) = Len(s) + 1
      /\ \A i \in 1..Len(s) : Append(s, e)[i] = s[i]
      /\ Append(s, e)[Len(s) + 1] = e
  BY AppendProperties
<1>2. DOMAIN s = 1..Len(s) /\ DOMAIN Append(s, e) = 1..(Len(s) + 1) /\ Len(s) \in Nat
  BY <1>1
<1>3. ToSet(Append(s, e)) \subseteq ToSet(s) \union {e}
  BY <1>1, <1>2 DEF ToSet
<1>4. ToSet(s) \subseteq ToSet(Append(s, e)) /\ e \in ToSet(Append(s, e))
  <2>1. Len(s) + 1 \in DOMAIN Append(s, e) /\ \A i \in DOMAIN s : i \in DOMAIN Append(s, e)
    BY <1>2
  <2>2. e \in ToSet(Append(s, e))
    BY <1>1, <2>1 DEF ToSet
  <2>3. ToSet(s) \subseteq ToSet(Append(s, e))
    BY <1>1, <1>2, <2>1 DEF ToSet
  <2>4. QED
    BY <2>2, <2>3
<1>5. QED
  BY <1>1, <1>3, <1>4

LEMMA ListsTyped ==
  ASSUME TargetsInv, NEW k \in Kinds, NEW i
  PROVE  ListOf(td, k, i) \in Seq(Eligible(ProvidersOf(k, i)) \intersect td.seenfns)
<1>1. CASE i \in DOMAIN td.targets[k]
  BY <1>1 DEF TargetsInv, ListOf
<1>2. CASE i \notin DOMAIN td.targets[k]
  <2>1. ListOf(td, k, i) = <<>>
    BY <1>2 DEF ListOf
  <2>2. QED
    BY <2>1
<1>3. QED
  BY <1>1, <1>2

LEMMA TargetsNext ==
  ASSUME cache' = cache, IsTaskData(td'),
         td'.failed_fns \subseteq td'.seenfns, td'.seenfns \subseteq recipes,
         \A k \in Kinds : "" \notin DOMAIN td'.targets[k],
         \A k \in Kinds : \A i :
           ListOf(td', k, i) \in Seq(Eligible(ProvidersOf(k, i)) \intersect td'.seenfns),
         \A k \in Kinds : \A f \in td'.seenfns \ td'.failed_fns :
           cache.deps[k][f] \subseteq DOMAIN td'.targets[k]
  PROVE  TargetsInv'
<1>1. recipes' = recipes /\ \A k, i : Eligible(ProvidersOf(k, i))' = Eligible(ProvidersOf(k, i))
  BY CacheSame
<1>2. \A k \in Kinds : \A i \in DOMAIN td'.targets[k] :
        td'.targets[k][i] \in Seq(Eligible(ProvidersOf(k, i))' \intersect td'.seenfns)
  BY <1>1 DEF ListOf
<1>3. QED
  BY <1>1, <1>2 DEF TargetsInv

LEMMA FramesNext ==
  ASSUME FramesInv, td.failed_fns \subseteq td'.failed_fns,
         \A k \in Kinds : td.failed[k] \subseteq td'.failed[k],
         \/ stack' = stack
         \/ stack # <<>> /\ stack' = Tail(stack)
         \/ stack' = <<>>
         \/ \E c \in GivenUp' : stack' = <<c>> \o stack \/ stack' = <<c>>
  PROVE  FramesInv'
<1>1. stack \in Seq(GivenUp')
  BY CallsKept DEF FramesInv
<1>2. ASSUME NEW c \in GivenUp', stack' = <<c>> \o stack PROVE FramesInv'
  BY <1>1, <1>2, PushCalls DEF FramesInv
<1>3. ASSUME NEW c \in GivenUp', stack' = <<c>> PROVE FramesInv'
  BY <1>3 DEF FramesInv
<1>4. CASE stack # <<>> /\ stack' = Tail(stack)
  BY <1>1, <1>4, PopCalls DEF FramesInv
<1>5. CASE stack' = stack \/ stack' = <<>>
  <2>1. <<>> \in Seq(GivenUp')
    OBVIOUS
  <2>2. QED
    BY <1>1, <1>5, <2>1 DEF FramesInv
<1>6. QED
  BY <1>2, <1>3, <1>4, <1>5

LEMMA KindSame ==
  ASSUME phase' = phase
  PROVE  kind' = kind
BY DEF kind

\* Steps of the calls on the stack.
LEMMA SameItem ==
  ASSUME ItemInv, stack # <<>>, cache' = cache, phase' = phase, goals' = goals, todo' = todo,
         current' = current, eligible' = eligible, failing' = failing
  PROVE  ItemInv'
<1>1. kind' = kind /\ \A k, i : Eligible(ProvidersOf(k, i))' = Eligible(ProvidersOf(k, i))
  BY KindSame, CacheSame
<1>2. Eligible(ProvidersOf(kind, current))' = Eligible(ProvidersOf(kind, current))
  BY <1>1
<1>3. current # "" /\ current \notin cache.ignored
  BY DEF ItemInv
<1>4. QED
  BY <1>2, <1>3 DEF ItemInv

LEMMA RoundSame ==
  ASSUME RoundInv, cache' = cache, phase' = phase, todo' = todo, added' = added,
         current' = current, failing' = failing,
         \A k \in Kinds : Unresolved(k)' \subseteq Unresolved(k) /\ td.failed[k] \subseteq td'.failed[k]
  PROVE  RoundInv'
<1>1. kind' = kind /\ kind \in Kinds
  BY KindSame, KindIs
<1>2. Open("build")' \subseteq Open("build") /\ Open("run")' \subseteq Open("run")
  BY DEF Open, Kinds
<1>3. QED
  BY <1>1, <1>2 DEF RoundInv

LEMMA UnresolvedIs ==
  ASSUME IsTaskData(td), NEW k \in Kinds
  PROVE  Unresolved(k) = {i \in DOMAIN td.targets[k] :
           i \notin cache.ignored \union td.failed[k] /\ ListOf(td, k, i) = <<>>}
BY DEF Unresolved, ListOf

LEMMA UnresolvedNext ==
  ASSUME IsTaskData(td'), cache' = cache, NEW k \in Kinds
  PROVE  Unresolved(k)' = {i \in DOMAIN td'.targets[k] :
           i \notin cache.ignored \union td'.failed[k] /\ ListOf(td', k, i) = <<>>}
BY DEF Unresolved, ListOf

LEMMA FailLoopKeeps ==
  ASSUME ResolveInv, FailLoop
  PROVE  ResolveInv'
<1>1. TargetsInv /\ FramesInv /\ ItemInv /\ (phase # "raised" /\ ~swallowed => GivenUpInv /\ RoundInv)
  BY DEF ResolveInv
<1>2. /\ stack # <<>> /\ top.call = "fail"
      /\ cache' = cache /\ phase' = phase /\ goals' = goals /\ todo' = todo /\ added' = added
      /\ current' = current /\ eligible' = eligible /\ failing' = failing /\ swallowed' = swallowed
  BY DEF FailLoop, loops
<1>3. PICK k, item, list :
         /\ k \in Kinds
         /\ item \in DOMAIN td.targets[k]
         /\ top.name \in ToSet(ListOf(td, k, item))
         /\ list = RemoveFirst(ListOf(td, k, item), top.name)
         /\ IsTaskData(td') /\ td'.seenfns = td.seenfns /\ td'.failed_fns = td.failed_fns
         /\ \A j \in Kinds : DOMAIN td'.targets[j] = DOMAIN td.targets[j]
         /\ \A j \in Kinds : \A i :
              ListOf(td', j, i) = IF j = k /\ i = item THEN list ELSE ListOf(td, j, i)
         /\ \/ /\ list = <<>> /\ stack' = <<Frame("remove", k, item)>> \o stack
               /\ \A j \in Kinds : td'.failed[j] = td.failed[j] \union (IF j = k THEN {item} ELSE {})
            \/ /\ list # <<>> /\ stack' = stack /\ td'.failed = td.failed
  BY <1>1, FailLoopDoes
<1>4. /\ ToSet(list) \subseteq ToSet(ListOf(td, k, item))
      /\ list \in Seq(Eligible(ProvidersOf(k, item)) \intersect td.seenfns)
  <2>1. ListOf(td, k, item) \in Seq(Eligible(ProvidersOf(k, item)) \intersect td.seenfns)
    BY <1>1, <1>3, ListsTyped
  <2>2. QED
    BY <1>3, <2>1, RemoveFirstKeeps
<1>5. \A j \in Kinds : td.failed[j] \subseteq td'.failed[j]
  BY <1>3
<1>6. TargetsInv'
  <2>1. \A j \in Kinds : \A i :
          ListOf(td', j, i) \in Seq(Eligible(ProvidersOf(j, i)) \intersect td'.seenfns)
    BY <1>1, <1>3, <1>4, ListsTyped
  <2>2. /\ td'.failed_fns \subseteq td'.seenfns /\ td'.seenfns \subseteq recipes
        /\ \A j \in Kinds : "" \notin DOMAIN td'.targets[j]
        /\ \A j \in Kinds : \A f \in td'.seenfns \ td'.failed_fns :
             cache.deps[j][f] \subseteq DOMAIN td'.targets[j]
    BY <1>1, <1>3 DEF TargetsInv
  <2>3. IsTaskData(td')
    BY <1>3
  <2>4. QED
    BY <1>2, <2>1, <2>2, <2>3, TargetsNext
<1>7. FramesInv'
  <2>1. list = <<>> => Frame("remove", k, item) \in GivenUp'
    BY <1>3 DEF GivenUp
  <2>2. stack' = stack \/ \E c \in GivenUp' : stack' = <<c>> \o stack
    BY <1>3, <2>1
  <2>3. td.failed_fns \subseteq td'.failed_fns
    BY <1>3
  <2>4. QED
    BY <1>1, <1>5, <2>2, <2>3, FramesNext
<1>8. ItemInv'
  BY <1>1, <1>2, SameItem
<1>9. ASSUME GivenUpInv PROVE GivenUpInv'
  <2>1. Calls \subseteq Calls' /\ (list = <<>> => Frame("remove", k, item) \in Calls')
    <3>1. ASSUME list = <<>> PROVE Calls' = Calls \union {Frame("remove", k, item)}
      <4>1. stack \in Seq(GivenUp \union {Frame("remove", k, item)})
        BY <1>1 DEF FramesInv
      <4>2. QED
        BY <1>3, <3>1, <4>1, PushCalls
    <3>2. ASSUME list # <<>> PROVE Calls' = Calls
      BY <1>3, <3>2 DEF Calls
    <3>3. QED
      BY <3>1, <3>2
  <2>2. \A f : \A j \in Kinds : HoldersOf(f, j)' \subseteq HoldersOf(f, j)
    <3>1. IsTaskData(td) /\ IsTaskData(td')
      BY <1>1, <1>3 DEF TargetsInv
    <3>2. \A f : \A j \in Kinds : HoldersOf(f, j) = {i \in DOMAIN td.targets[j] : f \in ToSet(ListOf(td, j, i))}
      BY <3>1, ByLists
    <3>3. \A f : \A j \in Kinds : HoldersOf(f, j)' = {i \in DOMAIN td'.targets[j] : f \in ToSet(ListOf(td', j, i))}
      BY <3>1, ByListsNext
    <3>4. \A f : \A j \in Kinds : \A i : f \in ToSet(ListOf(td', j, i)) => f \in ToSet(ListOf(td, j, i))
      BY <1>3, <1>4
    <3>5. QED
      BY <1>3, <3>2, <3>3, <3>4
  <2>3. \A j, i : Dependees(j, i)' = Dependees(j, i)
    BY <1>2, <1>3 DEF Dependees
  <2>4. \A f \in td'.failed_fns :
          Frame("fail", "build", f) \in Calls' \/ \A j \in Kinds : HoldersOf(f, j)' = {}
    BY <1>3, <1>9, <2>1, <2>2 DEF GivenUpInv
  <2>5. \A j \in Kinds : \A i \in td'.failed[j] :
          Frame("remove", j, i) \in Calls' \/ Dependees(j, i)' \subseteq td'.failed_fns
    BY <1>3, <1>9, <2>1, <2>3 DEF GivenUpInv
  <2>6. QED
    BY <2>4, <2>5 DEF GivenUpInv
<1>10. ASSUME RoundInv PROVE RoundInv'
  <2>1. \A j \in Kinds : Unresolved(j)' \subseteq Unresolved(j)
    <3>1. IsTaskData(td) /\ IsTaskData(td')
      BY <1>1, <1>3 DEF TargetsInv
    <3>2. SUFFICES ASSUME NEW j \in Kinds, NEW i \in Unresolved(j)' PROVE i \in Unresolved(j)
      OBVIOUS
    <3>3. i \in DOMAIN td.targets[j] /\ i \notin cache.ignored \union td'.failed[j] /\ ListOf(td', j, i) = <<>>
      BY <1>2, <1>3, <3>1, <3>2, UnresolvedNext
    <3>4. ListOf(td, j, i) = <<>>
      BY <1>3, <3>3
    <3>5. QED
      BY <1>5, <3>1, <3>3, <3>4, UnresolvedIs
  <2>2. QED
    BY <1>2, <1>5, <1>10, <2>1, RoundSame
<1>11. QED
  BY <1>1, <1>2, <1>6, <1>7, <1>8, <1>9, <1>10 DEF ResolveInv

\* Steps that leave the lists alone.
LEMMA SameLists ==
  ASSUME td'.targets = td.targets
  PROVE  /\ \A k, i : ListOf(td', k, i) = ListOf(td, k, i) /\ have(k, i)' = have(k, i)
         /\ \A f, k : HoldersOf(f, k)' = HoldersOf(f, k)
BY DEF ListOf, have, HoldersOf

LEMMA SameListsTargets ==
  ASSUME TargetsInv, cache' = cache, IsTaskData(td'), td'.targets = td.targets,
         td'.seenfns = td.seenfns, td.failed_fns \subseteq td'.failed_fns,
         td'.failed_fns \subseteq td'.seenfns
  PROVE  TargetsInv'
<1>1. \A k \in Kinds : \A i :
        ListOf(td', k, i) \in Seq(Eligible(ProvidersOf(k, i)) \intersect td'.seenfns)
  BY ListsTyped, SameLists
<1>2. /\ td'.seenfns \subseteq recipes /\ \A k \in Kinds : "" \notin DOMAIN td'.targets[k]
      /\ \A k \in Kinds : \A f \in td'.seenfns \ td'.failed_fns :
           cache.deps[k][f] \subseteq DOMAIN td'.targets[k]
  BY DEF TargetsInv
<1>3. QED
  BY <1>1, <1>2, TargetsNext

LEMMA RemoveLoopDoes ==
  ASSUME TargetsInv, RemoveLoop
  PROVE  \E fn :
           /\ fn \in ToFail(top.kind, top.name) /\ fn \in td.seenfns /\ fn \notin td.failed_fns
           /\ IsTaskData(td') /\ td'.targets = td.targets /\ td'.failed = td.failed
           /\ td'.seenfns = td.seenfns /\ td'.failed_fns = td.failed_fns \union {fn}
           /\ stack' = <<Frame("fail", "build", fn)>> \o stack
<1>1. PICK fn \in ToFail(top.kind, top.name) :
        td' = Fail(td, fn) /\ stack' = <<Frame("fail", "build", fn)>> \o stack
  BY DEF RemoveLoop
<1>2. fn \in td.seenfns /\ fn \notin td.failed_fns
  BY DEF ToFail, Dependees, FlagsName
<1>3. IsTaskData(td') /\ SameBut(td', td, "failed_fns") /\ td'.failed_fns = td.failed_fns \union {fn}
  BY <1>1, FailIs DEF TargetsInv
<1>4. QED
  BY <1>1, <1>2, <1>3 DEF SameBut

LEMMA RemoveLoopKeeps ==
  ASSUME ResolveInv, RemoveLoop
  PROVE  ResolveInv'
<1>1. TargetsInv /\ FramesInv /\ ItemInv /\ (phase # "raised" /\ ~swallowed => GivenUpInv /\ RoundInv)
  BY DEF ResolveInv
<1>2. /\ stack # <<>>
      /\ cache' = cache /\ phase' = phase /\ goals' = goals /\ todo' = todo /\ added' = added
      /\ current' = current /\ eligible' = eligible /\ failing' = failing /\ swallowed' = swallowed
  BY DEF RemoveLoop, loops, history
<1>3. PICK fn :
        /\ fn \in td.seenfns /\ IsTaskData(td') /\ td'.targets = td.targets /\ td'.failed = td.failed
        /\ td'.seenfns = td.seenfns /\ td'.failed_fns = td.failed_fns \union {fn}
        /\ stack' = <<Frame("fail", "build", fn)>> \o stack
  BY <1>1, RemoveLoopDoes
<1>4. TargetsInv'
  <2>1. td.failed_fns \subseteq td'.failed_fns /\ td'.failed_fns \subseteq td'.seenfns
    BY <1>1, <1>3 DEF TargetsInv
  <2>2. QED
    BY <1>1, <1>2, <1>3, <2>1, SameListsTargets
<1>5. FramesInv'
  <2>1. Frame("fail", "build", fn) \in GivenUp'
    BY <1>3 DEF GivenUp
  <2>2. \E c \in GivenUp' : stack' = <<c>> \o stack
    BY <1>3, <2>1
  <2>3. td.failed_fns \subseteq td'.failed_fns /\ \A k \in Kinds : td.failed[k] \subseteq td'.failed[k]
    BY <1>3
  <2>4. QED
    BY <1>1, <2>2, <2>3, FramesNext
<1>6. ItemInv'
  BY <1>1, <1>2, SameItem
<1>7. ASSUME GivenUpInv PROVE GivenUpInv'
  <2>1. Calls' = Calls \union {Frame("fail", "build", fn)}
    <3>1. stack \in Seq(GivenUp \union {Frame("fail", "build", fn)})
      BY <1>1 DEF FramesInv
    <3>2. QED
      BY <1>3, <3>1, PushCalls
  <2>2. \A f, k : HoldersOf(f, k)' = HoldersOf(f, k)
    BY <1>3, SameLists
  <2>3. \A k, i : Dependees(k, i)' = Dependees(k, i)
    BY <1>2, <1>3 DEF Dependees
  <2>4. \A f \in td'.failed_fns :
          Frame("fail", "build", f) \in Calls' \/ \A k \in Kinds : HoldersOf(f, k)' = {}
    BY <1>3, <1>7, <2>1, <2>2 DEF GivenUpInv
  <2>5. \A k \in Kinds : \A i \in td'.failed[k] :
          Frame("remove", k, i) \in Calls' \/ Dependees(k, i)' \subseteq td'.failed_fns
    BY <1>3, <1>7, <2>1, <2>3 DEF GivenUpInv
  <2>6. QED
    BY <2>4, <2>5 DEF GivenUpInv
<1>8. ASSUME RoundInv PROVE RoundInv'
  <2>1. \A k \in Kinds : Unresolved(k)' = Unresolved(k)
    BY <1>2, <1>3 DEF Unresolved
  <2>2. QED
    BY <1>2, <1>3, <1>8, <2>1, RoundSame
<1>9. QED
  BY <1>1, <1>2, <1>4, <1>5, <1>6, <1>7, <1>8 DEF ResolveInv

LEMMA ReturnKeeps ==
  ASSUME ResolveInv, Return
  PROVE  ResolveInv'
<1>1. TargetsInv /\ FramesInv /\ ItemInv /\ (phase # "raised" /\ ~swallowed => GivenUpInv /\ RoundInv)
  BY DEF ResolveInv
<1>2. /\ stack # <<>> /\ LoopOver /\ stack' = Tail(stack) /\ td' = td
      /\ cache' = cache /\ phase' = phase /\ goals' = goals /\ todo' = todo /\ added' = added
      /\ current' = current /\ eligible' = eligible /\ failing' = failing /\ swallowed' = swallowed
  BY DEF Return, loops, history
<1>3. TargetsInv'
  <2>1. IsTaskData(td) /\ td.failed_fns \subseteq td.seenfns
    BY <1>1 DEF TargetsInv
  <2>2. QED
    BY <1>1, <1>2, <2>1, SameListsTargets
<1>4. FramesInv'
  BY <1>1, <1>2, FramesNext
<1>5. ItemInv'
  BY <1>1, <1>2, SameItem
<1>6. ASSUME GivenUpInv PROVE GivenUpInv'
  <2>1. Calls \subseteq Calls' \union {top}
    BY <1>1, <1>2, PopCalls DEF FramesInv
  <2>2. \A f, k : HoldersOf(f, k)' = HoldersOf(f, k)
    BY <1>2, SameLists
  <2>3. \A k, i : Dependees(k, i)' = Dependees(k, i)
    BY <1>2 DEF Dependees
  <2>4. ASSUME NEW f \in td.failed_fns, top = Frame("fail", "build", f), NEW k \in Kinds
        PROVE  HoldersOf(f, k) = {}
    <3>1. top.call = "fail" /\ top.name = f
      BY <2>4 DEF Frame
    <3>2. HoldersOf(f, "build") \union HoldersOf(f, "run") = {}
      BY <1>2, <3>1 DEF LoopOver
    <3>3. QED
      BY <3>2 DEF Kinds
  <2>5. ASSUME NEW k \in Kinds, NEW i \in td.failed[k], top = Frame("remove", k, i)
        PROVE  Dependees(k, i) \subseteq td.failed_fns
    <3>1. top.call = "remove" /\ top.kind = k /\ top.name = i
      BY <2>5 DEF Frame
    <3>2. ToFail(k, i) = {}
      BY <1>2, <3>1 DEF LoopOver
    <3>3. QED
      BY <3>2 DEF ToFail
  <2>6. \A f \in td.failed_fns :
          Frame("fail", "build", f) \in Calls' \/ \A k \in Kinds : HoldersOf(f, k) = {}
    BY <1>6, <2>1, <2>4 DEF GivenUpInv
  <2>7. \A k \in Kinds : \A i \in td.failed[k] :
          Frame("remove", k, i) \in Calls' \/ Dependees(k, i) \subseteq td.failed_fns
    BY <1>6, <2>1, <2>5 DEF GivenUpInv
  <2>8. QED
    BY <1>2, <2>2, <2>3, <2>6, <2>7 DEF GivenUpInv
<1>7. ASSUME RoundInv PROVE RoundInv'
  <2>1. \A k \in Kinds : Unresolved(k)' = Unresolved(k)
    BY <1>2 DEF Unresolved
  <2>2. QED
    BY <1>2, <1>7, <2>1, RoundSame
<1>8. QED
  BY <1>1, <1>2, <1>3, <1>4, <1>5, <1>6, <1>7 DEF ResolveInv

\* What the except clauses do to the task data.
LEMMA RemovalDoes ==
  ASSUME TargetsInv, NEW item, Removal(item)
  PROVE  /\ IsTaskData(td') /\ td'.targets = td.targets /\ td'.seenfns = td.seenfns
         /\ td'.failed_fns = td.failed_fns
         /\ \A k \in Kinds : td.failed[k] \subseteq td'.failed[k]
         /\ \/ phase = "build" /\ cache.allowincomplete /\ td' = td /\ stack' = <<>>
            \/ /\ stack' = <<Frame("remove", kind, item)>>
               /\ \A k \in Kinds : td'.failed[k] = td.failed[k] \union (IF k = kind THEN {item} ELSE {})
<1>1. IsTaskData(td) /\ kind \in Kinds
  BY KindIs DEF TargetsInv
<1>2. CASE phase = "build" /\ cache.allowincomplete
  BY <1>1, <1>2 DEF Removal
<1>3. CASE ~(phase = "build" /\ cache.allowincomplete)
  <2>1. td' = RemoveTarget(td, kind, item) /\ stack' = <<Frame("remove", kind, item)>>
    BY <1>3 DEF Removal
  <2>2. /\ IsTaskData(td') /\ SameBut(td', td, "failed")
        /\ \A k \in Kinds : td'.failed[k] = td.failed[k] \union (IF k = kind THEN {item} ELSE {})
    BY <1>1, <2>1, RemoveTargetIs
  <2>3. QED
    BY <2>1, <2>2 DEF SameBut
<1>4. QED
  BY <1>2, <1>3

LEMMA RemovalFrames ==
  ASSUME TargetsInv, FramesInv, cache' = cache, NEW item, Removal(item)
  PROVE  TargetsInv' /\ FramesInv'
<1>1. /\ IsTaskData(td') /\ td'.targets = td.targets /\ td'.seenfns = td.seenfns
      /\ td'.failed_fns = td.failed_fns
      /\ \A k \in Kinds : td.failed[k] \subseteq td'.failed[k]
      /\ \/ stack' = <<>>
         \/ stack' = <<Frame("remove", kind, item)>> /\ item \in td'.failed[kind]
  BY RemovalDoes, KindIs
<1>2. TargetsInv'
  <2>1. td.failed_fns \subseteq td'.failed_fns /\ td'.failed_fns \subseteq td'.seenfns
    BY <1>1 DEF TargetsInv
  <2>2. QED
    BY <1>1, <2>1, SameListsTargets
<1>3. FramesInv'
  <2>1. item \in td'.failed[kind] => Frame("remove", kind, item) \in GivenUp'
    BY KindIs DEF GivenUp
  <2>2. stack' = <<>> \/ \E c \in GivenUp' : stack' = <<c>>
    BY <1>1, <2>1
  <2>3. td.failed_fns \subseteq td'.failed_fns
    BY <1>1
  <2>4. QED
    BY <1>1, <2>2, <2>3, FramesNext
<1>4. QED
  BY <1>2, <1>3

LEMMA RaiseKeeps ==
  ASSUME ResolveInv, Raise
  PROVE  ResolveInv'
<1>1. TargetsInv /\ FramesInv /\ ItemInv
  BY DEF ResolveInv
<1>2. /\ stack # <<>> /\ eligible' = <<>> /\ cache' = cache /\ goals' = goals /\ todo' = todo
      /\ current' = current
      /\ \/ Removal(current) /\ failing' = TRUE /\ swallowed' = TRUE /\ phase' = phase
         \/ phase' = "raised" /\ stack' = <<>> /\ td' = td /\ failing' = failing
  BY DEF Raise, history
<1>3. current # "" /\ current \notin cache.ignored
  BY <1>1, <1>2 DEF ItemInv
<1>4. <<>> \in Seq(Eligible(ProvidersOf(kind, current))')
  OBVIOUS
<1>5. CASE Removal(current) /\ failing' = TRUE /\ swallowed' = TRUE /\ phase' = phase
  <2>1. TargetsInv' /\ FramesInv'
    BY <1>1, <1>2, <1>5, RemovalFrames
  <2>2. ItemInv'
    BY <1>1, <1>2, <1>3, <1>4, <1>5 DEF ItemInv
  <2>3. QED
    BY <1>5, <2>1, <2>2 DEF ResolveInv
<1>6. CASE phase' = "raised" /\ stack' = <<>> /\ td' = td /\ failing' = failing
  <2>1. IsTaskData(td) /\ td.failed_fns \subseteq td.seenfns
    BY <1>1 DEF TargetsInv
  <2>2. TargetsInv'
    BY <1>1, <1>2, <1>6, <2>1, SameListsTargets
  <2>3. FramesInv'
    BY <1>1, <1>6, FramesNext
  <2>4. ItemInv'
    BY <1>1, <1>2, <1>3, <1>4, <1>6 DEF ItemInv
  <2>5. QED
    BY <1>6, <2>2, <2>3, <2>4 DEF ResolveInv
<1>7. QED
  BY <1>2, <1>5, <1>6

LEMMA NoCalls == stack = <<>> => Calls = {}
<1>1. \A s : s = <<>> => DOMAIN s = {}
  OBVIOUS
<1>2. QED
  BY <1>1 DEF Calls, ToSet

\* An item that may be resolved next has a name; nothing is going on.
LEMMA NextItemIs ==
  ASSUME CacheOK(cache), ItemInv, NEW item, ReadyFor(item)
  PROVE  /\ current = "" /\ item # "" /\ phase \in {"targets", "build", "run"}
         /\ stack = <<>> /\ eligible = <<>> /\ ~failing
         /\ phase = "targets" => goals # <<>>
<1>1. current = "" /\ item \in NextItems
  BY DEF ReadyFor
<1>2. phase \in {"targets", "build", "run"}
  BY <1>1 DEF NextItems, ItemInv
<1>3. CASE phase = "targets"
  <2>1. goals # <<>> /\ item = goals[1][1]
    BY <1>1, <1>3 DEF NextItems
  <2>2. goals[1] \in ToSet(cache.goals)
    <3>1. goals \in Seq(ToSet(cache.goals))
      BY DEF ItemInv
    <3>2. 1 \in DOMAIN goals
      BY <2>1, <3>1
    <3>3. QED
      BY <3>1, <3>2
  <2>3. item # ""
    BY <2>1, <2>2 DEF CacheOK
  <2>4. QED
    BY <1>1, <1>2, <2>1, <2>3 DEF ItemInv
<1>4. CASE phase \in {"build", "run"}
  <2>1. item \in todo /\ "" \notin todo
    BY <1>1, <1>4 DEF NextItems, ItemInv
  <2>2. QED
    BY <1>1, <1>2, <1>4, <2>1 DEF ItemInv
<1>5. QED
  BY <1>2, <1>3, <1>4

LEMMA AlreadyKeeps ==
  ASSUME CacheOK(cache), ResolveInv, NEW item, Already(item)
  PROVE  ResolveInv'
<1>1. TargetsInv /\ FramesInv /\ ItemInv /\ (phase # "raised" /\ ~swallowed => GivenUpInv /\ RoundInv)
  BY DEF ResolveInv
<1>2. /\ ReadyFor(item) /\ current' = item /\ td' = td /\ stack' = stack /\ eligible' = eligible
      /\ cache' = cache /\ phase' = phase /\ goals' = goals /\ todo' = todo /\ added' = added
      /\ failing' = failing /\ swallowed' = swallowed
  BY DEF Already, loops, history
<1>3. /\ item # "" /\ phase \in {"targets", "build", "run"}
      /\ stack = <<>> /\ eligible = <<>> /\ ~failing
      /\ phase = "targets" => goals # <<>>
  BY <1>1, <1>2, NextItemIs
<1>4. TargetsInv' /\ FramesInv'
  <2>1. IsTaskData(td) /\ td.failed_fns \subseteq td.seenfns
    BY <1>1 DEF TargetsInv
  <2>2. QED
    BY <1>1, <1>2, <2>1, SameListsTargets, FramesNext
<1>5. ItemInv'
  <2>1. <<>> \in Seq(Eligible(ProvidersOf(kind, current))')
    OBVIOUS
  <2>2. QED
    BY <1>1, <1>2, <1>3, <2>1 DEF ItemInv
<1>6. ASSUME GivenUpInv PROVE GivenUpInv'
  BY <1>2, <1>6 DEF GivenUpInv, Calls, HoldersOf, Dependees
<1>7. RoundInv'
  BY <1>2, <1>3 DEF RoundInv
<1>8. QED
  BY <1>1, <1>2, <1>4, <1>5, <1>6, <1>7 DEF ResolveInv

LEMMA TryKeeps ==
  ASSUME CacheOK(cache), ResolveInv, NEW item, Try(item)
  PROVE  ResolveInv'
<1>1. TargetsInv /\ FramesInv /\ ItemInv /\ (phase # "raised" /\ ~swallowed => GivenUpInv /\ RoundInv)
  BY DEF ResolveInv
<1>2. /\ ReadyFor(item) /\ current' = item /\ td' = td /\ stack' = stack
      /\ cache' = cache /\ phase' = phase /\ goals' = goals /\ todo' = todo /\ added' = added
      /\ failing' = failing /\ swallowed' = swallowed
      /\ item \notin cache.ignored /\ \E attempt \in Attempts(item) : eligible' = attempt.order
  BY DEF Try, loops, history
<1>3. /\ item # "" /\ phase \in {"targets", "build", "run"}
      /\ stack = <<>> /\ eligible = <<>> /\ ~failing
      /\ phase = "targets" => goals # <<>>
  BY <1>1, <1>2, NextItemIs
<1>4. TargetsInv' /\ FramesInv'
  <2>1. IsTaskData(td) /\ td.failed_fns \subseteq td.seenfns
    BY <1>1 DEF TargetsInv
  <2>2. QED
    BY <1>1, <1>2, <2>1, SameListsTargets, FramesNext
<1>5. ItemInv'
  <2>1. eligible' \in Seq(Eligible(ProvidersOf(kind, item)))
    BY <1>2, AttemptHasAll
  <2>2. kind' = kind /\ \A k, i : Eligible(ProvidersOf(k, i))' = Eligible(ProvidersOf(k, i))
    BY <1>2, KindSame, CacheSame
  <2>3. eligible' \in Seq(Eligible(ProvidersOf(kind, current))')
    <3>1. Eligible(ProvidersOf(kind, current))' = Eligible(ProvidersOf(kind, item))
      BY <1>2, <2>2
    <3>2. QED
      BY <2>1, <3>1
  <2>4. QED
    BY <1>1, <1>2, <1>3, <2>3 DEF ItemInv
<1>6. ASSUME GivenUpInv PROVE GivenUpInv'
  BY <1>2, <1>6 DEF GivenUpInv, Calls, HoldersOf, Dependees
<1>7. RoundInv'
  BY <1>2, <1>3 DEF RoundInv
<1>8. QED
  BY <1>1, <1>2, <1>4, <1>5, <1>6, <1>7 DEF ResolveInv

LEMMA NoProviderKeeps ==
  ASSUME CacheOK(cache), ResolveInv, NEW item, NoProvider(item)
  PROVE  ResolveInv'
<1>1. TargetsInv /\ FramesInv /\ ItemInv /\ (phase # "raised" /\ ~swallowed => GivenUpInv /\ RoundInv)
  BY DEF ResolveInv
<1>2. /\ ReadyFor(item) /\ current' = item /\ eligible' = eligible
      /\ cache' = cache /\ goals' = goals /\ todo' = todo /\ added' = added
      /\ swallowed' = swallowed /\ item \notin cache.ignored
      /\ \/ phase' = "raised" /\ td' = td /\ stack' = stack /\ failing' = failing
         \/ failing' = TRUE /\ Removal(item) /\ phase' = phase
  BY DEF NoProvider, history
<1>3. /\ current = "" /\ item # "" /\ phase \in {"targets", "build", "run"}
      /\ stack = <<>> /\ eligible = <<>> /\ ~failing
      /\ phase = "targets" => goals # <<>>
  BY <1>1, <1>2, NextItemIs
<1>4. <<>> \in Seq(Eligible(ProvidersOf(kind, current))')
  OBVIOUS
<1>5. CASE phase' = "raised" /\ td' = td /\ stack' = stack /\ failing' = failing
  <2>1. IsTaskData(td) /\ td.failed_fns \subseteq td.seenfns
    BY <1>1 DEF TargetsInv
  <2>2. TargetsInv'
    BY <1>1, <1>2, <1>5, <2>1, SameListsTargets
  <2>3. FramesInv'
    BY <1>1, <1>5, FramesNext
  <2>4. ItemInv'
    BY <1>1, <1>2, <1>3, <1>4, <1>5 DEF ItemInv
  <2>5. QED
    BY <1>5, <2>2, <2>3, <2>4 DEF ResolveInv
<1>6. CASE failing' = TRUE /\ Removal(item) /\ phase' = phase
  <2>1. TargetsInv' /\ FramesInv'
    BY <1>1, <1>2, <1>6, RemovalFrames
  <2>2. ItemInv'
    BY <1>1, <1>2, <1>3, <1>4, <1>6 DEF ItemInv
  <2>3. /\ IsTaskData(td) /\ td'.targets = td.targets /\ td'.seenfns = td.seenfns
        /\ td'.failed_fns = td.failed_fns
        /\ \A k \in Kinds : td.failed[k] \subseteq td'.failed[k]
        /\ \/ phase = "build" /\ cache.allowincomplete /\ td' = td /\ stack' = <<>>
           \/ /\ stack' = <<Frame("remove", kind, item)>>
              /\ \A k \in Kinds : td'.failed[k] = td.failed[k] \union (IF k = kind THEN {item} ELSE {})
    BY <1>1, <1>6, RemovalDoes DEF TargetsInv
  <2>4. ASSUME GivenUpInv PROVE GivenUpInv'
    <3>1. \A f, k : HoldersOf(f, k)' = HoldersOf(f, k)
      BY <2>3, SameLists
    <3>2. \A k, i : Dependees(k, i)' = Dependees(k, i)
      BY <1>2, <2>3 DEF Dependees
    <3>3. Calls = {}
      BY <1>3, NoCalls
    <3>4. \A f \in td'.failed_fns : \A k \in Kinds : HoldersOf(f, k)' = {}
      BY <2>3, <2>4, <3>1, <3>3 DEF GivenUpInv
    <3>5. ASSUME NEW k \in Kinds, NEW i \in td'.failed[k]
          PROVE  Frame("remove", k, i) \in Calls' \/ Dependees(k, i)' \subseteq td'.failed_fns
      <4>1. CASE i \in td.failed[k]
        BY <2>3, <2>4, <3>2, <3>3, <4>1 DEF GivenUpInv
      <4>2. CASE i \notin td.failed[k]
        <5>1. stack' = <<Frame("remove", k, i)>>
          BY <2>3, <3>5, <4>2
        <5>2. 1 \in DOMAIN stack' /\ stack'[1] = Frame("remove", k, i)
          BY <5>1
        <5>3. QED
          BY <5>2 DEF Calls, ToSet
      <4>3. QED
        BY <4>1, <4>2
    <3>6. QED
      BY <3>4, <3>5 DEF GivenUpInv
  <2>5. ASSUME RoundInv PROVE RoundInv'
    <3>1. kind' = kind /\ kind \in Kinds
      BY <1>6, KindSame, KindIs
    <3>2. \A k \in Kinds : Unresolved(k)' \subseteq Unresolved(k)
      BY <1>2, <2>3 DEF Unresolved
    <3>3. Open("build")' \subseteq Open("build") /\ Open("run")' \subseteq Open("run")
      BY <1>2, <3>2 DEF Open, Kinds
    <3>4. item \in td'.failed[kind] \/ (phase = "build" /\ cache.allowincomplete)
      BY <2>3, <3>1
    <3>5. QED
      BY <1>2, <1>3, <1>6, <2>5, <3>1, <3>3, <3>4 DEF RoundInv
  <2>6. QED
    BY <1>1, <1>2, <1>6, <2>1, <2>2, <2>4, <2>5 DEF ResolveInv
<1>7. QED
  BY <1>2, <1>5, <1>6

LEMMA AddTasksKeeps ==
  ASSUME CacheOK(cache), ResolveInv, AddTasks
  PROVE  ResolveInv'
<1> DEFINE fn == Head(eligible)
           E == Eligible(ProvidersOf(kind, current))
<1>1. TargetsInv /\ FramesInv /\ ItemInv /\ (phase # "raised" /\ ~swallowed => GivenUpInv /\ RoundInv)
  BY DEF ResolveInv
<1>2. /\ current # "" /\ stack = <<>> /\ eligible # <<>> /\ eligible' = Tail(eligible)
      /\ cache' = cache /\ phase' = phase /\ goals' = goals /\ todo' = todo /\ added' = added
      /\ current' = current /\ failing' = failing /\ swallowed' = swallowed
  BY DEF AddTasks, loops, history
<1>3. fn = Head(eligible)
  OBVIOUS
<1> HIDE DEF fn
<1>4. /\ fn \in E /\ fn \in recipes /\ IsTaskData(td') /\ td'.failed = td.failed
      /\ \/ fn \in td.failed_fns /\ td' = td /\ stack' = stack
         \/ /\ fn \notin td.failed_fns /\ td'.seenfns = td.seenfns \union {fn}
            /\ current \in DOMAIN td'.targets[kind]
            /\ \A j \in Kinds : DOMAIN td.targets[j] \subseteq DOMAIN td'.targets[j]
                                  /\ "" \notin DOMAIN td'.targets[j]
            /\ \A j \in Kinds : \A i :
                 ListOf(td', j, i) = IF j = kind /\ i = current
                                     THEN Append(ListOf(td, kind, current), fn) ELSE ListOf(td, j, i)
            /\ \/ fn \in td.seenfns /\ td'.failed_fns = td.failed_fns /\ stack' = stack
               \/ /\ fn \notin td.seenfns /\ td'.failed_fns = td.failed_fns /\ stack' = stack
                  /\ \A j \in Kinds : cache.deps[j][fn] \subseteq DOMAIN td'.targets[j]
                                        /\ cache.deps[j][fn] \intersect td.failed[j] = {}
               \/ /\ fn \notin td.seenfns /\ td'.failed_fns = td.failed_fns \union {fn}
                  /\ stack' = <<Frame("fail", "build", fn)>>
                  /\ \E j \in Kinds : cache.deps[j][fn] \intersect td.failed[j] # {}
  BY <1>1, <1>3, AddTasksDoes
<1>5. kind' = kind /\ kind \in Kinds
  BY <1>2, KindSame, KindIs
<1>6. ItemInv'
  <2>1. eligible' \in Seq(E)
    BY <1>1, <1>2, HeadTailProperties DEF ItemInv
  <2>2. Eligible(ProvidersOf(kind, current))' = E
    BY <1>2, <1>5, CacheSame
  <2>3. eligible' \in Seq(Eligible(ProvidersOf(kind, current))')
    BY <2>1, <2>2
  <2>4. current \notin cache.ignored /\ ~failing
    BY <1>1, <1>2 DEF ItemInv
  <2>5. QED
    BY <1>1, <1>2, <2>3, <2>4 DEF ItemInv
<1>7. RoundInv'
  BY <1>1, <1>2 DEF RoundInv, ItemInv
<1>8. CASE fn \in td.failed_fns /\ td' = td /\ stack' = stack
  <2>1. IsTaskData(td) /\ td.failed_fns \subseteq td.seenfns
    BY <1>1 DEF TargetsInv
  <2>2. TargetsInv' /\ FramesInv'
    BY <1>1, <1>2, <1>8, <2>1, SameListsTargets, FramesNext
  <2>3. GivenUpInv => GivenUpInv'
    BY <1>2, <1>8 DEF GivenUpInv, Calls, HoldersOf, Dependees
  <2>4. QED
    BY <1>1, <1>2, <1>6, <1>7, <2>2, <2>3 DEF ResolveInv
<1>9. CASE fn \notin td.failed_fns
  <2>1. /\ td.failed_fns \subseteq td'.failed_fns /\ td.seenfns \subseteq td'.seenfns
        /\ td'.seenfns = td.seenfns \union {fn} /\ td'.failed_fns \subseteq td'.seenfns
        /\ fn \in td'.failed_fns => stack' = <<Frame("fail", "build", fn)>>
        /\ stack' = stack \/ (stack' = <<Frame("fail", "build", fn)>> /\ fn \in td'.failed_fns)
        /\ td'.failed_fns \subseteq td.failed_fns \union {fn}
    BY <1>1, <1>4, <1>9 DEF TargetsInv
  <2>2. /\ ListOf(td', kind, current) \in Seq(E \intersect td'.seenfns)
        /\ ToSet(ListOf(td', kind, current)) = ToSet(ListOf(td, kind, current)) \union {fn}
    <3>1. ListOf(td, kind, current) \in Seq(E \intersect td.seenfns)
      BY <1>1, <1>5, ListsTyped
    <3>2. ListOf(td, kind, current) \in Seq(E \intersect td'.seenfns)
      BY <2>1, <3>1
    <3>3. fn \in E \intersect td'.seenfns
      BY <1>4, <2>1
    <3>4. ListOf(td', kind, current) = Append(ListOf(td, kind, current), fn)
      BY <1>4, <1>5, <1>9
    <3>5. QED
      BY <3>2, <3>3, <3>4, AppendKeeps
  <2>3. TargetsInv'
    <3>1. ASSUME NEW k \in Kinds, NEW i
          PROVE  ListOf(td', k, i) \in Seq(Eligible(ProvidersOf(k, i)) \intersect td'.seenfns)
      <4>1. CASE k = kind /\ i = current
        BY <2>2, <4>1
      <4>2. CASE ~(k = kind /\ i = current)
        <5>1. ListOf(td', k, i) = ListOf(td, k, i)
          BY <1>4, <1>9, <4>2
        <5>2. ListOf(td, k, i) \in Seq(Eligible(ProvidersOf(k, i)) \intersect td.seenfns)
          BY <1>1, ListsTyped
        <5>3. QED
          BY <2>1, <5>1, <5>2
      <4>3. QED
        BY <4>1, <4>2
    <3>2. \A k \in Kinds : \A f \in td'.seenfns \ td'.failed_fns :
            cache.deps[k][f] \subseteq DOMAIN td'.targets[k]
      <4>1. TAKE k \in Kinds
      <4>2. TAKE f \in td'.seenfns \ td'.failed_fns
      <4>3. CASE f \in td.seenfns
        <5>1. cache.deps[k][f] \subseteq DOMAIN td.targets[k]
          BY <1>1, <2>1, <4>3 DEF TargetsInv
        <5>2. QED
          BY <1>4, <1>9, <5>1
      <4>4. CASE f \notin td.seenfns
        BY <1>4, <1>9, <2>1, <4>4
      <4>5. QED
        BY <4>3, <4>4
    <3>3. td'.seenfns \subseteq recipes
      BY <1>1, <1>4, <2>1 DEF TargetsInv
    <3>4. \A k \in Kinds : "" \notin DOMAIN td'.targets[k]
      BY <1>4, <1>9
    <3>5. IsTaskData(td')
      BY <1>4
    <3>6. QED
      BY <1>2, <2>1, <3>1, <3>2, <3>3, <3>4, <3>5, TargetsNext
  <2>4. FramesInv'
    <3>1. fn \in td'.failed_fns => Frame("fail", "build", fn) \in GivenUp'
      BY DEF GivenUp
    <3>2. stack' = stack \/ \E c \in GivenUp' : stack' = <<c>>
      BY <2>1, <3>1
    <3>3. \A k \in Kinds : td.failed[k] \subseteq td'.failed[k]
      BY <1>4
    <3>4. QED
      BY <1>1, <2>1, <3>2, <3>3, FramesNext
  <2>5. ASSUME GivenUpInv PROVE GivenUpInv'
    <3>1. Calls = {}
      BY <1>2, NoCalls
    <3>2. fn \in td'.failed_fns => Frame("fail", "build", fn) \in Calls'
      <4>1. SUFFICES ASSUME fn \in td'.failed_fns PROVE Frame("fail", "build", fn) \in Calls'
        OBVIOUS
      <4>2. 1 \in DOMAIN stack' /\ stack'[1] = Frame("fail", "build", fn)
        BY <2>1, <4>1
      <4>3. QED
        BY <4>2 DEF Calls, ToSet
    <3>3. ASSUME NEW f \in td.failed_fns, NEW k \in Kinds PROVE HoldersOf(f, k)' = {}
      <4>1. IsTaskData(td) /\ f # fn /\ HoldersOf(f, k) = {}
        BY <1>1, <1>9, <2>5, <3>1 DEF TargetsInv, GivenUpInv
      <4>2. ASSUME NEW i \in HoldersOf(f, k)' PROVE FALSE
        <5>1. f \in ToSet(ListOf(td', k, i))
          <6>1. IsTaskData(td')
            BY <1>4
          <6>2. HoldersOf(f, k)' = {j \in DOMAIN td'.targets[k] : f \in ToSet(ListOf(td', k, j))}
            BY <6>1, ByListsNext
          <6>3. QED
            BY <4>2, <6>2
        <5>2. f \in ToSet(ListOf(td, k, i))
          BY <1>4, <1>9, <2>2, <4>1, <5>1
        <5>3. i \in DOMAIN td.targets[k]
          BY <5>2 DEF ListOf, ToSet
        <5>4. i \in HoldersOf(f, k)
          BY <4>1, <5>2, <5>3, ByLists
        <5>5. QED
          BY <4>1, <5>4
      <4>3. QED
        BY <4>2
    <3>4. ASSUME NEW k \in Kinds, NEW i \in td'.failed[k]
          PROVE  Dependees(k, i)' \subseteq td'.failed_fns
      <4>1. i \in td.failed[k] /\ Dependees(k, i) \subseteq td.failed_fns
        BY <1>4, <2>5, <3>1, <3>4 DEF GivenUpInv
      <4>2. SUFFICES ASSUME NEW f \in Dependees(k, i)' PROVE f \in td'.failed_fns
        OBVIOUS
      <4>3. f \in td'.seenfns /\ i \in cache.deps[k][f]
        BY <1>2, <4>2 DEF Dependees
      <4>4. CASE f \in td.seenfns
        <5>1. f \in Dependees(k, i)
          BY <4>3, <4>4 DEF Dependees
        <5>2. QED
          BY <2>1, <4>1, <5>1
      <4>5. CASE f \notin td.seenfns
        <5>1. f = fn /\ cache.deps[k][fn] \intersect td.failed[k] # {}
          BY <2>1, <4>1, <4>3, <4>5
        <5>2. QED
          BY <1>4, <1>9, <4>5, <5>1
      <4>6. QED
        BY <4>4, <4>5
    <3>5. QED
      BY <2>1, <3>2, <3>3, <3>4 DEF GivenUpInv
  <2>6. QED
    BY <1>1, <1>2, <1>6, <1>7, <2>3, <2>4, <2>5 DEF ResolveInv
<1>10. QED
  BY <1>4, <1>8, <1>9

LEMMA ItemDoneKeeps ==
  ASSUME ResolveInv, ItemDone
  PROVE  ResolveInv'
<1>1. TargetsInv /\ FramesInv /\ ItemInv /\ (phase # "raised" /\ ~swallowed => GivenUpInv /\ RoundInv)
  BY DEF ResolveInv
<1>2. /\ current # "" /\ stack = <<>> /\ eligible = <<>> /\ current' = "" /\ failing' = FALSE
      /\ cache' = cache /\ phase' = phase /\ eligible' = eligible /\ stack' = stack
      /\ swallowed' = swallowed
  BY DEF ItemDone, history
<1>3. phase \in {"targets", "build", "run"}
  BY <1>1, <1>2 DEF ItemInv, ItemDone
<1>4. /\ IsTaskData(td) /\ td.failed_fns \subseteq td.seenfns
      /\ goals \in Seq(ToSet(cache.goals)) /\ "" \notin todo
      /\ phase = "targets" => goals # <<>>
  BY <1>1, <1>2 DEF TargetsInv, ItemInv
<1>5. /\ IsTaskData(td') /\ td'.targets = td.targets /\ td'.failed = td.failed
      /\ td'.seenfns = td.seenfns /\ td'.failed_fns = td.failed_fns
      /\ goals' \in Seq(ToSet(cache.goals))
      /\ phase = "targets" \/ (todo' = todo \ {current} /\ added' = (added \/ ~failing))
      /\ "" \notin todo'
  <2>1. CASE phase = "targets"
    <3>1. /\ td' = [td EXCEPT !.external = @ \union {current}] /\ goals' = Tail(goals)
          /\ todo' = todo
      BY <2>1 DEF ItemDone
    <3>2. /\ IsTaskData(td') /\ td'.targets = td.targets /\ td'.failed = td.failed
          /\ td'.seenfns = td.seenfns /\ td'.failed_fns = td.failed_fns
      BY <1>4, <3>1 DEF IsTaskData
    <3>3. goals' \in Seq(ToSet(cache.goals))
      BY <1>4, <2>1, <3>1, HeadTailProperties
    <3>4. QED
      BY <1>4, <2>1, <3>1, <3>2, <3>3
  <2>2. CASE phase # "targets"
    <3>1. /\ todo' = todo \ {current} /\ added' = (added \/ ~failing) /\ td' = td
          /\ goals' = goals
      BY <2>2 DEF ItemDone
    <3>2. QED
      BY <1>4, <2>2, <3>1
  <2>3. QED
    BY <2>1, <2>2
<1>6. TargetsInv' /\ FramesInv'
  <2>1. TargetsInv'
    BY <1>1, <1>2, <1>4, <1>5, SameListsTargets
  <2>2. FramesInv'
    BY <1>1, <1>2, <1>5, FramesNext
  <2>3. QED
    BY <2>1, <2>2
<1>7. ItemInv'
  <2>1. <<>> \in Seq(Eligible(ProvidersOf(kind, current))')
    OBVIOUS
  <2>2. QED
    BY <1>2, <1>3, <1>5, <2>1 DEF ItemInv
<1>8. ASSUME GivenUpInv PROVE GivenUpInv'
  BY <1>2, <1>5, <1>8 DEF GivenUpInv, Calls, HoldersOf, Dependees
<1>9. ASSUME RoundInv PROVE RoundInv'
  <2>1. Open("build")' = Open("build") /\ Open("run")' = Open("run")
    BY <1>2, <1>5 DEF Open, Unresolved
  <2>2. ASSUME failing, phase \in {"build", "run"} PROVE current \notin Open(phase)
    BY <1>9, <2>2 DEF RoundInv, Open, Unresolved, kind
  <2>3. QED
    BY <1>2, <1>3, <1>5, <1>9, <2>1, <2>2 DEF RoundInv
<1>10. QED
  BY <1>1, <1>2, <1>6, <1>7, <1>8, <1>9 DEF ResolveInv

LEMMA LoopDoneKeeps ==
  ASSUME ResolveInv, LoopDone
  PROVE  ResolveInv'
<1>1. TargetsInv /\ FramesInv /\ ItemInv /\ (phase # "raised" /\ ~swallowed => GivenUpInv /\ RoundInv)
  BY DEF ResolveInv
<1>2. /\ current = "" /\ NextItems = {} /\ phase \in {"targets", "build", "run"}
      /\ cache' = cache /\ td' = td /\ goals' = goals /\ current' = current
      /\ eligible' = eligible /\ stack' = stack /\ failing' = failing /\ swallowed' = swallowed
  BY DEF LoopDone, history
<1>3. stack = <<>> /\ eligible = <<>> /\ ~failing
  BY <1>1, <1>2 DEF ItemInv
<1>4. /\ \/ phase = "targets" /\ phase' = "build"
         \/ phase = "build" /\ phase' = "run" /\ todo = {}
         \/ phase = "run" /\ ~added /\ phase' = "done" /\ todo = {}
         \/ phase = "run" /\ added /\ phase' = "build"
      /\ todo' = IF phase' = "done" THEN {} ELSE Unresolved(phase')
      /\ phase = "build" => added' = added
  <2>1. /\ phase = "targets" => phase' = "build"
        /\ phase = "build" => phase' = "run"
        /\ phase = "run" => phase' = IF added THEN "build" ELSE "done"
    BY <1>2 DEF LoopDone
  <2>2. phase \in {"build", "run"} => todo = {}
    BY <1>2 DEF NextItems
  <2>3. /\ todo' = IF phase' = "done" THEN {} ELSE Unresolved(phase')
        /\ phase = "build" => added' = added
    BY DEF LoopDone
  <2>4. QED
    BY <1>2, <2>1, <2>2, <2>3
<1>5. TargetsInv' /\ FramesInv'
  <2>1. IsTaskData(td) /\ td.failed_fns \subseteq td.seenfns
    BY <1>1 DEF TargetsInv
  <2>2. TargetsInv'
    BY <1>1, <1>2, <2>1, SameListsTargets
  <2>3. FramesInv'
    BY <1>1, <1>2, FramesNext
  <2>4. QED
    BY <2>2, <2>3
<1>6. ItemInv'
  <2>1. <<>> \in Seq(Eligible(ProvidersOf(kind, current))')
    OBVIOUS
  <2>2. \A k \in Kinds : "" \notin Unresolved(k)
    BY <1>1 DEF TargetsInv, Unresolved
  <2>3. "" \notin todo'
    BY <1>4, <2>2 DEF Kinds
  <2>4. QED
    BY <1>1, <1>2, <1>3, <1>4, <2>1, <2>3 DEF ItemInv
<1>7. ASSUME GivenUpInv PROVE GivenUpInv'
  BY <1>2, <1>7 DEF GivenUpInv, Calls, HoldersOf, Dependees
<1>8. ASSUME RoundInv PROVE RoundInv'
  <2>1. Open("build")' = Open("build") /\ Open("run")' = Open("run")
    BY <1>2 DEF Open, Unresolved
  <2>2. Open("build") \subseteq Unresolved("build") /\ Open("run") = Unresolved("run")
    BY DEF Open
  <2>3. QED
    BY <1>2, <1>3, <1>4, <1>8, <2>1, <2>2 DEF RoundInv
<1>9. QED
  BY <1>1, <1>2, <1>4, <1>5, <1>6, <1>7, <1>8 DEF ResolveInv

LEMMA ResolveKeeps ==
  ASSUME CacheOK(cache), ResolveInv, ResolveNext
  PROVE  ResolveInv'
BY FailLoopKeeps, RemoveLoopKeeps, ReturnKeeps, RaiseKeeps, AlreadyKeeps, TryKeeps,
   NoProviderKeeps, AddTasksKeeps, ItemDoneKeeps, LoopDoneKeeps DEF ResolveNext

LEMMA ResolveSame ==
  ASSUME ResolveInv, UNCHANGED resolveVars
  PROVE  ResolveInv'
<1>1. /\ cache' = cache /\ td' = td /\ phase' = phase /\ goals' = goals /\ todo' = todo
      /\ added' = added /\ current' = current /\ eligible' = eligible /\ stack' = stack
      /\ failing' = failing /\ swallowed' = swallowed
  BY DEF resolveVars, loops, history
<1>2. TargetsInv /\ FramesInv /\ ItemInv /\ (phase # "raised" /\ ~swallowed => GivenUpInv /\ RoundInv)
  BY DEF ResolveInv
<1>3. IsTaskData(td) /\ td.failed_fns \subseteq td.seenfns
  BY <1>2 DEF TargetsInv
<1>4. TargetsInv'
  BY <1>1, <1>2, <1>3, SameListsTargets
<1>5. FramesInv'
  BY <1>1, <1>2, FramesNext
<1>6. ItemInv'
  <2>1. kind' = kind /\ \A k, i : Eligible(ProvidersOf(k, i))' = Eligible(ProvidersOf(k, i))
    BY <1>1, KindSame, CacheSame
  <2>2. Eligible(ProvidersOf(kind, current))' = Eligible(ProvidersOf(kind, current))
    BY <1>1, <2>1
  <2>3. QED
    BY <1>1, <1>2, <2>2 DEF ItemInv
<1>7. GivenUpInv => GivenUpInv'
  BY <1>1 DEF GivenUpInv, Calls, HoldersOf, Dependees
<1>8. ASSUME RoundInv PROVE RoundInv'
  <2>1. \A k \in Kinds : Unresolved(k)' = Unresolved(k)
    BY <1>1 DEF Unresolved
  <2>2. QED
    BY <1>1, <1>8, <2>1, RoundSame
<1>9. QED
  BY <1>1, <1>2, <1>4, <1>5, <1>6, <1>7, <1>8 DEF ResolveInv

LEMMA ResolveStarts ==
  ASSUME NEW c, c.goals \in Seq(ToSet(c.goals)), ResolveInit(c)
  PROVE  ResolveInv
<1>1. /\ cache = c /\ phase = "targets" /\ td = NewTaskData /\ goals = c.goals /\ todo = {}
      /\ current = "" /\ eligible = <<>> /\ stack = <<>> /\ ~failing
  BY DEF ResolveInit
<1>2. /\ IsTaskData(td) /\ td.failed_fns = {} /\ td.seenfns = {}
      /\ \A k \in Kinds : DOMAIN td.targets[k] = {} /\ td.failed[k] = {}
  <2>1. /\ td = [targets |-> [build |-> [i \in {} |-> <<>>], run |-> [i \in {} |-> <<>>]],
                 failed |-> [build |-> {}, run |-> {}],
                 failed_fns |-> {}, seenfns |-> {}, external |-> {}]
    BY <1>1 DEF NewTaskData
  <2>2. IsTaskData(td) /\ td.failed_fns = {} /\ td.seenfns = {}
    BY <2>1 DEF IsTaskData, Kinds
  <2>3. ASSUME NEW k \in Kinds PROVE td.targets[k] = [i \in {} |-> <<>>] /\ td.failed[k] = {}
    BY <2>1 DEF Kinds
  <2>4. QED
    BY <2>2, <2>3
<1>3. TargetsInv
  BY <1>2 DEF TargetsInv
<1>4. FramesInv
  <2>1. <<>> \in Seq(GivenUp)
    OBVIOUS
  <2>2. QED
    BY <1>1, <2>1 DEF FramesInv
<1>5. ItemInv
  <2>1. <<>> \in Seq(Eligible(ProvidersOf(kind, current)))
    OBVIOUS
  <2>2. QED
    BY <1>1, <2>1 DEF ItemInv
<1>6. GivenUpInv
  BY <1>2 DEF GivenUpInv
<1>7. RoundInv
  BY <1>1 DEF RoundInv
<1>8. QED
  BY <1>3, <1>4, <1>5, <1>6, <1>7 DEF ResolveInv

-----------------------------------------------------------------------------
(* Nothing is dropped *)

\* Nothing on a list is given up when the task data is handed over.
LEMMA NothingHeld ==
  ASSUME ResolveInv, phase = "done", ~swallowed
  PROVE  /\ GivenUpInv /\ RoundInv /\ TargetsInv /\ Calls = {}
         /\ \A f \in td.failed_fns : \A k \in Kinds : HoldersOf(f, k) = {}
         /\ \A k \in Kinds : \A i \in td.failed[k] : Dependees(k, i) \subseteq td.failed_fns
<1>1. GivenUpInv /\ RoundInv /\ TargetsInv /\ ItemInv
  BY DEF ResolveInv
<1>2. stack = <<>>
  BY <1>1 DEF ItemInv
<1>3. QED
  BY <1>1, <1>2, NoCalls DEF GivenUpInv

LEMMA FirstIsGood ==
  ASSUME ResolveInv, phase = "done", ~swallowed, NEW k \in Kinds, NEW i, have(k, i)
  PROVE  First(k, i) \notin td.failed_fns
<1>1. /\ TargetsInv /\ \A f \in td.failed_fns : HoldersOf(f, k) = {}
  BY NothingHeld
<1>2. /\ i \in DOMAIN td.targets[k] /\ td.targets[k][i] # <<>>
      /\ td.targets[k][i] \in Seq(Eligible(ProvidersOf(k, i)) \intersect td.seenfns)
  BY <1>1 DEF TargetsInv, have
<1>3. 1 \in DOMAIN td.targets[k][i]
  BY <1>2
<1>4. First(k, i) \in ToSet(td.targets[k][i])
  BY <1>3 DEF First, ToSet
<1>5. QED
  BY <1>1, <1>2, <1>4 DEF HoldersOf

\* The tasks of the recipes that were not given up.
GoodTasks == {t \in Tid : t[1] \notin td.failed_fns}

LEMMA DependsOnGood ==
  ASSUME ResolveInv, phase = "done", ~swallowed, data = Resolved, NEW t \in Tid
  PROVE  dependsOf(t) \intersect Tid \subseteq GoodTasks
<1>1. SUFFICES ASSUME NEW d \in dependsOf(t), d \in Tid, d[1] \in td.failed_fns PROVE FALSE
  BY DEF GoodTasks
<1>2. "build" \in Kinds /\ "run" \in Kinds
  BY DEF Kinds
<1>3. ASSUME NEW k \in Kinds, NEW items, d[1] \in Provided(k, items) PROVE FALSE
  <2>1. PICK i \in {j \in items : have(k, j)} : d[1] = First(k, i)
    BY <1>3 DEF Provided
  <2>2. QED
    BY <1>1, <2>1, FirstIsGood
<1>4. ASSUME NEW k \in Kinds, d \in FlagTasks(k, t) PROVE FALSE
  <2>1. PICK g \in cache.flags[k][t[1]] : have(k, g[2]) /\ d = <<First(k, g[2]), g[3]>>
    BY <1>4 DEF FlagTasks
  <2>2. d[1] = First(k, g[2])
    BY <2>1
  <2>3. QED
    BY <1>1, <2>1, <2>2, FirstIsGood
<1>5. /\ data.failed_fns = td.failed_fns
      /\ data.tdepends[t] = IF t \notin taskentries THEN {}
                            ELSE {t[1]} \X (cache.parents[t[2]] \intersect cache.tasks[t[1]])
      /\ data.idepends[t] = IF t \notin taskentries THEN {}
                            ELSE FlagTasks("build", t) \union FlagTasks("run", t)
  BY DEF Resolved
<1>6. t[1] \in FnName
  BY DEF Tid
<1>7. /\ data.depids[t[1]] = IF t[1] \in td.seenfns THEN Provided("build", cache.deps.build[t[1]]) ELSE {}
      /\ data.rdepids[t[1]] = IF t[1] \in td.seenfns THEN Provided("run", cache.deps.run[t[1]]) ELSE {}
  BY <1>6 DEF Resolved
<1>8. t[1] \notin td.failed_fns
  BY <1>1, <1>5 DEF dependsOf
<1>9. CASE d \in data.tdepends[t]
  BY <1>1, <1>5, <1>8, <1>9
<1>10. CASE d \in TasksOf(data.depids[t[1]], data.deptask[t[2]] \union data.recrdeptask[t[2]])
  <2>1. d[1] \in data.depids[t[1]]
    BY <1>10 DEF TasksOf
  <2>2. QED
    BY <1>2, <1>3, <1>7, <2>1
<1>11. CASE d \in TasksOf(data.rdepids[t[1]], data.rdeptask[t[2]] \union data.recrdeptask[t[2]])
  <2>1. d[1] \in data.rdepids[t[1]]
    BY <1>11 DEF TasksOf
  <2>2. QED
    BY <1>2, <1>3, <1>7, <2>1
<1>12. CASE d \in data.idepends[t]
  BY <1>2, <1>4, <1>5, <1>12
<1>13. QED
  BY <1>1, <1>5, <1>8, <1>9, <1>10, <1>11, <1>12 DEF dependsOf

LEMMA RecursesOverGood ==
  ASSUME ResolveInv, phase = "done", ~swallowed, data = Resolved, NEW t \in GoodTasks
  PROVE  Recursed(t) \intersect Tid \subseteq GoodTasks
<1> DEFINE names == data.recrdeptask[t[2]]
           roots == {t} \union ({t[1]} \X data.recideptask[t[2]])
           edges == [u \in Tid |->
             UNION {dependsOf(i) : i \in ({u} \union TasksOf({u[1]}, names)) \intersect data.taskentries}]
<1>1. t \in Tid /\ t[1] \notin td.failed_fns /\ data.taskentries \subseteq Tid
  BY DEF GoodTasks, Resolved, taskentries
<1>2. roots \intersect Tid \subseteq GoodTasks
  BY <1>1 DEF GoodTasks
<1>3. WalkClosed(Tid, edges, GoodTasks)
  <2>1. SUFFICES ASSUME NEW u \in GoodTasks, NEW x \in edges[u] \intersect Tid PROVE x \in GoodTasks
    BY DEF WalkClosed
  <2>2. PICK i \in data.taskentries : x \in dependsOf(i)
    BY <2>1 DEF GoodTasks
  <2>3. QED
    BY <1>1, <2>1, <2>2, DependsOnGood
<1>4. GoodTasks \in SUBSET Tid
  BY DEF GoodTasks
<1>5. RecTreeOf(t) \subseteq GoodTasks
  <2>1. RecTreeOf(t) = Reachable(Tid, roots, edges)
    BY DEF RecTreeOf
  <2> HIDE DEF roots, edges
  <2>2. QED
    BY <1>2, <1>3, <1>4, <2>1, WalkIsLeast
<1>6. ASSUME NEW d \in TasksOf({u[1] : u \in RecTreeOf(t)}, names), d \in Tid PROVE d \in GoodTasks
  <2>1. d[1] \in {u[1] : u \in RecTreeOf(t)}
    BY <1>6 DEF TasksOf
  <2>2. PICK u \in RecTreeOf(t) : d[1] = u[1]
    BY <2>1
  <2>3. QED
    BY <1>5, <1>6, <2>2 DEF GoodTasks
<1>7. dependsOf(t) \intersect Tid \subseteq GoodTasks
  BY <1>1, DependsOnGood
<1>8. QED
  BY <1>6, <1>7 DEF Recursed

\* What MarkAndPrune keeps.
LEMMA ActiveIsGood ==
  ASSUME PrepareInv, ResolveInv, phase = "done", ~swallowed, data = Resolved, step = "mark",
         target_tids \subseteq data.taskentries
  PROVE  active \subseteq GoodTasks
<1> DEFINE S == UNION {IF g[2] THEN depends[g[1]] ELSE {g[1]} : g \in targets}
           W == GoodTasks \intersect Tids
<1>1. /\ data.taskentries \subseteq Tid /\ Tids = data.taskentries
      /\ depends \in [Tids -> SUBSET Tids] /\ \A t \in Tids : depends[t] = Recursed(t)
  BY DEF PrepareInv, TreeInv
<1>2. ASSUME NEW t \in W PROVE depends[t] \subseteq W
  <2>1. depends[t] \subseteq Tids /\ depends[t] = Recursed(t)
    BY <1>1
  <2>2. Recursed(t) \intersect Tid \subseteq GoodTasks
    BY RecursesOverGood
  <2>3. QED
    BY <1>1, <2>1, <2>2
<1>3. ASSUME NEW g \in targets PROVE g[1] \in W
  <2>1. g[1] \in data.taskentries
    BY <1>3 DEF target_tids
  <2>2. g[1][1] \notin data.failed_fns
    BY <1>3 DEF targets
  <2>3. data.failed_fns = td.failed_fns
    BY DEF Resolved
  <2>4. QED
    BY <1>1, <2>1, <2>2, <2>3 DEF GoodTasks
<1>4. S \subseteq W
  <2>1. SUFFICES ASSUME NEW g \in targets, NEW x \in IF g[2] THEN depends[g[1]] ELSE {g[1]}
                 PROVE  x \in W
    OBVIOUS
  <2>2. g[1] \in W
    BY <1>3
  <2>3. depends[g[1]] \subseteq W
    BY <1>2, <2>2
  <2>4. QED
    BY <2>1, <2>2, <2>3
<1>5. active = Reachable(Tids, S, depends)
  BY DEF active, runtaskentries, Tids
<1>6. W \in SUBSET Tids
  OBVIOUS
<1> HIDE DEF S, W
<1>7. S \intersect Tids \subseteq W /\ WalkClosed(Tids, depends, W)
  BY <1>2, <1>4 DEF WalkClosed
<1>8. active \subseteq W
  BY <1>5, <1>6, <1>7, WalkIsLeast
<1>9. QED
  BY <1>8 DEF W

\* The planning step by step: nothing about the resolved items changes after.
LEMMA ResolvedSame ==
  ASSUME UNCHANGED resolveVars
  PROVE  /\ Resolved' = Resolved /\ td' = td /\ phase' = phase /\ swallowed' = swallowed
         /\ cache' = cache /\ current' = current /\ premature' = premature
<1>1. /\ td' = td /\ cache' = cache /\ runlist' = runlist /\ phase' = phase
      /\ swallowed' = swallowed /\ current' = current /\ premature' = premature
  BY DEF resolveVars, loops, history
<1>2. /\ taskentries' = taskentries
      /\ \A k, i : have(k, i)' = have(k, i) /\ First(k, i)' = First(k, i)
  BY <1>1 DEF taskentries, have, First
<1>3. /\ \A k, items : Provided(k, items)' = Provided(k, items)
      /\ \A k, t : FlagTasks(k, t)' = FlagTasks(k, t)
  BY <1>1, <1>2 DEF Provided, FlagTasks
<1>4. Resolved' = Resolved
  BY <1>1, <1>2, <1>3 DEF Resolved
<1>5. QED
  BY <1>1, <1>4

SoundPlanInv == CacheInv /\ ResolveInv /\ SoundRunInv

LEMMA SoundPlanStarts ==
  ASSUME Init
  PROVE  SoundPlanInv
<1>1. CASE \E family \in Caches : \E c \in family :
             ResolveInit(c) /\ PrepareStart(EmptyTaskData, "resolve")
  <2>1. PICK family \in Caches : \E c \in family :
          ResolveInit(c) /\ PrepareStart(EmptyTaskData, "resolve")
    BY <1>1
  <2>2. PICK c \in family : ResolveInit(c) /\ PrepareStart(EmptyTaskData, "resolve")
    BY <2>1
  <2>3. CacheOK(c)
    BY CacheAssumption
  <2>4. ResolveInv
    BY <2>2, <2>3, ResolveStarts DEF CacheOK
  <2>5. cache = c /\ step = "resolve" /\ phase = "targets"
    BY <2>2 DEF ResolveInit, PrepareStart
  <2>6. QED
    BY <2>3, <2>4, <2>5 DEF SoundPlanInv, CacheInv, SoundRunInv
<1>2. CASE \E d \in TaskData : ResolveInit(NoCache) /\ PrepareStart(d, "expand")
  <2>1. ResolveInit(NoCache) /\ step = "expand"
    BY <1>2 DEF PrepareStart
  <2>2. NoCache.goals \in Seq(ToSet(NoCache.goals))
    <3>1. \A S : <<>> \in Seq(S)
      OBVIOUS
    <3>2. NoCache.goals = <<>>
      BY DEF NoCache
    <3>3. QED
      BY <3>1, <3>2
  <2>3. ResolveInv
    BY <2>1, <2>2, ResolveStarts
  <2>4. phase = "targets"
    BY <2>1 DEF ResolveInit
  <2>5. QED
    BY <2>1, <2>3, <2>4 DEF SoundPlanInv, CacheInv, SoundRunInv
<1>3. QED
  BY <1>1, <1>2 DEF Init

LEMMA SoundPlanSame ==
  ASSUME SoundPlanInv, UNCHANGED <<resolveVars, data, step, depends>>
  PROVE  SoundPlanInv'
<1>1. ResolveInv'
  BY ResolveSame DEF SoundPlanInv
<1>2. Tids' = Tids
  BY DEF Tids
<1>3. CacheInv' /\ SoundRunInv'
  BY <1>2, ResolvedSame DEF SoundPlanInv, CacheInv, SoundRunInv
<1>4. QED
  BY <1>1, <1>3 DEF SoundPlanInv

LEMMA SoundPlanResolve ==
  ASSUME SoundPlanInv, ResolveStep
  PROVE  SoundPlanInv'
<1>1. /\ step = "resolve" /\ step' = "resolve" /\ ResolveNext
  BY DEF ResolveStep, prepareVars
<1>2. cache' = cache
  BY <1>1 DEF ResolveNext, FailLoop, RemoveLoop, Return, Raise, Already, Try, NoProvider,
              AddTasks, ItemDone, LoopDone
<1>3. ResolveInv'
  BY <1>1, ResolveKeeps DEF SoundPlanInv, CacheInv
<1>4. CacheInv'
  BY <1>1, <1>2 DEF SoundPlanInv, CacheInv
<1>5. SoundRunInv'
  BY <1>1 DEF SoundRunInv
<1>6. QED
  BY <1>3, <1>4, <1>5 DEF SoundPlanInv

LEMMA SoundPlanHandOver ==
  ASSUME SoundPlanInv, HandOver
  PROVE  SoundPlanInv'
<1>1. /\ step = "resolve" /\ data' = Resolved /\ step' \in {"raised", "expand"}
      /\ UNCHANGED resolveVars
  BY DEF HandOver
<1>2. QED
  BY <1>1, ResolveSame, ResolvedSame DEF SoundPlanInv, CacheInv, SoundRunInv

LEMMA SoundPlanPrepare ==
  ASSUME PrepareInv, SoundPlanInv, PrepareStep
  PROVE  SoundPlanInv'
<1>1. /\ step # "resolve" /\ step' # "resolve" /\ data' = data /\ UNCHANGED resolveVars
      /\ step' \in {"check", "weigh", "prepared"} =>
           \/ step \in {"check", "weigh", "prepared"} /\ depends' = depends
           \/ MarkAndPrune
  <2>1. UNCHANGED resolveVars /\ PrepareNext
    BY DEF PrepareStep
  <2>2. /\ step # "resolve" /\ step' # "resolve" /\ data' = data
        /\ step' \in {"check", "weigh", "prepared"} =>
             \/ step \in {"check", "weigh", "prepared"} /\ depends' = depends
             \/ MarkAndPrune
    BY <2>1 DEF PrepareNext, Expand, Recurse, RecurseRaises, TargetMissing, MarkAndPrune, CheckLengthTwo,
                WeighEndpoints, WeighEnd
  <2>3. QED
    BY <2>1, <2>2
<1>2. CacheInv' /\ ResolveInv'
  BY <1>1, ResolveSame, ResolvedSame DEF SoundPlanInv, CacheInv
<1>3. phase = "done" => data = Resolved
  BY <1>1 DEF SoundPlanInv, SoundRunInv
<1>4. ASSUME phase = "done", ~swallowed, step' \in {"check", "weigh", "prepared"}, NEW t \in Tids'
      PROVE  t[1] \notin td.failed_fns
  <2>1. CASE step \in {"check", "weigh", "prepared"} /\ depends' = depends
    BY <1>4, <2>1 DEF SoundPlanInv, SoundRunInv, Tids
  <2>2. CASE MarkAndPrune
    <3>1. t \in active
      BY <1>4, <2>2 DEF MarkAndPrune, Tids
    <3>2. step = "mark" /\ target_tids \subseteq data.taskentries
      BY <2>2 DEF MarkAndPrune
    <3>3. active \subseteq GoodTasks
      BY <1>3, <1>4, <3>2, ActiveIsGood DEF SoundPlanInv
    <3>4. QED
      BY <3>1, <3>3 DEF GoodTasks
  <2>3. QED
    BY <1>1, <1>4, <2>1, <2>2
<1>5. SoundRunInv'
  BY <1>1, <1>3, <1>4, ResolvedSame DEF SoundRunInv
<1>6. QED
  BY <1>2, <1>5 DEF SoundPlanInv

LEMMA SoundPlanKept ==
  ASSUME PrepareInv, SoundPlanInv, [Next]_vars
  PROVE  SoundPlanInv'
<1>1. CASE ResolveStep
  BY <1>1, SoundPlanResolve
<1>2. CASE HandOver
  BY <1>2, SoundPlanHandOver
<1>3. CASE PrepareStep
  BY <1>3, SoundPlanPrepare
<1>4. CASE SceneStart \/ SceneStep
  <2>1. UNCHANGED prepareVars /\ UNCHANGED resolveVars
    BY <1>4, SceneLeavesTasks DEF SceneStart, SceneStep
  <2>2. QED
    BY <2>1, SoundPlanSame DEF prepareVars
<1>5. CASE UNCHANGED vars
  BY <1>5, SoundPlanSame DEF vars, prepareVars
<1>6. QED
  BY <1>1, <1>2, <1>3, <1>4, <1>5 DEF Next

\* What a recipe to be built needs has a provider that was not given up.
LEMMA NeedsAreHeld ==
  ASSUME SoundPlanInv, HandedOver, ~swallowed, NEW k \in Kinds,
         ~(k = "build" /\ cache.allowincomplete),
         NEW f \in td.seenfns \ td.failed_fns, NEW i \in cache.deps[k][f] \ cache.ignored
  PROVE  have(k, i) /\ ToSet(td.targets[k][i]) \intersect td.failed_fns = {}
<1>1. /\ RoundInv /\ TargetsInv
      /\ \A g \in td.failed_fns : HoldersOf(g, k) = {}
      /\ \A j \in td.failed[k] : Dependees(k, j) \subseteq td.failed_fns
  BY NothingHeld DEF SoundPlanInv, HandedOver
<1>2. i \in DOMAIN td.targets[k]
  BY <1>1 DEF TargetsInv
<1>3. i \notin td.failed[k]
  BY <1>1 DEF Dependees
<1>4. Unresolved(k) = {}
  BY <1>1 DEF RoundInv, HandedOver, Open, Kinds
<1>5. have(k, i)
  BY <1>2, <1>3, <1>4 DEF Unresolved, have
<1>6. ToSet(td.targets[k][i]) \intersect td.failed_fns = {}
  BY <1>1, <1>2 DEF HoldersOf
<1>7. QED
  BY <1>5, <1>6

\* When the items are resolved (TaskData.add_unresolved), nothing that a recipe
\* to be built needs is left without a provider, no recipe that was given up is on
\* a list, and none of its tasks is in the run queue.
THEOREM NothingDroppedHolds == Spec => []NothingDropped
<1>1. SoundPlanInv => NothingDropped
  <2> SUFFICES ASSUME SoundPlanInv PROVE NothingDropped
    OBVIOUS
  <2>1. ASSUME HandedOver, ~swallowed, NEW k \in Kinds, ~(k = "build" /\ cache.allowincomplete),
               NEW f \in td.seenfns \ td.failed_fns, NEW i \in cache.deps[k][f] \ cache.ignored
        PROVE  have(k, i) /\ ToSet(td.targets[k][i]) \intersect td.failed_fns = {}
    BY <2>1, NeedsAreHeld
  <2>2. ASSUME HandedOver, ~swallowed, step = "prepared", NEW t \in runtaskentries
        PROVE  t[1] \notin td.failed_fns
    BY <2>2 DEF SoundPlanInv, SoundRunInv, HandedOver, runtaskentries, Tids
  <2>3. QED
    BY <2>1, <2>2 DEF NothingDropped, Kinds
<1>2. Init => SoundPlanInv
  BY SoundPlanStarts
<1>3. PrepareInv /\ SoundPlanInv /\ [Next]_vars => SoundPlanInv'
  BY SoundPlanKept
<1>4. QED
  BY <1>1, <1>2, <1>3, PrepareInvariance, PTL DEF Spec

-----------------------------------------------------------------------------
(* What is given up cannot be built *)

\* All of this is a matter of the recipes and the configuration.
LEMMA ConflictSame ==
  ASSUME cache' = cache, NEW i
  PROVE  MayConflict(i)' = MayConflict(i)
<1>1. /\ \A s : InferPreferred(cache, s)' = InferPreferred(cache, s)
      /\ \A s : InferredOrder(cache, s)' = InferredOrder(cache, s)
      /\ \A s, pn : Chosen(cache, s, pn)' = Chosen(cache, s, pn)
  OBVIOUS
<1>2. Eligible(ProvidersOf("run", i))' = Eligible(ProvidersOf("run", i)) /\ recipes' = recipes
  BY CacheSame
<1>3. [f \in recipes |-> RankOf(i, f)]' = [f \in recipes |-> RankOf(i, f)]
  BY <1>2 DEF RankOf
<1>4. filterProvidersRunTime(i)' = filterProvidersRunTime(i)
  BY <1>1, <1>2, <1>3 DEF filterProvidersRunTime
<1>5. QED
  BY <1>4 DEF MayConflict

LEMMA UnbuildableSame ==
  ASSUME cache' = cache
  PROVE  /\ Unbuildable(TRUE)' = Unbuildable(TRUE)
         /\ \A k, i : Hopeless(k, i, Unbuildable(TRUE), TRUE)' <=> Hopeless(k, i, Unbuildable(TRUE), TRUE)
<1>1. /\ recipes' = recipes
      /\ \A k, i : Eligible(ProvidersOf(k, i))' = Eligible(ProvidersOf(k, i))
  BY CacheSame
<1>2. \A i : MayConflict(i)' = MayConflict(i)
  BY ConflictSame
<1>3. \A k, f : NeedsOf(k, f, TRUE)' = NeedsOf(k, f, TRUE)
  BY DEF NeedsOf
<1>4. \A k, i, bad : Hopeless(k, i, bad, TRUE)' <=> Hopeless(k, i, bad, TRUE)
  BY <1>1, <1>2 DEF Hopeless
<1>5. \A bad : BadClosed(bad, TRUE)' <=> BadClosed(bad, TRUE)
  BY <1>1, <1>3, <1>4 DEF BadClosed
<1>6. Unbuildable(TRUE)' = Unbuildable(TRUE)
  BY <1>1, <1>5 DEF Unbuildable
<1>7. QED
  BY <1>4, <1>6

\* The less can be built, the less hope there is.
LEMMA HopelessMore ==
  ASSUME NEW bad, NEW worse, bad \subseteq worse, NEW k, NEW i, Hopeless(k, i, bad, TRUE)
  PROVE  Hopeless(k, i, worse, TRUE)
BY DEF Hopeless

LEMMA FailsRightly ==
  ASSUME NEW k \in Kinds, NEW f \in recipes, NEW i \in NeedsOf(k, f, TRUE),
         Hopeless(k, i, Unbuildable(TRUE), TRUE)
  PROVE  f \in Unbuildable(TRUE)
<1>1. SUFFICES ASSUME NEW bad \in SUBSET recipes, BadClosed(bad, TRUE), f \notin bad PROVE FALSE
  BY DEF Unbuildable
<1>2. Unbuildable(TRUE) \subseteq bad
  BY <1>1 DEF Unbuildable
<1>3. Hopeless(k, i, bad, TRUE)
  BY <1>2, HopelessMore
<1>4. ~Hopeless(k, i, bad, TRUE)
  BY <1>1 DEF BadClosed, Kinds
<1>5. QED
  BY <1>3, <1>4

\* A recipe that depends on an item that was given up, or names it in a flag.
LEMMA DependeeFails ==
  ASSUME JustlyInv, NEW k \in Kinds, NEW i \in td.failed[k], NEW f \in recipes,
         i \in cache.deps[k][f] \/ \E g \in cache.flags[k][f] : g[2] = i
  PROVE  f \in Unbuildable(TRUE)
<1>1. i \notin cache.ignored /\ Hopeless(k, i, Unbuildable(TRUE), TRUE)
  BY DEF JustlyInv
<1>2. i \in NeedsOf(k, f, TRUE)
  BY <1>1 DEF NeedsOf, Items
<1>3. QED
  BY <1>1, <1>2, FailsRightly

LEMMA JustlyNext ==
  ASSUME JustlyInv, cache' = cache, td'.failed_fns \subseteq Unbuildable(TRUE),
         \A k \in Kinds : \A i \in td'.failed[k] \ td.failed[k] :
           i \notin cache.ignored /\ Hopeless(k, i, Unbuildable(TRUE), TRUE)
  PROVE  JustlyInv'
<1>1. td'.failed_fns \subseteq Unbuildable(TRUE)'
  BY UnbuildableSame
<1>2. ASSUME NEW k \in Kinds, NEW i \in td'.failed[k]
      PROVE  i \notin cache.ignored /\ Hopeless(k, i, Unbuildable(TRUE), TRUE)
  BY <1>2 DEF JustlyInv
<1>3. \A k \in Kinds : \A i \in td'.failed[k] :
        i \notin cache'.ignored /\ Hopeless(k, i, Unbuildable(TRUE), TRUE)'
  BY <1>2, UnbuildableSame
<1>4. QED
  BY <1>1, <1>3 DEF JustlyInv

LEMMA TriedByLists ==
  ASSUME TriedInv, IsTaskData(td), NEW k \in Kinds, NEW i, ListOf(td, k, i) # <<>>
  PROVE  /\ i \notin cache.ignored
         /\ Eligible(ProvidersOf(k, i))
              \subseteq ToSet(ListOf(td, k, i)) \union td.failed_fns \union Untried(k, i)
<1>1. i \in DOMAIN td.targets[k] /\ ListOf(td, k, i) = td.targets[k][i]
  BY DEF ListOf
<1>2. QED
  BY <1>1 DEF TriedInv

LEMMA TriedNext ==
  ASSUME cache' = cache, IsTaskData(td'), NEW c, c = current', kind' = kind,
         \A k \in Kinds : \A i : ListOf(td', k, i) # <<>> =>
           /\ i \notin cache.ignored
           /\ Eligible(ProvidersOf(k, i))
                \subseteq ToSet(ListOf(td', k, i)) \union td'.failed_fns \union Untried(k, i)',
         eligible' # <<>> /\ ListOf(td', kind, c) = <<>> =>
           Eligible(ProvidersOf(kind, c)) \subseteq ToSet(eligible') \union td'.failed_fns
  PROVE  TriedInv'
<1>1. \A k, i : Eligible(ProvidersOf(k, i))' = Eligible(ProvidersOf(k, i))
  BY CacheSame
<1>2. ASSUME NEW k \in Kinds, NEW i \in DOMAIN td'.targets[k], td'.targets[k][i] # <<>>
      PROVE  /\ i \notin cache'.ignored
             /\ Eligible(ProvidersOf(k, i))'
                  \subseteq ToSet(td'.targets[k][i]) \union td'.failed_fns \union Untried(k, i)'
  <2>1. ListOf(td', k, i) = td'.targets[k][i]
    BY DEF ListOf
  <2>2. QED
    BY <1>1, <1>2, <2>1
<1>3. ASSUME eligible' # <<>>, ~have(kind, current)'
      PROVE  Eligible(ProvidersOf(kind, current))' \subseteq ToSet(eligible') \union td'.failed_fns
  <2>1. have(kind, current)' <=> c \in DOMAIN td'.targets[kind] /\ td'.targets[kind][c] # <<>>
    BY DEF have
  <2>2. ListOf(td', kind, c) = <<>>
    BY <1>3, <2>1 DEF ListOf
  <2>3. Eligible(ProvidersOf(kind, current))' = Eligible(ProvidersOf(kind, c))
    BY <1>1
  <2>4. QED
    BY <1>3, <2>2, <2>3
<1>4. QED
  BY <1>2, <1>3 DEF TriedInv

\* Nothing new is tried.
LEMMA TriedSame ==
  ASSUME TriedInv, IsTaskData(td), cache' = cache, IsTaskData(td'), kind' = kind,
         td'.targets = td.targets, td.failed_fns \subseteq td'.failed_fns,
         \/ eligible = <<>> /\ eligible' = <<>>
         \/ current' = current /\ eligible' = eligible
  PROVE  TriedInv'
<1>1. /\ \A k, i : ListOf(td', k, i) = ListOf(td, k, i)
      /\ \A k, i : Untried(k, i)' = Untried(k, i)
  <2>1. \A s : s = <<>> => ToSet(s) = {}
    <3>1. \A s : s = <<>> => DOMAIN s = {}
      OBVIOUS
    <3>2. QED
      BY <3>1 DEF ToSet
  <2>2. \A k, i : Untried(k, i)' = Untried(k, i)
    BY <2>1 DEF Untried
  <2>3. QED
    BY <2>2, SameLists
<1>2. \A k \in Kinds : \A i : ListOf(td', k, i) # <<>> =>
        /\ i \notin cache.ignored
        /\ Eligible(ProvidersOf(k, i))
             \subseteq ToSet(ListOf(td', k, i)) \union td'.failed_fns \union Untried(k, i)'
  <2>1. TAKE k \in Kinds
  <2>2. TAKE i
  <2>3. HAVE ListOf(td', k, i) # <<>>
  <2>4. QED
    BY <1>1, <2>3, TriedByLists
<1>3. ASSUME eligible' # <<>>, ListOf(td', kind, current') = <<>>
      PROVE  Eligible(ProvidersOf(kind, current')) \subseteq ToSet(eligible') \union td'.failed_fns
  <2>1. current' = current /\ eligible' = eligible
    BY <1>3
  <2>2. ~have(kind, current)
    BY <1>1, <1>3, <2>1 DEF ListOf, have
  <2>3. Eligible(ProvidersOf(kind, current)) \subseteq ToSet(eligible) \union td.failed_fns
    BY <1>3, <2>1, <2>2 DEF TriedInv
  <2>4. QED
    BY <2>1, <2>3
<1>4. QED
  BY <1>2, <1>3, TriedNext

LEMMA FailLoopJust ==
  ASSUME ResolveInv, JustifiedInv, FailLoop, ~premature'
  PROVE  JustifiedInv'
<1>1. TargetsInv /\ FramesInv /\ JustlyInv /\ TriedInv /\ CurrentInv /\ IsTaskData(td)
  BY DEF ResolveInv, JustifiedInv, TargetsInv
<1>2. /\ stack # <<>> /\ top.call = "fail"
      /\ cache' = cache /\ phase' = phase /\ current' = current /\ eligible' = eligible
      /\ failing' = failing
  BY DEF FailLoop, loops
<1>3. PICK k, item, list :
         /\ k \in Kinds
         /\ item \in DOMAIN td.targets[k]
         /\ top.name \in ToSet(ListOf(td, k, item))
         /\ list = RemoveFirst(ListOf(td, k, item), top.name)
         /\ IsTaskData(td') /\ td'.failed_fns = td.failed_fns
         /\ \A j \in Kinds : DOMAIN td'.targets[j] = DOMAIN td.targets[j]
         /\ \A j \in Kinds : \A i :
              ListOf(td', j, i) = IF j = k /\ i = item THEN list ELSE ListOf(td, j, i)
         /\ \/ /\ list = <<>> /\ stack' = <<Frame("remove", k, item)>> \o stack
               /\ \A j \in Kinds : td'.failed[j] = td.failed[j] \union (IF j = k THEN {item} ELSE {})
               /\ premature' = (premature \/ (k = kind /\ item = current /\ StillEligible # {}))
            \/ /\ list # <<>> /\ stack' = stack /\ td'.failed = td.failed
  BY <1>1, FailLoopDoes
<1>4. top.name \in td.failed_fns
  BY <1>1, <1>2, FrameIs
<1>5. /\ ListOf(td, k, item) # <<>>
      /\ ToSet(ListOf(td, k, item)) \subseteq ToSet(list) \union {top.name}
      /\ ToSet(list) \subseteq ToSet(ListOf(td, k, item))
  <2>1. ListOf(td, k, item) \in Seq(Eligible(ProvidersOf(k, item)) \intersect td.seenfns)
    BY <1>1, <1>3, ListsTyped
  <2>2. \A s : s = <<>> => DOMAIN s = {}
    OBVIOUS
  <2>3. ListOf(td, k, item) # <<>>
    BY <1>3, <2>2 DEF ToSet
  <2>4. QED
    BY <1>3, <2>1, <2>3, RemoveFirstKeeps
<1>6. /\ item \notin cache.ignored
      /\ Eligible(ProvidersOf(k, item)) \subseteq ToSet(list) \union td.failed_fns \union Untried(k, item)
  <2>1. /\ item \notin cache.ignored
        /\ Eligible(ProvidersOf(k, item))
             \subseteq ToSet(ListOf(td, k, item)) \union td.failed_fns \union Untried(k, item)
    BY <1>1, <1>3, <1>5, TriedByLists
  <2>2. QED
    BY <1>4, <1>5, <2>1
<1>7. ASSUME list = <<>> PROVE Eligible(ProvidersOf(k, item)) \subseteq td.failed_fns
  <2>1. ToSet(list) = {}
    <3>1. DOMAIN list = {}
      BY <1>7
    <3>2. QED
      BY <3>1 DEF ToSet
  <2>2. Untried(k, item) \subseteq td.failed_fns
    BY <1>3, <1>7 DEF Untried, StillEligible
  <2>3. QED
    BY <1>6, <2>1, <2>2
<1>8. kind' = kind /\ kind \in Kinds /\ \A j, i : Untried(j, i)' = Untried(j, i)
  <2>1. kind' = kind /\ kind \in Kinds
    BY <1>2, KindSame, KindIs
  <2>2. QED
    BY <1>2, <2>1 DEF Untried
<1>9. JustlyInv'
  <2>1. td'.failed_fns \subseteq Unbuildable(TRUE)
    BY <1>1, <1>3 DEF JustlyInv
  <2>2. ASSUME NEW j \in Kinds, NEW i \in td'.failed[j] \ td.failed[j]
        PROVE  i \notin cache.ignored /\ Hopeless(j, i, Unbuildable(TRUE), TRUE)
    <3>1. j = k /\ i = item /\ list = <<>>
      BY <1>3, <2>2
    <3>2. Eligible(ProvidersOf(k, item)) \subseteq Unbuildable(TRUE)
      BY <1>1, <1>7, <3>1 DEF JustlyInv
    <3>3. QED
      BY <1>6, <3>1, <3>2 DEF Hopeless
  <2>3. QED
    BY <1>1, <1>2, <2>1, <2>2, JustlyNext
<1>10. TriedInv'
  <2>1. ASSUME NEW j \in Kinds, NEW i, ListOf(td', j, i) # <<>>
        PROVE  /\ i \notin cache.ignored
               /\ Eligible(ProvidersOf(j, i))
                    \subseteq ToSet(ListOf(td', j, i)) \union td'.failed_fns \union Untried(j, i)'
    <3>1. CASE j = k /\ i = item
      BY <1>3, <1>6, <1>8, <3>1
    <3>2. CASE ~(j = k /\ i = item)
      <4>1. ListOf(td', j, i) = ListOf(td, j, i)
        BY <1>3, <3>2
      <4>2. QED
        BY <1>1, <1>3, <1>8, <2>1, <4>1, TriedByLists
    <3>3. QED
      BY <3>1, <3>2
  <2>2. ASSUME eligible' # <<>>, ListOf(td', kind, current) = <<>>
        PROVE  Eligible(ProvidersOf(kind, current)) \subseteq ToSet(eligible') \union td'.failed_fns
    <3>1. CASE k = kind /\ item = current
      <4>1. list = <<>>
        BY <1>3, <2>2, <3>1
      <4>2. QED
        BY <1>3, <1>7, <3>1, <4>1
    <3>2. CASE ~(k = kind /\ item = current)
      <4>1. ListOf(td, kind, current) = <<>>
        BY <1>3, <1>8, <2>2, <3>2
      <4>2. ~have(kind, current)
        BY <1>1, <1>8, <4>1, ByLists
      <4>3. QED
        BY <1>1, <1>2, <1>3, <2>2, <4>2 DEF TriedInv
    <3>3. QED
      BY <3>1, <3>2
  <2>3. IsTaskData(td') /\ current = current'
    BY <1>2, <1>3
  <2>4. QED
    BY <1>2, <1>8, <2>1, <2>2, <2>3, TriedNext
<1>11. CurrentInv'
  <2>1. \A j \in Kinds : \A i : have(j, i)' => have(j, i)
    <3>1. TAKE j \in Kinds
    <3>2. TAKE i
    <3>3. HAVE have(j, i)'
    <3>4. i \in DOMAIN td'.targets[j] /\ ListOf(td', j, i) # <<>>
      BY <1>3, <3>3, ByListsNext
    <3>5. i \in DOMAIN td.targets[j] /\ ListOf(td, j, i) # <<>>
      BY <1>3, <1>5, <3>4
    <3>6. QED
      BY <1>1, <3>5, ByLists
  <2>2. SUFFICES ASSUME ~failing
                 PROVE  \/ /\ Len(stack') = 1 /\ top'.call = "fail"
                           /\ \A j \in Kinds : HoldersOf(top.name, j)'
                                                 \subseteq (IF j = kind THEN {current} ELSE {})
                        \/ current \in td'.failed[kind] /\ ~have(kind, current)'
    BY <1>2, <1>8 DEF CurrentInv
  <2>3. CASE current \in td.failed[kind] /\ ~have(kind, current)
    <3>1. current \in td'.failed[kind]
      BY <1>3, <1>8, <2>3
    <3>2. ~have(kind, current)'
      BY <1>2, <1>8, <2>1, <2>3
    <3>3. QED
      BY <3>1, <3>2
  <2>4. CASE /\ Len(stack) = 1 /\ top.call = "fail"
             /\ \A j \in Kinds : HoldersOf(top.name, j) \subseteq (IF j = kind THEN {current} ELSE {})
    <3>1. item \in HoldersOf(top.name, k)
      BY <1>1, <1>3, ByLists
    <3>2. k = kind /\ item = current
      BY <1>3, <2>4, <3>1
    <3>3. CASE list = <<>>
      <4>1. current \in td'.failed[kind]
        BY <1>3, <3>2, <3>3
      <4>2. ListOf(td', kind, current) = <<>>
        BY <1>3, <3>2, <3>3
      <4>3. ~have(kind, current)'
        BY <1>2, <1>8, <4>2 DEF have, ListOf
      <4>4. QED
        BY <4>1, <4>3
    <3>4. CASE list # <<>>
      <4>1. stack' = stack
        BY <1>3, <3>4
      <4>2. top' = top
        BY <4>1 DEF top
      <4>3. ASSUME NEW j \in Kinds, NEW i \in HoldersOf(top.name, j)'
            PROVE  i \in HoldersOf(top.name, j)
        <5>1. i \in DOMAIN td'.targets[j] /\ top.name \in ToSet(ListOf(td', j, i))
          BY <4>2, <4>3 DEF HoldersOf, ListOf
        <5>2. i \in DOMAIN td.targets[j] /\ top.name \in ToSet(ListOf(td, j, i))
          BY <1>3, <1>5, <5>1
        <5>3. QED
          BY <1>1, <5>2, ByLists
      <4>4. \A j \in Kinds : HoldersOf(top.name, j)' \subseteq (IF j = kind THEN {current} ELSE {})
        BY <2>4, <4>3
      <4>5. QED
        BY <2>4, <4>1, <4>2, <4>4
    <3>5. QED
      BY <3>3, <3>4
  <2>5. QED
    BY <1>1, <1>2, <2>2, <2>3, <2>4 DEF CurrentInv
<1>12. QED
  BY <1>9, <1>10, <1>11 DEF JustifiedInv

LEMMA RemoveLoopJust ==
  ASSUME ResolveInv, JustifiedInv, RemoveLoop
  PROVE  JustifiedInv'
<1>1. TargetsInv /\ FramesInv /\ JustlyInv /\ TriedInv /\ CurrentInv /\ IsTaskData(td)
  BY DEF ResolveInv, JustifiedInv, TargetsInv
<1>2. /\ stack # <<>> /\ top.call = "remove"
      /\ cache' = cache /\ phase' = phase /\ current' = current /\ eligible' = eligible
      /\ failing' = failing
  BY DEF RemoveLoop, loops, history
<1>3. PICK fn :
        /\ fn \in ToFail(top.kind, top.name) /\ fn \in td.seenfns
        /\ IsTaskData(td') /\ td'.targets = td.targets /\ td'.failed = td.failed
        /\ td'.failed_fns = td.failed_fns \union {fn}
  BY <1>1, RemoveLoopDoes
<1>4. kind' = kind /\ kind \in Kinds
  BY <1>2, KindSame, KindIs
<1>5. fn \in Unbuildable(TRUE)
  <2>1. top.kind \in Kinds /\ top.name \in td.failed[top.kind]
    BY <1>1, <1>2, FrameIs
  <2>2. \/ top.name \in cache.deps[top.kind][fn]
        \/ \E g \in cache.flags[top.kind][fn] : g[2] = top.name
    BY <1>3 DEF ToFail, Dependees, FlagsName
  <2>3. fn \in recipes
    BY <1>1, <1>3 DEF TargetsInv
  <2>4. QED
    BY <1>1, <2>1, <2>2, <2>3, DependeeFails
<1>6. JustlyInv'
  <2>1. td'.failed_fns \subseteq Unbuildable(TRUE)
    BY <1>1, <1>3, <1>5 DEF JustlyInv
  <2>2. \A k \in Kinds : td'.failed[k] \ td.failed[k] = {}
    BY <1>3
  <2>3. QED
    BY <1>1, <1>2, <2>1, <2>2, JustlyNext
<1>7. TriedInv'
  <2>1. td.failed_fns \subseteq td'.failed_fns
    BY <1>3
  <2>2. QED
    BY <1>1, <1>2, <1>3, <1>4, <2>1, TriedSame
<1>8. CurrentInv'
  <2>1. ~failing => current \in td.failed[kind] /\ ~have(kind, current)
    BY <1>1, <1>2 DEF CurrentInv
  <2>2. have(kind, current)' = have(kind, current)
    BY <1>2, <1>3, <1>4 DEF have
  <2>3. QED
    BY <1>2, <1>3, <1>4, <2>1, <2>2 DEF CurrentInv
<1>9. QED
  BY <1>6, <1>7, <1>8 DEF JustifiedInv

LEMMA ReturnJust ==
  ASSUME ResolveInv, JustifiedInv, Return
  PROVE  JustifiedInv'
<1>1. TargetsInv /\ FramesInv /\ JustlyInv /\ TriedInv /\ CurrentInv /\ IsTaskData(td)
  BY DEF ResolveInv, JustifiedInv, TargetsInv
<1>2. /\ stack # <<>> /\ stack' = Tail(stack) /\ td' = td
      /\ cache' = cache /\ phase' = phase /\ current' = current /\ eligible' = eligible
      /\ failing' = failing
  BY DEF Return, loops, history
<1>3. kind' = kind
  BY <1>2, KindSame
<1>4. JustlyInv'
  <2>1. td'.failed_fns \subseteq Unbuildable(TRUE) /\ \A k \in Kinds : td'.failed[k] \ td.failed[k] = {}
    BY <1>1, <1>2 DEF JustlyInv
  <2>2. QED
    BY <1>1, <1>2, <2>1, JustlyNext
<1>5. TriedInv'
  BY <1>1, <1>2, <1>3, TriedSame
<1>6. CurrentInv'
  <2>1. Len(stack) = 1 => stack' = <<>>
    <3>1. stack \in Seq(GivenUp)
      BY <1>1 DEF FramesInv
    <3>2. Len(stack') = Len(stack) - 1 /\ stack' \in Seq(GivenUp)
      BY <1>2, <3>1, PopCalls
    <3>3. QED
      BY <3>2, EmptySeq
  <2>2. have(kind, current)' = have(kind, current)
    BY <1>2, <1>3 DEF have
  <2>3. QED
    BY <1>1, <1>2, <1>3, <2>1, <2>2 DEF CurrentInv
<1>7. QED
  BY <1>4, <1>5, <1>6 DEF JustifiedInv

LEMMA NothingLeft == \A s : s = <<>> => ToSet(s) = {}
<1>1. \A s : s = <<>> => DOMAIN s = {}
  OBVIOUS
<1>2. QED
  BY <1>1 DEF ToSet

LEMMA RaiseJust ==
  ASSUME ResolveInv, JustifiedInv, Raise, phase' # "raised"
  PROVE  JustifiedInv'
<1>1. TargetsInv /\ FramesInv /\ JustlyInv /\ TriedInv /\ CurrentInv /\ IsTaskData(td)
  BY DEF ResolveInv, JustifiedInv, TargetsInv
<1>2. /\ stack # <<>> /\ top.call = "remove" /\ eligible' = <<>> /\ cache' = cache
      /\ current' = current /\ ~failing /\ Removal(current) /\ failing' = TRUE /\ phase' = phase
  BY DEF Raise, Caught, RequiredMissing
<1>3. current \in td.failed[kind] /\ ~have(kind, current)
  BY <1>1, <1>2 DEF CurrentInv
<1>4. kind' = kind /\ kind \in Kinds
  BY <1>2, KindSame, KindIs
<1>5. /\ IsTaskData(td') /\ td'.targets = td.targets /\ td'.failed_fns = td.failed_fns
      /\ \A k \in Kinds : td'.failed[k] \subseteq td.failed[k] \union (IF k = kind THEN {current} ELSE {})
  BY <1>1, <1>2, RemovalDoes
<1>6. JustlyInv'
  <2>1. td'.failed_fns \subseteq Unbuildable(TRUE) /\ \A k \in Kinds : td'.failed[k] \ td.failed[k] = {}
    BY <1>1, <1>3, <1>5 DEF JustlyInv
  <2>2. QED
    BY <1>1, <1>2, <2>1, JustlyNext
<1>7. TriedInv'
  <2>1. \A k, i : ListOf(td', k, i) = ListOf(td, k, i)
    BY <1>5, SameLists
  <2>2. ASSUME NEW k \in Kinds, NEW i, ListOf(td', k, i) # <<>>
        PROVE  /\ i \notin cache.ignored
               /\ Eligible(ProvidersOf(k, i))
                    \subseteq ToSet(ListOf(td', k, i)) \union td'.failed_fns \union Untried(k, i)'
    <3>1. ListOf(td, k, i) # <<>>
      BY <2>1, <2>2
    <3>2. have(k, i)
      BY <1>1, <3>1 DEF have, ListOf
    <3>3. Untried(k, i) = {}
      BY <1>3, <3>2 DEF Untried
    <3>4. /\ i \notin cache.ignored
          /\ Eligible(ProvidersOf(k, i))
               \subseteq ToSet(ListOf(td, k, i)) \union td.failed_fns \union Untried(k, i)
      BY <1>1, <3>1, TriedByLists
    <3>5. QED
      BY <1>5, <2>1, <3>3, <3>4
  <2>3. QED
    BY <1>2, <1>4, <1>5, <2>2, TriedNext
<1>8. CurrentInv'
  BY <1>2 DEF CurrentInv
<1>9. QED
  BY <1>6, <1>7, <1>8 DEF JustifiedInv

LEMMA AlreadyJust ==
  ASSUME CacheOK(cache), ResolveInv, JustifiedInv, NEW item, Already(item)
  PROVE  JustifiedInv'
<1>1. TargetsInv /\ ItemInv /\ JustlyInv /\ TriedInv /\ IsTaskData(td)
  BY DEF ResolveInv, JustifiedInv, TargetsInv
<1>2. /\ ReadyFor(item) /\ td' = td /\ stack' = stack /\ eligible' = eligible
      /\ cache' = cache /\ phase' = phase
  BY DEF Already, loops
<1>3. stack = <<>> /\ eligible = <<>>
  BY <1>1, <1>2, NextItemIs
<1>4. JustlyInv'
  <2>1. td'.failed_fns \subseteq Unbuildable(TRUE) /\ \A k \in Kinds : td'.failed[k] \ td.failed[k] = {}
    BY <1>1, <1>2 DEF JustlyInv
  <2>2. QED
    BY <1>1, <1>2, <2>1, JustlyNext
<1>5. TriedInv'
  BY <1>1, <1>2, <1>3, KindSame, TriedSame
<1>6. CurrentInv'
  BY <1>2, <1>3 DEF CurrentInv
<1>7. QED
  BY <1>4, <1>5, <1>6 DEF JustifiedInv

LEMMA TryJust ==
  ASSUME CacheOK(cache), ResolveInv, JustifiedInv, NEW item, Try(item)
  PROVE  JustifiedInv'
<1>1. TargetsInv /\ ItemInv /\ JustlyInv /\ TriedInv /\ IsTaskData(td)
  BY DEF ResolveInv, JustifiedInv, TargetsInv
<1>2. /\ ReadyFor(item) /\ current' = item /\ td' = td /\ stack' = stack
      /\ cache' = cache /\ phase' = phase
      /\ \E attempt \in Attempts(item) : eligible' = attempt.order
  BY DEF Try, loops
<1>3. stack = <<>> /\ eligible = <<>>
  BY <1>1, <1>2, NextItemIs
<1>4. kind' = kind
  BY <1>2, KindSame
<1>5. ToSet(eligible') = Eligible(ProvidersOf(kind, item))
  BY <1>2, AttemptHasAll
<1>6. JustlyInv'
  <2>1. td'.failed_fns \subseteq Unbuildable(TRUE) /\ \A k \in Kinds : td'.failed[k] \ td.failed[k] = {}
    BY <1>1, <1>2 DEF JustlyInv
  <2>2. QED
    BY <1>1, <1>2, <2>1, JustlyNext
<1>7. TriedInv'
  <2>1. ASSUME NEW k \in Kinds, NEW i, ListOf(td', k, i) # <<>>
        PROVE  /\ i \notin cache.ignored
               /\ Eligible(ProvidersOf(k, i))
                    \subseteq ToSet(ListOf(td', k, i)) \union td'.failed_fns \union Untried(k, i)'
    <3>1. Untried(k, i) = {}
      BY <1>3, NothingLeft DEF Untried
    <3>2. QED
      BY <1>1, <1>2, <2>1, <3>1, TriedByLists
  <2>2. Eligible(ProvidersOf(kind, item)) \subseteq ToSet(eligible') \union td'.failed_fns
    BY <1>5
  <2>3. IsTaskData(td')
    BY <1>1, <1>2
  <2>4. QED
    BY <1>2, <1>4, <2>1, <2>2, <2>3, TriedNext
<1>8. CurrentInv'
  BY <1>2, <1>3 DEF CurrentInv
<1>9. QED
  BY <1>6, <1>7, <1>8 DEF JustifiedInv

LEMMA NoProviderJust ==
  ASSUME CacheOK(cache), ResolveInv, JustifiedInv, NEW item, NoProvider(item), phase' # "raised"
  PROVE  JustifiedInv'
<1>1. TargetsInv /\ ItemInv /\ JustlyInv /\ TriedInv /\ IsTaskData(td)
  BY DEF ResolveInv, JustifiedInv, TargetsInv
<1>2. /\ ReadyFor(item) /\ current' = item /\ eligible' = eligible /\ cache' = cache
      /\ item \notin cache.ignored /\ failing' = TRUE /\ Removal(item) /\ phase' = phase
      /\ \E attempt \in Attempts(item) : ~Usable(attempt)
  BY DEF NoProvider
<1>3. stack = <<>> /\ eligible = <<>>
  BY <1>1, <1>2, NextItemIs
<1>4. /\ IsTaskData(td') /\ td'.targets = td.targets /\ td'.failed_fns = td.failed_fns
      /\ \A k \in Kinds : td'.failed[k] \subseteq td.failed[k] \union (IF k = kind THEN {item} ELSE {})
  BY <1>1, <1>2, RemovalDoes
<1>5. Hopeless(kind, item, Unbuildable(TRUE), TRUE)
  <2>1. PICK attempt \in Attempts(item) : ~Usable(attempt)
    BY <1>2
  <2>2. /\ ToSet(attempt.order) = Eligible(ProvidersOf(kind, item))
        /\ attempt.numberPreferred > 1 => kind = "run" /\ MayConflict(item)
    BY AttemptHasAll
  <2>3. \/ ToSet(attempt.order) \subseteq td.failed_fns
        \/ attempt.numberPreferred > 1
    BY <2>1 DEF Usable
  <2>4. QED
    BY <1>1, <2>2, <2>3 DEF JustlyInv, Hopeless
<1>6. JustlyInv'
  <2>1. td'.failed_fns \subseteq Unbuildable(TRUE)
    BY <1>1, <1>4 DEF JustlyInv
  <2>2. \A k \in Kinds : \A i \in td'.failed[k] \ td.failed[k] :
          i \notin cache.ignored /\ Hopeless(k, i, Unbuildable(TRUE), TRUE)
    BY <1>2, <1>4, <1>5
  <2>3. QED
    BY <1>1, <1>2, <2>1, <2>2, JustlyNext
<1>7. TriedInv'
  BY <1>1, <1>2, <1>3, <1>4, KindSame, TriedSame
<1>8. CurrentInv'
  BY <1>2 DEF CurrentInv
<1>9. QED
  BY <1>6, <1>7, <1>8 DEF JustifiedInv

LEMMA HeadAndRest ==
  ASSUME NEW S, NEW s \in Seq(S), s # <<>>
  PROVE  ToSet(s) = ToSet(Tail(s)) \union {Head(s)}
<1> DEFINE r == Tail(s)
<1>1. /\ Head(s) = s[1] /\ r \in Seq(S) /\ Len(r) = Len(s) - 1
      /\ \A i \in 1..Len(r) : r[i] = s[i + 1]
  BY HeadTailProperties
<1> HIDE DEF r
<1>2. /\ Len(s) \in Nat /\ Len(s) >= 1 /\ DOMAIN s = 1..Len(s) /\ DOMAIN r = 1..(Len(s) - 1)
  BY <1>1
<1>3. ASSUME NEW x \in ToSet(r) PROVE x \in ToSet(s)
  <2>1. PICK i \in 1..(Len(s) - 1) : x = r[i]
    BY <1>2, <1>3 DEF ToSet
  <2>2. i + 1 \in DOMAIN s /\ x = s[i + 1]
    BY <1>1, <1>2, <2>1
  <2>3. QED
    BY <2>2 DEF ToSet
<1>4. ASSUME NEW x \in ToSet(s), x # Head(s) PROVE x \in ToSet(r)
  <2>1. PICK i \in 1..Len(s) : x = s[i]
    BY <1>2, <1>4 DEF ToSet
  <2>2. i # 1
    BY <1>1, <1>4, <2>1
  <2>3. i - 1 \in DOMAIN r /\ i - 1 \in 1..Len(r) /\ (i - 1) + 1 = i
    BY <1>1, <1>2, <2>1, <2>2
  <2>4. x = r[i - 1]
    BY <1>1, <2>1, <2>3
  <2>5. QED
    BY <2>3, <2>4 DEF ToSet
<1>5. Head(s) \in ToSet(s)
  <2>1. 1 \in DOMAIN s
    BY <1>2
  <2>2. QED
    BY <1>1, <2>1 DEF ToSet
<1>6. QED
  BY <1>3, <1>4, <1>5 DEF r

LEMMA AddTasksJust ==
  ASSUME CacheOK(cache), ResolveInv, JustifiedInv, AddTasks
  PROVE  JustifiedInv'
<1> DEFINE E == Eligible(ProvidersOf(kind, current))
<1>0. PICK fn : fn = Head(eligible)
  OBVIOUS
<1>1. TargetsInv /\ ItemInv /\ JustlyInv /\ TriedInv /\ IsTaskData(td)
  BY DEF ResolveInv, JustifiedInv, TargetsInv
<1>2. /\ current # "" /\ stack = <<>> /\ eligible # <<>> /\ eligible' = Tail(eligible)
      /\ cache' = cache /\ phase' = phase /\ current' = current /\ failing' = failing
  BY DEF AddTasks, loops
<1>3. ToSet(eligible) = ToSet(eligible') \union {fn}
  <2>1. eligible \in Seq(E)
    BY <1>1 DEF ItemInv
  <2>2. QED
    BY <1>2, <1>0, <2>1, HeadAndRest
<1>5. /\ fn \in recipes /\ IsTaskData(td') /\ td'.failed = td.failed
      /\ \/ fn \in td.failed_fns /\ td' = td /\ stack' = stack
         \/ /\ fn \notin td.failed_fns
            /\ \A j \in Kinds : \A i :
                 ListOf(td', j, i) = IF j = kind /\ i = current
                                     THEN Append(ListOf(td, kind, current), fn) ELSE ListOf(td, j, i)
            /\ \/ td'.failed_fns = td.failed_fns /\ stack' = stack
               \/ /\ fn \notin td.seenfns /\ td'.failed_fns = td.failed_fns \union {fn}
                  /\ stack' = <<Frame("fail", "build", fn)>>
                  /\ \E j \in Kinds : cache.deps[j][fn] \intersect td.failed[j] # {}
  BY <1>1, <1>0, AddTasksDoes
<1>6. kind' = kind /\ kind \in Kinds
  BY <1>2, KindSame, KindIs
<1>7. td.failed_fns \subseteq td'.failed_fns
  BY <1>5
<1>8. JustlyInv'
  <2>1. td'.failed_fns \subseteq Unbuildable(TRUE)
    <3>1. CASE \E j \in Kinds : cache.deps[j][fn] \intersect td.failed[j] # {}
      <4>1. PICK j \in Kinds : \E i \in td.failed[j] : i \in cache.deps[j][fn]
        BY <3>1
      <4>2. fn \in Unbuildable(TRUE)
        BY <1>1, <1>5, <4>1, DependeeFails
      <4>3. QED
        BY <1>1, <1>5, <4>2 DEF JustlyInv
    <3>2. CASE td'.failed_fns = td.failed_fns
      BY <1>1, <3>2 DEF JustlyInv
    <3>3. QED
      BY <1>5, <3>1, <3>2
  <2>2. \A k \in Kinds : td'.failed[k] \ td.failed[k] = {}
    BY <1>5
  <2>3. QED
    BY <1>1, <1>2, <2>1, <2>2, JustlyNext
<1>9. CASE fn \in td.failed_fns /\ td' = td /\ stack' = stack
  <2>1. TriedInv'
    <3>1. ASSUME NEW k \in Kinds, NEW i, ListOf(td', k, i) # <<>>
          PROVE  /\ i \notin cache.ignored
                 /\ Eligible(ProvidersOf(k, i))
                      \subseteq ToSet(ListOf(td', k, i)) \union td'.failed_fns \union Untried(k, i)'
      <4>1. Untried(k, i) \subseteq Untried(k, i)' \union td.failed_fns
        BY <1>2, <1>3, <1>6, <1>9 DEF Untried
      <4>2. QED
        BY <1>1, <1>9, <3>1, <4>1, TriedByLists
    <3>2. ASSUME ListOf(td', kind, current) = <<>>
          PROVE  Eligible(ProvidersOf(kind, current)) \subseteq ToSet(eligible') \union td'.failed_fns
      <4>1. ~have(kind, current)
        BY <1>9, <3>2 DEF have, ListOf
      <4>2. QED
        BY <1>1, <1>2, <1>3, <1>9, <4>1 DEF TriedInv
    <3>3. current = current'
      BY <1>2
    <3>4. QED
      BY <1>2, <1>5, <1>6, <3>1, <3>2, <3>3, TriedNext
  <2>2. CurrentInv'
    BY <1>2, <1>9 DEF CurrentInv
  <2>3. QED
    BY <1>8, <2>1, <2>2 DEF JustifiedInv
<1>10. CASE fn \notin td.failed_fns
  <2>1. /\ ListOf(td', kind, current) # <<>>
        /\ ToSet(ListOf(td', kind, current)) = ToSet(ListOf(td, kind, current)) \union {fn}
    <3>1. ListOf(td, kind, current) \in Seq(E \intersect td.seenfns)
      BY <1>1, <1>6, ListsTyped
    <3>2. ListOf(td, kind, current) \in Seq((E \intersect td.seenfns) \union {fn})
      BY <3>1
    <3>3. ListOf(td', kind, current) = Append(ListOf(td, kind, current), fn)
      BY <1>5, <1>6, <1>10
    <3>4. QED
      BY <3>2, <3>3, AppendKeeps
  <2>2. /\ current \notin cache.ignored
        /\ E \subseteq ToSet(ListOf(td, kind, current)) \union td.failed_fns \union ToSet(eligible)
    <3>1. CASE have(kind, current)
      <4>1. ListOf(td, kind, current) # <<>>
        BY <3>1 DEF have, ListOf
      <4>2. Untried(kind, current) = ToSet(eligible)
        BY DEF Untried
      <4>3. QED
        BY <1>1, <1>6, <4>1, <4>2, TriedByLists
    <3>2. CASE ~have(kind, current)
      BY <1>1, <1>2, <3>2 DEF ItemInv, TriedInv
    <3>3. QED
      BY <3>1, <3>2
  <2>3. TriedInv'
    <3>1. ASSUME NEW k \in Kinds, NEW i, ListOf(td', k, i) # <<>>
          PROVE  /\ i \notin cache.ignored
                 /\ Eligible(ProvidersOf(k, i))
                      \subseteq ToSet(ListOf(td', k, i)) \union td'.failed_fns \union Untried(k, i)'
      <4>1. CASE k = kind /\ i = current
        <5>1. Untried(k, i)' = ToSet(eligible')
          BY <1>2, <1>6, <4>1 DEF Untried
        <5>2. QED
          BY <1>3, <1>7, <2>1, <2>2, <4>1, <5>1
      <4>2. CASE ~(k = kind /\ i = current)
        <5>1. ListOf(td', k, i) = ListOf(td, k, i)
          BY <1>5, <1>10, <4>2
        <5>2. Untried(k, i) = {}
          BY <4>2 DEF Untried
        <5>3. QED
          BY <1>1, <1>7, <3>1, <5>1, <5>2, TriedByLists
      <4>3. QED
        BY <4>1, <4>2
    <3>2. current = current'
      BY <1>2
    <3>3. QED
      BY <1>2, <1>5, <1>6, <2>1, <3>1, <3>2, TriedNext
  <2>4. CurrentInv'
    <3>1. CASE stack' = stack
      BY <1>2, <3>1 DEF CurrentInv
    <3>2. CASE stack' = <<Frame("fail", "build", fn)>> /\ fn \notin td.seenfns
      <4>1. Len(stack') = 1 /\ top'.call = "fail" /\ top'.name = fn
        BY <3>2 DEF top, Frame
      <4>2. ASSUME NEW k \in Kinds, NEW i \in HoldersOf(fn, k)'
            PROVE  k = kind /\ i = current
        <5>1. fn \in ToSet(ListOf(td', k, i))
          <6>1. \A h : h \in HoldersOf(fn, k)' =>
                  h \in DOMAIN td'.targets[k] /\ fn \in ToSet(td'.targets[k][h])
            BY DEF HoldersOf
          <6>2. \A h : h \in DOMAIN td'.targets[k] => ListOf(td', k, h) = td'.targets[k][h]
            BY DEF ListOf
          <6>3. QED
            BY <4>2, <6>1, <6>2
        <5>2. SUFFICES ASSUME ~(k = kind /\ i = current) PROVE FALSE
          OBVIOUS
        <5>3. fn \in ToSet(ListOf(td, k, i))
          BY <1>5, <1>10, <5>1, <5>2
        <5>4. ListOf(td, k, i) \in Seq(Eligible(ProvidersOf(k, i)) \intersect td.seenfns)
          BY <1>1, ListsTyped
        <5>5. QED
          BY <3>2, <5>3, <5>4 DEF ToSet
      <4>3. \A k \in Kinds : HoldersOf(top.name, k)' \subseteq (IF k = kind THEN {current} ELSE {})
        <5>1. \A k : HoldersOf(top.name, k)' = HoldersOf(fn, k)'
          BY <4>1 DEF HoldersOf
        <5>2. QED
          BY <4>2, <5>1
      <4>4. QED
        BY <1>2, <1>6, <4>1, <4>3 DEF CurrentInv
    <3>3. QED
      BY <1>5, <1>10, <3>1, <3>2
  <2>5. QED
    BY <1>8, <2>3, <2>4 DEF JustifiedInv
<1>11. QED
  BY <1>5, <1>9, <1>10

\* The next item, and the next loop.
LEMMA ItemDoneJust ==
  ASSUME ResolveInv, JustifiedInv, ItemDone
  PROVE  JustifiedInv'
<1>1. TargetsInv /\ JustlyInv /\ TriedInv /\ IsTaskData(td)
  BY DEF ResolveInv, JustifiedInv, TargetsInv
<1>2. /\ stack = <<>> /\ eligible = <<>> /\ eligible' = eligible /\ stack' = stack
      /\ cache' = cache /\ phase' = phase
      /\ td' = td \/ td' = [td EXCEPT !.external = @ \union {current}]
  BY DEF ItemDone
<1>3. /\ IsTaskData(td') /\ td'.targets = td.targets /\ td'.failed = td.failed
      /\ td'.failed_fns = td.failed_fns
  BY <1>1, <1>2 DEF IsTaskData
<1>4. JustlyInv'
  <2>1. td'.failed_fns \subseteq Unbuildable(TRUE) /\ \A k \in Kinds : td'.failed[k] \ td.failed[k] = {}
    BY <1>1, <1>3 DEF JustlyInv
  <2>2. QED
    BY <1>1, <1>2, <2>1, JustlyNext
<1>5. TriedInv'
  BY <1>1, <1>2, <1>3, KindSame, TriedSame
<1>6. CurrentInv'
  BY <1>2 DEF CurrentInv
<1>7. QED
  BY <1>4, <1>5, <1>6 DEF JustifiedInv

LEMMA LoopDoneJust ==
  ASSUME ResolveInv, JustifiedInv, LoopDone
  PROVE  JustifiedInv'
<1>1. ItemInv /\ JustlyInv /\ TriedInv
  BY DEF ResolveInv, JustifiedInv
<1>2. current = "" /\ td' = td /\ cache' = cache /\ eligible' = eligible /\ stack' = stack
  BY DEF LoopDone
<1>3. stack = <<>> /\ eligible = <<>>
  BY <1>1, <1>2 DEF ItemInv
<1>4. JustlyInv'
  <2>1. td'.failed_fns \subseteq Unbuildable(TRUE) /\ \A k \in Kinds : td'.failed[k] \ td.failed[k] = {}
    BY <1>1, <1>2 DEF JustlyInv
  <2>2. QED
    BY <1>1, <1>2, <2>1, JustlyNext
<1>5. TriedInv'
  <2>1. \A k, i : Untried(k, i) = {} /\ Untried(k, i)' = {}
    BY <1>2, <1>3, NothingLeft DEF Untried
  <2>2. \A k, i : Eligible(ProvidersOf(k, i))' = Eligible(ProvidersOf(k, i))
    BY <1>2, CacheSame
  <2>3. ASSUME NEW k \in Kinds, NEW i \in DOMAIN td.targets[k], td.targets[k][i] # <<>>
        PROVE  /\ i \notin cache.ignored
               /\ Eligible(ProvidersOf(k, i)) \subseteq ToSet(td.targets[k][i]) \union td.failed_fns
    BY <1>1, <2>1, <2>3 DEF TriedInv
  <2>4. \A k \in Kinds : \A i \in DOMAIN td'.targets[k] : td'.targets[k][i] # <<>> =>
          /\ i \notin cache'.ignored
          /\ Eligible(ProvidersOf(k, i))'
               \subseteq ToSet(td'.targets[k][i]) \union td'.failed_fns \union Untried(k, i)'
    BY <1>2, <2>1, <2>2, <2>3
  <2>5. eligible' = <<>>
    BY <1>2, <1>3
  <2>6. QED
    BY <2>4, <2>5 DEF TriedInv
<1>6. CurrentInv'
  BY <1>2, <1>3 DEF CurrentInv
<1>7. QED
  BY <1>4, <1>5, <1>6 DEF JustifiedInv

-----------------------------------------------------------------------------
(* BuildableExactly *)

LEMMA JustifiedNext ==
  ASSUME CacheOK(cache), ResolveInv, JustifiedInv, ResolveNext, phase' # "raised", ~premature'
  PROVE  JustifiedInv'
<1>1. CASE FailLoop
  BY <1>1, FailLoopJust
<1>2. CASE RemoveLoop
  BY <1>2, RemoveLoopJust
<1>3. CASE Return
  BY <1>3, ReturnJust
<1>4. CASE Raise
  BY <1>4, RaiseJust
<1>5. ASSUME NEW item \in NextItems, Already(item) \/ Try(item) \/ NoProvider(item)
      PROVE  JustifiedInv'
  BY <1>5, AlreadyJust, TryJust, NoProviderJust
<1>6. CASE AddTasks
  BY <1>6, AddTasksJust
<1>7. CASE ItemDone
  BY <1>7, ItemDoneJust
<1>8. CASE LoopDone
  BY <1>8, LoopDoneJust
<1>9. QED
  BY <1>1, <1>2, <1>3, <1>4, <1>5, <1>6, <1>7, <1>8 DEF ResolveNext

\* What was raised, or removed too early, stays so.
LEMMA SoFarSo ==
  ASSUME ItemInv, ResolveNext, phase' # "raised", ~premature'
  PROVE  phase # "raised" /\ ~premature
<1>1. premature => premature'
  BY DEF ResolveNext, FailLoop, RemoveLoop, Return, Raise, Already, Try, NoProvider, AddTasks,
         ItemDone, LoopDone, history
<1>2. phase = "raised" => phase' = "raised"
  BY DEF ResolveNext, FailLoop, RemoveLoop, Return, Raise, Already, Try, NoProvider, AddTasks,
         ItemDone, LoopDone, loops, NextItems, ReadyFor
<1>3. QED
  BY <1>1, <1>2

LEMMA JustifiedSame ==
  ASSUME ResolveInv, JustifiedInv, UNCHANGED resolveVars
  PROVE  JustifiedInv'
<1>1. /\ cache' = cache /\ td' = td /\ phase' = phase /\ current' = current
      /\ eligible' = eligible /\ stack' = stack /\ failing' = failing
  BY DEF resolveVars, loops
<1>2. JustlyInv /\ TriedInv /\ CurrentInv /\ IsTaskData(td)
  BY DEF JustifiedInv, ResolveInv, TargetsInv
<1>3. JustlyInv'
  <2>1. td'.failed_fns \subseteq Unbuildable(TRUE) /\ \A k \in Kinds : td'.failed[k] \ td.failed[k] = {}
    BY <1>1, <1>2 DEF JustlyInv
  <2>2. QED
    BY <1>1, <1>2, <2>1, JustlyNext
<1>4. kind' = kind
  BY <1>1, KindSame
<1>5. TriedInv'
  BY <1>1, <1>2, <1>4, TriedSame
<1>6. CurrentInv'
  <2>1. \A k : HoldersOf(top.name, k)' = HoldersOf(top.name, k)
    BY <1>1 DEF HoldersOf, top
  <2>2. have(kind, current)' <=> have(kind, current)
    BY <1>1, <1>4 DEF have
  <2>3. top' = top
    BY <1>1 DEF top
  <2>4. QED
    BY <1>1, <1>2, <1>4, <2>1, <2>2, <2>3 DEF CurrentInv
<1>7. QED
  BY <1>3, <1>5, <1>6 DEF JustifiedInv

LEMMA JustifiedStarts ==
  ASSUME NEW c, ResolveInit(c)
  PROVE  JustifiedInv
<1>1. td = NewTaskData /\ stack = <<>> /\ eligible = <<>>
  BY DEF ResolveInit
<1>2. /\ td.failed_fns = {} /\ \A k \in Kinds : td.failed[k] = {}
      /\ \A k \in Kinds : DOMAIN td.targets[k] = {}
  BY <1>1 DEF NewTaskData, Kinds
<1>3. QED
  BY <1>1, <1>2 DEF JustifiedInv, JustlyInv, TriedInv, CurrentInv

LEMMA PlanInvStarts ==
  ASSUME Init
  PROVE  PlanInv
<1>1. PICK c : ResolveInit(c)
  BY DEF Init
<1>2. JustifiedInv
  BY <1>1, JustifiedStarts
<1>3. QED
  BY <1>2, SoundPlanStarts DEF PlanInv, SoundPlanInv

LEMMA PlanInvKept ==
  ASSUME PrepareInv, PlanInv, [Next]_vars
  PROVE  PlanInv'
<1>1. SoundPlanInv /\ SoundPlanInv'
  BY SoundPlanKept DEF PlanInv, SoundPlanInv
<1>2. ASSUME phase' # "raised", ~premature'
      PROVE  JustifiedInv'
  <2>1. CASE ResolveStep
    <3>1. ResolveNext /\ CacheOK(cache) /\ ResolveInv /\ ItemInv
      BY <1>1, <2>1 DEF ResolveStep, SoundPlanInv, CacheInv, ResolveInv
    <3>2. phase # "raised" /\ ~premature
      BY <1>2, <3>1, SoFarSo
    <3>3. JustifiedInv
      BY <3>2 DEF PlanInv
    <3>4. QED
      BY <1>2, <3>1, <3>3, JustifiedNext
  <2>2. CASE UNCHANGED resolveVars
    <3>1. phase' = phase /\ premature' = premature
      BY <2>2, ResolvedSame
    <3>2. ResolveInv /\ JustifiedInv
      BY <1>2, <3>1 DEF PlanInv
    <3>3. QED
      BY <2>2, <3>2, JustifiedSame
  <2>3. ResolveStep \/ UNCHANGED resolveVars
    BY DEF Next, HandOver, PrepareStep, SceneStart, SceneStep, vars
  <2>4. QED
    BY <2>1, <2>2, <2>3
<1>3. QED
  BY <1>1, <1>2 DEF PlanInv, SoundPlanInv

\* Everything the planning keeps to, from the recipes to the run queue.
THEOREM PlanInvariance == Spec => []PlanInv
<1>1. Init => PlanInv
  BY PlanInvStarts
<1>2. PrepareInv /\ PlanInv /\ [Next]_vars => PlanInv'
  BY PlanInvKept
<1>3. QED
  BY <1>1, <1>2, PrepareInvariance, PTL DEF Spec

\* The recipes left can all be built: what each needs, another one provides.
LEMMA LeftAreBuildable ==
  ASSUME PlanInv, HandedOver, ~swallowed, ~cache.allowincomplete,
         NEW f \in Unbuildable(FALSE), f \in td.seenfns
  PROVE  f \in td.failed_fns
<1> DEFINE good == td.seenfns \ td.failed_fns
           bad == recipes \ good
<1>1. SoundPlanInv /\ TargetsInv
  BY DEF PlanInv, SoundPlanInv, ResolveInv
<1>2. ASSUME NEW g \in recipes \ bad, NEW k \in Kinds, NEW i \in NeedsOf(k, g, FALSE)
      PROVE  ~Hopeless(k, i, bad, FALSE)
  <2>1. g \in good /\ i \in cache.deps[k][g] \ cache.ignored
    BY <1>2 DEF NeedsOf
  <2>2. have(k, i) /\ ToSet(td.targets[k][i]) \intersect td.failed_fns = {}
    BY <1>1, <2>1, NeedsAreHeld
  <2>3. td.targets[k][i] \in Seq(Eligible(ProvidersOf(k, i)) \intersect td.seenfns)
    BY <1>1, <2>2 DEF TargetsInv, have
  <2>4. PICK h \in ToSet(td.targets[k][i]) : h \in Eligible(ProvidersOf(k, i)) \intersect td.seenfns
    <3>1. td.targets[k][i] # <<>>
      BY <2>2 DEF have
    <3>2. 1 \in DOMAIN td.targets[k][i]
      BY <2>3, <3>1
    <3>3. td.targets[k][i][1] \in Eligible(ProvidersOf(k, i)) \intersect td.seenfns
      BY <2>3, <3>2
    <3>4. td.targets[k][i][1] \in ToSet(td.targets[k][i])
      BY <3>2 DEF ToSet
    <3>5. QED
      BY <3>3, <3>4
  <2>5. h \in good
    BY <2>2, <2>4
  <2>6. QED
    BY <2>4, <2>5 DEF Hopeless
<1>3. BadClosed(bad, FALSE)
  BY <1>2 DEF BadClosed, Kinds
<1>4. f \in bad
  BY <1>3 DEF Unbuildable
<1>5. QED
  BY <1>4

\* "While the target that failed and anything depending on it cannot be built, as
\* much as possible will be built" (--continue): what TaskData gives up cannot be
\* built, and what it keeps can.
THEOREM BuildableExactlyHolds == Spec => []BuildableExactly
<1>1. PlanInv => BuildableExactly
  <2> SUFFICES ASSUME PlanInv, HandedOver PROVE
        /\ ~premature => td.failed_fns \subseteq Unbuildable(TRUE)
        /\ ~swallowed /\ ~cache.allowincomplete =>
             Unbuildable(FALSE) \intersect td.seenfns \subseteq td.failed_fns
    BY DEF BuildableExactly
  <2>1. ~premature => td.failed_fns \subseteq Unbuildable(TRUE)
    BY DEF PlanInv, HandedOver, JustifiedInv, JustlyInv
  <2>2. ~swallowed /\ ~cache.allowincomplete =>
          Unbuildable(FALSE) \intersect td.seenfns \subseteq td.failed_fns
    BY LeftAreBuildable
  <2>3. QED
    BY <2>1, <2>2
<1>2. QED
  BY <1>1, PlanInvariance, PTL
=============================================================================
