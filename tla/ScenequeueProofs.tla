--------------------------- MODULE ScenequeueProofs ---------------------------
(***************************************************************************)
(* The setscene stage for every run queue: in which order setscene tasks   *)
(* are tried, and that none is lost when the stage hands over.             *)
(***************************************************************************)
EXTENDS Scenequeue, FiniteSetTheorems, TLAPS

-----------------------------------------------------------------------------
(* The graph *)

\* What the assumptions say of the graph at hand.
LEMMA GraphTyped ==
  ASSUME GraphInv, queue \in RunQueue
  PROVE  /\ depends \in [Tids -> SUBSET Tids]
         /\ setscene \subseteq Tids
         /\ harddeps \subseteq setscene \X setscene
BY RunQueueAssumption DEF GraphInv, Tids

\* A dependency has above it what needs it, and all above that.
LEMMA AboveUp ==
  ASSUME depends \in [Tids -> SUBSET Tids], NEW p \in Tids, NEW d \in depends[p]
  PROVE  d \in Tids /\ p \in Above(d) /\ Above(p) \subseteq Above(d)
<1>1. d \in Tids /\ p \in RevDepsOf(d)
  BY DEF RevDepsOf
<1>2. QED
  BY <1>1 DEF Above

LEMMA AboveClosed ==
  ASSUME NEW r \in Tids, NEW x \in Above(r)
  PROVE  RevDepsOf(r) \subseteq Above(r) /\ RevDepsOf(x) \subseteq Above(r)
BY DEF Above, RevDepsOf

\* What is above a task is directly above it, or above one that is.
LEMMA AboveDown ==
  ASSUME NEW x \in Tids, NEW u \in Above(x)
  PROVE  \E r \in RevDepsOf(x) : u = r \/ u \in Above(r)
<1> DEFINE W == {y \in Tids : \E r \in RevDepsOf(x) : y = r \/ y \in Above(r)}
<1>1. RevDepsOf(x) \subseteq W
  BY DEF RevDepsOf
<1>2. ASSUME NEW y \in W, NEW z \in RevDepsOf(y) PROVE z \in W
  <2>1. PICK r \in RevDepsOf(x) : y = r \/ y \in Above(r)
    BY <1>2
  <2>2. r \in Tids /\ z \in Tids
    BY <1>2 DEF RevDepsOf
  <2>3. z \in Above(r)
    <3>1. CASE y = r
      BY <1>2, <2>2, <3>1 DEF Above
    <3>2. CASE y \in Above(r)
      BY <1>2, <2>2, <3>2, AboveClosed
    <3>3. QED
      BY <2>1, <3>1, <3>2
  <2>4. QED
    BY <2>1, <2>2, <2>3
<1>3. W \in SUBSET Tids
  OBVIOUS
<1>4. u \in W
  <2> HIDE DEF W
  <2> QED
    BY <1>1, <1>2, <1>3 DEF Above
<1>5. QED
  BY <1>4

\* Of any tasks, one has none of the others above it: the graph has no cycle.
LEMMA NoCircle ==
  ASSUME GraphInv, queue \in RunQueue, NEW T \in SUBSET Tids, T # {}
  PROVE  \E t \in T : Above(t) \intersect T = {}
<1>1. SUFFICES ASSUME \A t \in T : Above(t) \intersect T # {} PROVE FALSE
  OBVIOUS
<1> DEFINE C == {x \in Tids : x \in T \/ \E u \in T : u \in Above(x)}
<1>2. C \in SUBSET DOMAIN queue.depends /\ C # {}
  BY DEF GraphInv, Tids
<1>3. PICK x \in C : \A y \in C : x \notin queue.depends[y]
  <2> HIDE DEF C
  <2> QED
    BY <1>2, RunQueueAssumption
<1>4. PICK u \in T : u \in Above(x)
  BY <1>1
<1>5. PICK r \in RevDepsOf(x) : u = r \/ u \in Above(r)
  BY <1>4, AboveDown
<1>6. r \in C /\ x \in depends[r]
  BY <1>5 DEF RevDepsOf
<1>7. QED
  BY <1>3, <1>6 DEF GraphInv

\* Nothing that a pass does changes what is above a task.
LEMMA AboveSame ==
  ASSUME depends' = depends, NEW t
  PROVE  Above(t)' = Above(t)
BY DEF Above, RevDepsOf, Tids

-----------------------------------------------------------------------------
(* The hard dependencies *)

\* A failure takes down the task itself and whatever has a hard dependency on
\* a task it takes down.
LEMMA FailsWithClosed ==
  ASSUME harddeps \subseteq setscene \X setscene, NEW t \in setscene
  PROVE  t \in FailsWith(t) /\ FailsWith(t) \subseteq setscene
         /\ \A v, u : v \in FailsWith(t) /\ HardOf(v, u) => u \in FailsWith(t)
<1>1. t \in FailsWith(t) /\ FailsWith(t) \subseteq setscene
  BY DEF FailsWith
<1>2. ASSUME NEW v, NEW u, v \in FailsWith(t), HardOf(v, u) PROVE u \in FailsWith(t)
  <2>1. <<v, u>> \in harddeps /\ u \in setscene
    BY <1>2 DEF HardOf
  <2>2. ASSUME NEW S \in SUBSET setscene, t \in S, HardClosed(S) PROVE u \in S
    <3>1. v \in S
      BY <1>2, <2>2 DEF FailsWith
    <3>2. QED
      BY <2>1, <2>2, <3>1 DEF HardClosed
  <2>3. QED
    BY <2>1, <2>2 DEF FailsWith
<1>3. QED
  BY <1>1, <1>2

\* It takes down nothing else.
LEMMA FailsWithLeast ==
  ASSUME NEW t, NEW S \in SUBSET setscene, t \in S,
         \A v, u : v \in S /\ HardOf(v, u) => u \in S,
         harddeps \subseteq setscene \X setscene
  PROVE  FailsWith(t) \subseteq S
<1>1. HardClosed(S)
  <2>1. SUFFICES ASSUME NEW p \in harddeps, p[1] \in S PROVE p[2] \in S
    BY DEF HardClosed
  <2>2. p = <<p[1], p[2]>>
    OBVIOUS
  <2>3. QED
    BY <2>1, <2>2 DEF HardOf
<1>2. QED
  BY <1>1 DEF FailsWith

\* A task taken down with another has a hard dependency that is taken down.
LEMMA FailsWithCause ==
  ASSUME harddeps \subseteq setscene \X setscene, NEW t \in setscene,
         NEW u \in FailsWith(t), u # t
  PROVE  \E v \in FailsWith(t) : HardOf(v, u)
<1>1. SUFFICES ASSUME \A v \in FailsWith(t) : ~HardOf(v, u) PROVE FALSE
  OBVIOUS
<1> DEFINE S == FailsWith(t) \ {u}
<1>2. S \in SUBSET setscene /\ t \in S
  BY FailsWithClosed
<1>3. \A v, w : v \in S /\ HardOf(v, w) => w \in S
  BY <1>1, FailsWithClosed
<1>4. FailsWith(t) \subseteq S
  <2> HIDE DEF S
  <2> QED
    BY <1>2, <1>3, FailsWithLeast
<1>5. QED
  BY <1>4

LEMMA HardForOf ==
  ASSUME harddeps \subseteq setscene \X setscene, NEW u, NEW v
  PROVE  v \in HardFor(u) <=> HardOf(v, u)
<1>1. ASSUME v \in HardFor(u) PROVE HardOf(v, u)
  <2>1. PICK p \in harddeps : p[2] = u /\ p[1] = v
    BY <1>1 DEF HardFor
  <2>2. p = <<v, u>>
    BY <2>1
  <2>3. QED
    BY <2>2 DEF HardOf
<1>2. ASSUME HardOf(v, u) PROVE v \in HardFor(u)
  <2>1. <<v, u>> \in harddeps
    BY <1>2 DEF HardOf
  <2>2. <<v, u>>[1] = v /\ <<v, u>>[2] = u
    OBVIOUS
  <2>3. <<v, u>> \in {q \in harddeps : q[2] = u}
    BY <2>1, <2>2
  <2>4. QED
    BY <2>2, <2>3 DEF HardFor
<1>3. QED
  BY <1>1, <1>2

\* Steps that leave the hard dependencies alone.
LEMMA FailsWithSame ==
  ASSUME setscene' = setscene, harddeps' = harddeps, NEW t
  PROVE  FailsWith(t)' = FailsWith(t)
BY DEF FailsWith, HardClosed

-----------------------------------------------------------------------------
(* The two passes *)

LEMMA BeginGraph ==
  ASSUME GraphInv, queue \in RunQueue, Begin
  PROVE  GraphInv'
<1>1. /\ pass = "none" /\ pass' = "squash" /\ queue.scene # {}
      /\ setscene' = queue.scene /\ harddeps' = queue.hard
      /\ points' = [t \in Ends(queue.scene) \union UNION {depends[s] : s \in queue.scene}
                      |-> Served(t, queue.scene)]
      /\ newpoints' = <<>> /\ new' = [t \in Tids |-> {}]
      /\ UNCHANGED <<depends, queue, noexec, current, stamp_setscene>>
  BY DEF Begin, GraphStart, PassReset, queueVars
<1>2. depends \in [Tids -> SUBSET Tids] /\ queue.scene \subseteq Tids
  BY RunQueueAssumption DEF GraphInv, Tids
<1>3. Tids' = Tids
  BY <1>1 DEF Tids
<1>4. PointsAbove(points)'
  <2>1. ASSUME NEW t \in DOMAIN points'
        PROVE  t \in Tids /\ points'[t] \subseteq queue.scene \intersect Above(t)
    <3>1. t \in Tids /\ points'[t] = Served(t, queue.scene)
      BY <1>1, <1>2, <2>1 DEF Ends
    <3>2. ASSUME NEW s \in Served(t, queue.scene) PROVE s \in queue.scene /\ s \in Above(t)
      BY <1>2, AboveUp DEF Served
    <3>3. QED
      BY <3>1, <3>2
  <2>2. \A t : Above(t)' = Above(t)
    BY <1>1, AboveSame
  <2>3. QED
    BY <1>1, <1>3, <2>1, <2>2 DEF PointsAbove
<1>5. PointsAbove(newpoints)'
  <2>1. DOMAIN newpoints' = {}
    BY <1>1
  <2>2. QED
    BY <2>1 DEF PointsAbove
<1>6. SquashAbove(new)'
  BY <1>1, <1>3 DEF SquashAbove
<1>7. QED
  BY <1>1, <1>4, <1>5, <1>6 DEF GraphInv

\* An endpoint hands down only what is above it, and so above what it hands to.
LEMMA EndpointGraph ==
  ASSUME GraphInv, queue \in RunQueue, NEW point, ProcessEndpoint(point), pass = "squash"
  PROVE  PointsAbove(points)' /\ PointsAbove(newpoints)' /\ SquashAbove(new)'
<1> DEFINE task == points[point]
           tasks == task \union new[point]
           deps == depends[point]
           rest == [e \in DOMAIN points \ {point} |-> points[e]]
           level == NextLevel(deps, left', new')
           next == [d \in level \union DOMAIN newpoints |->
                      IF d \in level THEN HandedOn(point, task, tasks) ELSE newpoints[d]]
<1>1. /\ point \in DOMAIN points
      /\ new' = [t \in Tids |->
                   IF t = point THEN Kept(point, tasks)
                   ELSE IF t \in deps THEN new[t] \union Passed(point, tasks)
                   ELSE new[t]]
      /\ \/ points' = next /\ newpoints' = <<>>
         \/ points' = rest /\ newpoints' = next
      /\ UNCHANGED <<depends, setscene, pass>>
  BY DEF ProcessEndpoint
<1>2. /\ depends \in [Tids -> SUBSET Tids] /\ setscene \subseteq Tids
      /\ PointsAbove(points) /\ PointsAbove(newpoints) /\ SquashAbove(new)
  BY GraphTyped DEF GraphInv
<1>3. point \in Tids /\ task \subseteq setscene /\ task \subseteq Above(point)
  BY <1>1, <1>2 DEF PointsAbove
<1>4. tasks \subseteq setscene /\ tasks \subseteq Above(point)
  BY <1>2, <1>3 DEF SquashAbove
<1>5. \A d \in deps : d \in Tids /\ Above(point) \subseteq Above(d)
  BY <1>2, <1>3, AboveUp
<1>6. Tids' = Tids /\ \A t : Above(t)' = Above(t)
  BY <1>1, AboveSame DEF Tids
<1>7. Kept(point, tasks) \subseteq tasks /\ Passed(point, tasks) \subseteq tasks
      /\ HandedOn(point, task, tasks) = task
  BY DEF Kept, Passed, HandedOn
<1>8. SquashAbove(new)'
  <2> HIDE DEF task, tasks
  <2>1. ASSUME NEW t \in Tids PROVE new'[t] \subseteq setscene /\ new'[t] \subseteq Above(t)
    <3>1. new[t] \subseteq setscene /\ new[t] \subseteq Above(t)
      BY <1>2 DEF SquashAbove
    <3>2. CASE t = point
      BY <1>1, <1>4, <1>7, <3>2
    <3>3. CASE t # point /\ t \in deps
      <4>1. new'[t] = new[t] \union Passed(point, tasks)
        BY <1>1, <3>3
      <4>2. QED
        BY <1>4, <1>5, <1>7, <3>1, <3>3, <4>1
    <3>4. CASE t # point /\ t \notin deps
      BY <1>1, <3>1, <3>4
    <3>5. QED
      BY <3>2, <3>3, <3>4
  <2>2. new' \in [Tids -> SUBSET setscene]
    BY <1>1, <2>1
  <2>3. QED
    BY <1>1, <1>6, <2>1, <2>2 DEF SquashAbove
<1>9. ASSUME NEW ps, ps \in {rest, next, <<>>}, NEW t \in DOMAIN ps
      PROVE  t \in Tids /\ ps[t] \subseteq setscene /\ ps[t] \subseteq Above(t)
  <2>1. CASE ps = rest
    BY <1>2, <1>9, <2>1 DEF PointsAbove
  <2>2. CASE ps = next
    <3>1. level \subseteq deps
      BY DEF NextLevel
    <3>2. CASE t \in level
      <4>1. ps[t] = task
        BY <1>7, <1>9, <2>2, <3>2
      <4>2. QED
        BY <1>3, <1>5, <3>1, <3>2, <4>1
    <3>3. CASE t \notin level
      <4>1. t \in DOMAIN newpoints /\ ps[t] = newpoints[t]
        BY <1>9, <2>2, <3>3
      <4>2. QED
        BY <1>2, <4>1 DEF PointsAbove
    <3>4. QED
      BY <3>2, <3>3
  <2>3. CASE ps = <<>>
    <3>1. DOMAIN ps = {}
      BY <2>3
    <3>2. QED
      BY <1>9, <3>1
  <2>4. QED
    BY <1>9, <2>1, <2>2, <2>3
<1>10. points' \in {rest, next, <<>>} /\ newpoints' \in {rest, next, <<>>}
  BY <1>1
<1>11. QED
  <2> HIDE DEF rest, next
  <2> QED
    BY <1>1, <1>6, <1>8, <1>9, <1>10 DEF PointsAbove

LEMMA ResolveGraph ==
  ASSUME GraphInv, queue \in RunQueue, ResolveHardDeps
  PROVE  Resolved'
<1>1. /\ pass = "resolve" /\ NotSquashed = {}
      /\ squash' = [t \in setscene |-> WithHardDeps(t)]
      /\ UNCHANGED <<depends, setscene, harddeps>>
  BY DEF ResolveHardDeps
<1>2. SquashAbove(squash) /\ setscene \subseteq Tids /\ harddeps \subseteq setscene \X setscene
  BY <1>1, GraphTyped DEF GraphInv
<1>3. ASSUME NEW t \in setscene
      PROVE  /\ squash'[t] = WithHardDeps(t)
             /\ HardFor(t)' = HardFor(t) /\ IsHard(t)' = IsHard(t) /\ Above(t)' = Above(t)
             /\ HardFor(t) \subseteq setscene
             /\ squash[t] \subseteq setscene /\ squash[t] \subseteq Above(t)
  <2>1. HardFor(t) \subseteq setscene
    BY <1>2 DEF HardFor
  <2>2. HardFor(t)' = HardFor(t) /\ IsHard(t)' = IsHard(t) /\ Above(t)' = Above(t)
    BY <1>1, AboveSame DEF HardFor, IsHard
  <2>3. QED
    BY <1>1, <1>2, <2>1, <2>2 DEF SquashAbove
<1>4. \A t \in setscene : WithHardDeps(t) \subseteq setscene
  BY <1>3 DEF WithHardDeps
<1>5. squash' \in [setscene' -> SUBSET setscene']
  BY <1>1, <1>4
<1>6. ASSUME NEW t \in setscene'
      PROVE  /\ HardFor(t)' \subseteq squash'[t]
             /\ squash'[t] \subseteq HardFor(t)' \union (IF IsHard(t)' THEN {} ELSE Above(t)')
  BY <1>1, <1>3 DEF WithHardDeps
<1>7. QED
  BY <1>5, <1>6 DEF Resolved

LEMMA CollapseGraph ==
  ASSUME GraphInv, queue \in RunQueue, Collapse
  PROVE  GraphInv'
<1>1. UNCHANGED <<queue, noexec, current, stamp_setscene, depends, setscene, harddeps>>
  BY DEF Collapse, queueVars, GraphNext, ProcessEndpoint, SquashDone, UnskippableDone,
         ResolveHardDeps
<1>2. Tids' = Tids /\ \A t : Above(t)' = Above(t)
  BY <1>1, AboveSame DEF Tids
<1>3. ASSUME NEW point \in DOMAIN points, ProcessEndpoint(point) PROVE GraphInv'
  <2>1. pass' = pass /\ pass \in {"squash", "unskippable"} /\ squash' = squash
    BY <1>3 DEF ProcessEndpoint
  <2>2. CASE pass = "squash"
    BY <1>1, <1>3, <2>1, <2>2, EndpointGraph DEF GraphInv
  <2>3. CASE pass = "unskippable"
    <3>1. SquashAbove(squash)'
      BY <1>1, <1>2, <2>1, <2>3 DEF GraphInv, SquashAbove
    <3>2. QED
      BY <1>1, <2>1, <2>3, <3>1 DEF GraphInv
  <2>4. QED
    BY <2>1, <2>2, <2>3
<1>4. CASE SquashDone
  <2>1. pass = "squash" /\ pass' = "unskippable" /\ squash' = new
    BY <1>4 DEF SquashDone
  <2>2. SquashAbove(squash)'
    BY <1>1, <1>2, <2>1 DEF GraphInv, SquashAbove
  <2>3. QED
    BY <1>1, <2>1, <2>2 DEF GraphInv
<1>5. CASE UnskippableDone
  <2>1. pass = "unskippable" /\ pass' = "resolve" /\ squash' = squash
    BY <1>5 DEF UnskippableDone
  <2>2. SquashAbove(squash)'
    BY <1>1, <1>2, <2>1 DEF GraphInv, SquashAbove
  <2>3. QED
    BY <1>1, <2>1, <2>2 DEF GraphInv
<1>6. CASE ResolveHardDeps
  <2>1. pass = "resolve" /\ pass' = "ready"
    BY <1>6 DEF ResolveHardDeps
  <2>2. QED
    BY <1>1, <1>6, <2>1, ResolveGraph DEF GraphInv
<1>7. QED
  BY <1>3, <1>4, <1>5, <1>6 DEF Collapse, GraphNext

\* A step outside the passes; stamps are those of setscene tasks.
LEMMA GraphKept ==
  ASSUME GraphInv, UNCHANGED <<graphVars, queueVars>>,
         stamp_setscene' \subseteq queue.scene
  PROVE  GraphInv'
<1>1. UNCHANGED <<queue, noexec, current, depends, setscene, harddeps, pass, points,
                  newpoints, new, squash>>
  BY DEF graphVars, queueVars
<1>2. Tids' = Tids /\ \A t : Above(t)' = Above(t)
  BY <1>1, AboveSame DEF Tids
<1>3. \A t : HardFor(t)' = HardFor(t) /\ IsHard(t)' = IsHard(t)
  BY <1>1 DEF HardFor, IsHard
<1>4. /\ PointsAbove(points) => PointsAbove(points)'
      /\ PointsAbove(newpoints) => PointsAbove(newpoints)'
  BY <1>1, <1>2 DEF PointsAbove
<1>5. /\ SquashAbove(new) => SquashAbove(new)'
      /\ SquashAbove(squash) => SquashAbove(squash)'
  BY <1>1, <1>2 DEF SquashAbove
<1>6. Resolved => Resolved'
  BY <1>1, <1>2, <1>3 DEF Resolved
<1>7. QED
  BY <1>1, <1>4, <1>5, <1>6 DEF GraphInv

-----------------------------------------------------------------------------
(* The initial state *)

LEMMA InitIInv == Init => IInv
<1> SUFFICES ASSUME Init PROVE IInv
  OBVIOUS
<1>1. /\ queue \in RunQueue /\ depends = queue.depends
      /\ pass = "none" /\ setscene = {} /\ harddeps = {}
      /\ state = "SceneInit" /\ pc = "init"
      /\ buildable = {} /\ running = {} /\ covered = {} /\ notcovered = {}
      /\ notneeded = {} /\ outrightfail = {} /\ launched = {}
      /\ initial_covered = {} /\ todo = {}
  BY DEF Init, GraphInit
<1>2. noexec \union stamp_setscene \union current \subseteq queue.scene
  BY DEF Init
<1>3. TypeOK
  BY <1>1, <1>2, RunQueueAssumption DEF TypeOK, Tids
<1>4. GraphInv /\ StageInv /\ Parts /\ Counters
  BY <1>1, <1>2 DEF GraphInv, StageInv, Parts, Counters
<1>5. QED
  BY <1>3, <1>4 DEF IInv

-----------------------------------------------------------------------------
(* The counters *)

\* What each method leaves of waiting, and whom it makes buildable.
LEMMA UpdateCounters ==
  ASSUME NEW done, NEW fail \in BOOLEAN, NEW ready, updatecounters(done, fail, ready),
         \A d \in setscene : /\ waiting[d] = {} => d \in buildable
                             /\ d \in buildable => d \in running \/ waiting[d] = {}
                             /\ d \in launched => waiting[d] = {},
         buildable \subseteq ready, ready \subseteq buildable \union running',
         running \subseteq running',
         NEW d \in setscene
  PROVE  /\ waiting'[d] = {u \in waiting[d] : u \in done => fail /\ HardOf(u, d)}
         /\ waiting'[d] = {} => d \in buildable'
         /\ d \in buildable' => d \in running' \/ waiting'[d] = {}
         /\ d \in launched => waiting'[d] = {}
<1> DEFINE gone(e) == {u \in done \intersect waiting[e] : ~(fail /\ HardOf(u, e))}
           rest(e) == waiting[e] \ gone(e)
<1>1. /\ waiting' = [e \in setscene |-> rest(e)]
      /\ buildable' = ready \union {e \in setscene : gone(e) # {} /\ rest(e) = {}}
  BY DEF updatecounters
<1>2. waiting'[d] = rest(d)
  BY <1>1
<1>3. rest(d) = {u \in waiting[d] : u \in done => fail /\ HardOf(u, d)}
  OBVIOUS
<1>4. ASSUME waiting'[d] = {} PROVE d \in buildable'
  <2>1. CASE gone(d) = {}
    <3>1. waiting[d] = {}
      BY <1>2, <1>4, <2>1
    <3>2. QED
      BY <1>1, <3>1
  <2>2. CASE gone(d) # {}
    BY <1>1, <1>2, <1>4, <2>2
  <2>3. QED
    BY <2>1, <2>2
<1>5. ASSUME d \in buildable' PROVE d \in running' \/ waiting'[d] = {}
  <2>1. d \in buildable \/ d \in running' \/ rest(d) = {}
    BY <1>1, <1>5
  <2>2. waiting[d] = {} => rest(d) = {}
    OBVIOUS
  <2>3. QED
    BY <1>2, <2>1, <2>2
<1>6. d \in launched => waiting'[d] = {}
  BY <1>2
<1>7. QED
  BY <1>2, <1>3, <1>4, <1>5, <1>6

\* A task is covered: the others wait for one less.
LEMMA CoveredCounts ==
  ASSUME IInv, state \notin {"SceneInit", "Running"}, NEW t \in setscene, NEW ready,
         updatecounters({t}, FALSE, ready), covered' = covered \union {t},
         UNCHANGED <<graphVars, notcovered>>,
         ready \in {buildable, buildable \union {t}}, t \in running',
         running \subseteq running', launched' \subseteq launched
  PROVE  Counters'
<1>1. setscene' = setscene /\ squash' = squash /\ harddeps' = harddeps
  BY DEF graphVars
<1>2. Failed' = Failed
  BY <1>1, FailsWithSame DEF Failed
<1>3. ASSUME NEW d \in setscene
      PROVE  /\ waiting'[d] = {u \in waiting[d] : u # t}
             /\ waiting'[d] = {} => d \in buildable'
             /\ d \in buildable' => d \in running' \/ waiting'[d] = {}
             /\ d \in launched' => waiting'[d] = {}
  <2>1. \A e \in setscene : /\ waiting[e] = {} => e \in buildable
                            /\ e \in buildable => e \in running \/ waiting[e] = {}
                            /\ e \in launched => waiting[e] = {}
    BY DEF IInv, Counters
  <2>2. buildable \subseteq ready /\ ready \subseteq buildable \union running'
    OBVIOUS
  <2>3. /\ waiting'[d] = {u \in waiting[d] : u \in {t} => FALSE /\ HardOf(u, d)}
        /\ waiting'[d] = {} => d \in buildable'
        /\ d \in buildable' => d \in running' \/ waiting'[d] = {}
        /\ d \in launched => waiting'[d] = {}
    BY <2>1, <2>2, UpdateCounters
  <2>4. QED
    BY <2>3
<1>4. ASSUME NEW d \in setscene
      PROVE  waiting'[d] = WaitingFor(d)'
  <2>1. waiting[d] = WaitingFor(d)
    BY DEF IInv, Counters
  <2>2. WaitingFor(d)' =
          {u \in squash[d] : u \notin covered' /\ (u \in Failed => HardOf(u, d))}
    BY <1>1, <1>2 DEF WaitingFor, HardOf
  <2>3. QED
    BY <1>3, <2>1, <2>2 DEF WaitingFor
<1>5. QED
  BY <1>1, <1>3, <1>4 DEF Counters

\* A task failed: what waits for it, or for what it takes down, waits for less,
\* but for those that cannot do without.
LEMMA FailedCounts ==
  ASSUME IInv, state \notin {"SceneInit", "Running"}, NEW t \in setscene, NEW ready,
         updatecounters(FailsWith(t), TRUE, ready), notcovered' = notcovered \union {t},
         UNCHANGED <<graphVars, covered>>,
         ready \in {buildable, buildable \union {t}}, t \in running',
         running \subseteq running', launched' \subseteq launched
  PROVE  Counters'
<1>1. setscene' = setscene /\ squash' = squash /\ harddeps' = harddeps
  BY DEF graphVars
<1>2. Failed' = Failed \union FailsWith(t)
  BY <1>1, FailsWithSame DEF Failed
<1>3. ASSUME NEW d \in setscene
      PROVE  /\ waiting'[d] = {u \in waiting[d] : u \in FailsWith(t) => HardOf(u, d)}
             /\ waiting'[d] = {} => d \in buildable'
             /\ d \in buildable' => d \in running' \/ waiting'[d] = {}
             /\ d \in launched' => waiting'[d] = {}
  <2>1. \A e \in setscene : /\ waiting[e] = {} => e \in buildable
                            /\ e \in buildable => e \in running \/ waiting[e] = {}
                            /\ e \in launched => waiting[e] = {}
    BY DEF IInv, Counters
  <2>2. buildable \subseteq ready /\ ready \subseteq buildable \union running'
    OBVIOUS
  <2>3. /\ waiting'[d] = {u \in waiting[d] : u \in FailsWith(t) => TRUE /\ HardOf(u, d)}
        /\ waiting'[d] = {} => d \in buildable'
        /\ d \in buildable' => d \in running' \/ waiting'[d] = {}
        /\ d \in launched => waiting'[d] = {}
    BY <2>1, <2>2, UpdateCounters
  <2>4. QED
    BY <2>3
<1>4. ASSUME NEW d \in setscene
      PROVE  waiting'[d] = WaitingFor(d)'
  <2>1. waiting[d] = WaitingFor(d)
    BY DEF IInv, Counters
  <2>2. WaitingFor(d)' =
          {u \in squash[d] : u \notin covered
                             /\ (u \in Failed \union FailsWith(t) => HardOf(u, d))}
    BY <1>1, <1>2 DEF WaitingFor, HardOf
  <2>3. QED
    BY <1>3, <2>1, <2>2 DEF WaitingFor
<1>5. QED
  BY <1>1, <1>3, <1>4 DEF Counters

-----------------------------------------------------------------------------
(* The setscene tasks *)

\* The start of the stage, with and without the hash check.
LEMMA SceneInitDoneKeeps ==
  ASSUME IInv, SceneInitDone
  PROVE  IInv'
<1>1. /\ state = "SceneInit" /\ pc = "init" /\ pass = "ready"
      /\ state' = "SceneRun" /\ pc' = "idle"
      /\ UNCHANGED <<graphVars, queueVars, notcovered, notneeded, launched, coverVars>>
  BY DEF SceneInitDone, IInv, StageInv
<1>2. /\ queue \in RunQueue /\ buildable = {} /\ running = {} /\ covered = {}
      /\ notcovered = {} /\ launched = {} /\ notneeded = {}
      /\ setscene = queue.scene /\ setscene \subseteq Tids
      /\ squash \in [setscene -> SUBSET setscene]
      /\ Stamped \subseteq setscene
  BY <1>1, GraphTyped DEF IInv, TypeOK, StageInv, GraphInv, Resolved, Stamped
<1>3. UNCHANGED <<queue, depends, setscene, squash, harddeps, pass, initial_covered, todo>>
  BY <1>1 DEF graphVars, queueVars, coverVars
<1>4. Tids' = Tids
  BY <1>3 DEF Tids
<1>5. Failed' = {}
  BY <1>1, <1>2 DEF Failed
<1>6. /\ covered' \subseteq setscene /\ running' = covered'
      /\ stamp_setscene' \subseteq queue.scene
      /\ outrightfail' \subseteq setscene
      /\ buildable' \subseteq setscene
      /\ \A d \in setscene :
           /\ waiting'[d] = squash[d] \ covered'
           /\ waiting'[d] = {} => d \in buildable'
           /\ d \in buildable' => d \in running' \/ waiting'[d] = {}
  <2>0. stamp_setscene \union noexec \subseteq queue.scene /\ outrightfail \subseteq setscene
    BY DEF IInv, GraphInv, TypeOK
  <2>1. CASE queue.hashvalidate
    <3>1. /\ covered' = Stamped /\ running' = Stamped
          /\ waiting' = [d \in setscene |-> squash[d] \ Stamped]
          /\ buildable' = {d \in setscene : squash[d] = {}} \union Stamped
                            \union {d \in setscene : waiting'[d] = {}}
          /\ stamp_setscene' = stamp_setscene \union noexec
          /\ \E valid \in SUBSET (setscene \ Stamped) :
               outrightfail' = (setscene \ Stamped) \ valid
      BY <2>1 DEF SceneInitDone
    <3>2. QED
      BY <1>2, <2>0, <3>1
  <2>2. CASE ~queue.hashvalidate
    <3>1. /\ waiting' = squash
          /\ buildable' = {d \in setscene : squash[d] = {}}
          /\ UNCHANGED <<covered, running, stamp_setscene, outrightfail>>
      BY <2>2 DEF SceneInitDone
    <3>2. QED
      BY <1>2, <2>0, <3>1
  <2>3. QED
    BY <2>1, <2>2
<1>7. TypeOK'
  BY <1>1, <1>2, <1>3, <1>4, <1>6 DEF IInv, TypeOK
<1>8. GraphInv'
  BY <1>1, <1>6, GraphKept DEF IInv
<1>9. StageInv'
  BY <1>1, <1>2, <1>3, <1>6 DEF StageInv
<1>10. Parts'
  BY <1>1, <1>2, <1>6 DEF Parts
<1>11. Counters'
  <2>1. ASSUME NEW d \in setscene PROVE WaitingFor(d)' = squash[d] \ covered'
    BY <1>3, <1>5 DEF WaitingFor
  <2>2. QED
    BY <1>1, <1>2, <1>3, <1>6, <2>1 DEF Counters
<1>12. QED
  BY <1>7, <1>8, <1>9, <1>10, <1>11 DEF IInv

\* The variables of a step on one setscene task.
LEMMA TaskStepKeeps ==
  ASSUME IInv, state \in {"SceneRun", "CleanUp"},
         UNCHANGED <<graphVars, queueVars, outrightfail, coverVars>>,
         stamp_setscene' \subseteq queue.scene,
         state' \in {state, "CleanUp"}, pc' \in {pc, "idle", "reading"}, pc \in {"execute", "reading"},
         running' \subseteq setscene, buildable' \subseteq setscene,
         covered \subseteq covered', notcovered' \subseteq setscene,
         notneeded' \subseteq covered',
         Parts', Counters'
  PROVE  IInv'
<1>1. UNCHANGED <<queue, depends, setscene, pass, initial_covered, todo>>
  BY DEF graphVars, queueVars, coverVars
<1>2. Tids' = Tids
  BY <1>1 DEF Tids
<1>3. /\ running' = covered' \union notcovered' \union launched'
      /\ state' \in {"SceneRun", "CleanUp"}
  BY DEF Parts
<1>4. setscene \subseteq Tids /\ queue.scene \subseteq Tids
  BY RunQueueAssumption, GraphTyped DEF IInv, TypeOK, GraphInv, Tids
<1>5. TypeOK'
  BY <1>1, <1>2, <1>3, <1>4 DEF IInv, TypeOK
<1>6. GraphInv'
  BY GraphKept DEF IInv
<1>7. StageInv'
  BY <1>1, <1>3 DEF IInv, StageInv
<1>8. QED
  BY <1>5, <1>6, <1>7 DEF IInv

\* updatecounters makes setscene tasks buildable only.
LEMMA UpdateType ==
  ASSUME NEW done, NEW fail, NEW ready, updatecounters(done, fail, ready),
         ready \subseteq setscene
  PROVE  buildable' \subseteq setscene
BY DEF updatecounters

LEMMA ProcessWaitpidKeeps ==
  ASSUME IInv, NEW t \in setscene, ProcessWaitpid(t)
  PROVE  IInv'
<1>1. /\ pc \in {"execute", "reading"} /\ t \in launched
      /\ launched' = launched \ {t} /\ pc' = pc
      /\ UNCHANGED <<graphVars, queueVars, stamp_setscene, running, notneeded,
                     outrightfail, coverVars>>
  BY DEF ProcessWaitpid
<1>2. /\ state \in {"SceneRun", "CleanUp"}
      /\ running = covered \union notcovered \union launched
      /\ covered \intersect notcovered = {}
      /\ launched \intersect (covered \union notcovered) = {}
      /\ t \in running /\ running \subseteq setscene /\ buildable \subseteq setscene
      /\ stamp_setscene \subseteq queue.scene /\ notneeded \subseteq covered
  BY <1>1 DEF IInv, StageInv, Parts, TypeOK, GraphInv
<1>3. CASE task_complete(t)
  <2>1. /\ covered' = covered \union {t} /\ UNCHANGED <<notcovered, state>>
        /\ updatecounters({t}, FALSE, buildable)
    BY <1>3 DEF task_complete
  <2>2. Counters'
    BY <1>1, <1>2, <2>1, CoveredCounts
  <2>3. Parts' /\ buildable' \subseteq setscene
    BY <1>1, <1>2, <2>1, UpdateType DEF Parts
  <2>4. QED
    BY <1>1, <1>2, <2>1, <2>2, <2>3, TaskStepKeeps
<1>4. CASE task_fail(t)
  <2>1. /\ notcovered' = notcovered \union {t} /\ covered' = covered
        /\ state' \in {state, "CleanUp"}
        /\ updatecounters(FailsWith(t), TRUE, buildable)
    BY <1>4 DEF task_fail
  <2>2. Counters'
    BY <1>1, <1>2, <2>1, FailedCounts
  <2>3. Parts' /\ buildable' \subseteq setscene
    BY <1>1, <1>2, <2>1, UpdateType DEF Parts
  <2>4. QED
    BY <1>1, <1>2, <2>1, <2>2, <2>3, TaskStepKeeps
<1>5. QED
  BY <1>3, <1>4 DEF ProcessWaitpid

\* What the loop may pick waits for nothing and was not tried.
LEMMA CandidateFacts ==
  ASSUME IInv, pc = "execute", NEW t \in setscene, t \in Candidates
  PROVE  /\ t \notin running /\ t \notin covered /\ t \notin notcovered
         /\ t \notin launched /\ waiting[t] = {}
         /\ state \in {"SceneRun", "CleanUp"}
<1>1. t \in buildable /\ t \notin running
  BY DEF Candidates
<1>2. state \in {"SceneRun", "CleanUp"}
  BY DEF IInv, StageInv
<1>3. QED
  BY <1>1, <1>2 DEF IInv, Parts, Counters

LEMMA ExecuteTaskKeeps ==
  ASSUME IInv, NEW t \in setscene, ExecuteTask(t)
  PROVE  IInv'
<1>1. /\ pc = "execute" /\ t \in Candidates /\ pc' \in {"idle", "reading"}
      /\ UNCHANGED <<graphVars, queueVars, outrightfail, exitcode, coverVars>>
  BY DEF ExecuteTask
<1>2. /\ t \notin running /\ t \notin covered /\ t \notin notcovered
      /\ t \notin launched /\ waiting[t] = {} /\ state \in {"SceneRun", "CleanUp"}
  BY <1>1, CandidateFacts
<1>3. /\ running = covered \union notcovered \union launched
      /\ covered \intersect notcovered = {}
      /\ launched \intersect (covered \union notcovered) = {}
      /\ running \subseteq setscene /\ buildable \subseteq setscene
      /\ stamp_setscene \subseteq queue.scene /\ notneeded \subseteq covered
      /\ notcovered \subseteq setscene
  BY <1>2 DEF IInv, StageInv, Parts, TypeOK, GraphInv
<1>4. CASE task_skip(t) /\ UNCHANGED <<stamp_setscene, state>>
             /\ notneeded' \subseteq notneeded \union {t}
  <2>1. /\ running' = running \union {t} /\ covered' = covered \union {t}
        /\ UNCHANGED <<notcovered, launched>>
        /\ updatecounters({t}, FALSE, buildable \union {t})
    BY <1>4 DEF task_skip
  <2>2. Counters'
    BY <1>1, <1>2, <2>1, CoveredCounts
  <2>3. Parts' /\ buildable' \subseteq setscene
    BY <1>2, <1>3, <2>1, UpdateType DEF Parts
  <2>4. QED
    BY <1>1, <1>2, <1>3, <1>4, <2>1, <2>2, <2>3, TaskStepKeeps
<1>5. CASE ExecuteFailOutright(t)
  <2>1. /\ running' = running \union {t} /\ notcovered' = notcovered \union {t}
        /\ UNCHANGED <<covered, launched, stamp_setscene, state, notneeded>>
        /\ updatecounters(FailsWith(t), TRUE, buildable \union {t})
    BY <1>5 DEF ExecuteFailOutright, task_failoutright
  <2>2. Counters'
    BY <1>1, <1>2, <2>1, FailedCounts
  <2>3. Parts' /\ buildable' \subseteq setscene
    BY <1>2, <1>3, <2>1, UpdateType DEF Parts
  <2>4. QED
    BY <1>1, <1>2, <1>3, <2>1, <2>2, <2>3, TaskStepKeeps
<1>6. CASE ExecuteLaunch(t)
  <2>1. /\ running' = running \union {t} /\ launched' = launched \union {t}
        /\ UNCHANGED <<buildable, waiting, covered, notcovered, notneeded,
                       stamp_setscene, state>>
    BY <1>6 DEF ExecuteLaunch
  <2>2. \A d \in setscene : WaitingFor(d)' = WaitingFor(d)
    <3>1. UNCHANGED <<setscene, harddeps, squash>>
      BY <1>1 DEF graphVars
    <3>2. Failed' = Failed
      BY <2>1, <3>1, FailsWithSame DEF Failed
    <3>3. QED
      BY <2>1, <3>1, <3>2 DEF WaitingFor, HardOf
  <2>3. Counters'
    BY <1>1, <1>2, <2>1, <2>2 DEF IInv, Counters, graphVars
  <2>4. Parts'
    BY <1>2, <1>3, <2>1 DEF Parts
  <2>5. QED
    BY <1>1, <1>2, <1>3, <2>1, <2>3, <2>4, TaskStepKeeps
<1>7. QED
  BY <1>4, <1>5, <1>6 DEF ExecuteTask, ExecuteSkipNotNeeded, ExecuteSkipStamped

-----------------------------------------------------------------------------
(* The other steps *)

\* Steps between the passes and the coverage that try, end and skip no task.
LEMMA QuietKeeps ==
  ASSUME IInv, state \notin {"SceneInit", "Running"},
         state' \in {"SceneRun", "CleanUp", "RunInit", "Complete"},
         pc' \in {"idle", "execute", "reading"},
         UNCHANGED <<graphVars, queueVars, setVars, outrightfail, coverVars>>,
         stamp_setscene' \subseteq queue.scene,
         StageInv'
  PROVE  IInv'
<1>1. UNCHANGED <<queue, depends, setscene, harddeps, squash, buildable, running, waiting,
                  covered, notcovered, notneeded, launched, initial_covered, todo>>
  BY DEF graphVars, queueVars, setVars, coverVars
<1>2. Tids' = Tids /\ queue.scene \subseteq Tids
  BY <1>1, RunQueueAssumption DEF Tids, IInv, TypeOK, GraphInv
<1>3. TypeOK'
  BY <1>1, <1>2 DEF IInv, TypeOK
<1>4. GraphInv'
  BY GraphKept DEF IInv
<1>5. Parts'
  BY <1>1 DEF IInv, Parts
<1>6. \A d \in setscene : WaitingFor(d)' = WaitingFor(d)
  <2>1. Failed' = Failed
    BY <1>1, FailsWithSame DEF Failed
  <2>2. QED
    BY <1>1, <2>1 DEF WaitingFor, HardOf
<1>7. Counters'
  BY <1>1, <1>6 DEF IInv, Counters
<1>8. QED
  BY <1>3, <1>4, <1>5, <1>7 DEF IInv

\* Steps of execute(), finish() and the workers that try, end and skip no task.
LEMMA QuietSteps ==
  ASSUME IInv,
         \/ ExecuteBegin \/ ExecuteWait \/ ReadingEnd \/ ExecuteFinished
         \/ Finish \/ finish_now
  PROVE  IInv'
<1>1. /\ UNCHANGED <<graphVars, queueVars, setVars, outrightfail, coverVars>>
      /\ UNCHANGED <<stamp_setscene>>
  BY DEF ExecuteBegin, ExecuteWait, ReadingEnd, ExecuteFinished, Finish, finish_now
<1>2. UNCHANGED <<pass, setscene, buildable, running, covered, notcovered, notneeded,
                  launched, initial_covered>>
  BY <1>1 DEF graphVars, setVars, coverVars
<1>3. /\ state \in {"SceneRun", "CleanUp"}
      /\ state' \in {"SceneRun", "CleanUp", "RunInit", "Complete"}
      /\ pc' \in {"idle", "execute", "reading"}
      /\ state' \in {"SceneRun", "CleanUp"} \/ pc' = "idle"
      /\ state' = "RunInit" => launched = {} /\ Candidates = {}
  BY DEF IInv, StageInv, ExecuteBegin, ExecuteWait, ReadingEnd, ExecuteFinished, Finish,
         finish_now
<1>4. state' = "RunInit" => buildable \subseteq running
  <2>1. SUFFICES ASSUME launched = {}, Candidates = {} PROVE buildable \subseteq running
    BY <1>3
  <2>2. Cardinality(launched) < NumberTasks
    BY <2>1, FS_EmptySet, RunQueueAssumption
  <2>3. QED
    BY <2>1, <2>2 DEF Candidates
<1>5. StageInv'
  BY <1>2, <1>3, <1>4 DEF IInv, StageInv
<1>6. stamp_setscene' \subseteq queue.scene
  BY <1>1 DEF IInv, GraphInv
<1>7. QED
  BY <1>1, <1>3, <1>5, <1>6, QuietKeeps

LEMMA WorkerEndsKeeps ==
  ASSUME IInv, NEW t \in setscene, NEW code, WorkerEnds(t, code)
  PROVE  IInv'
<1>1. /\ t \in launched
      /\ stamp_setscene' \subseteq stamp_setscene \union {t}
      /\ UNCHANGED <<graphVars, queueVars, state, pc, setVars, outrightfail, coverVars>>
  BY DEF WorkerEnds
<1>2. UNCHANGED <<pass, setscene, buildable, running, covered, notcovered, notneeded,
                  launched, initial_covered>>
  BY <1>1 DEF graphVars, setVars, coverVars
<1>3. state \in {"SceneRun", "CleanUp", "Complete"} /\ pc \in {"idle", "execute", "reading"}
  BY <1>1 DEF IInv, StageInv, TypeOK
<1>4. StageInv'
  BY <1>1, <1>2 DEF IInv, StageInv
<1>5. stamp_setscene' \subseteq queue.scene
  BY <1>1 DEF IInv, GraphInv
<1>6. QED
  BY <1>1, <1>3, <1>4, <1>5, QuietKeeps

\* __init__, before anything is tried.
LEMMA GraphSteps ==
  ASSUME IInv, Begin \/ Collapse
  PROVE  IInv'
<1>1. /\ UNCHANGED <<queueVars, stamp_setscene, state, pc, setVars, outrightfail, coverVars>>
      /\ UNCHANGED depends /\ pass # "ready"
      /\ setscene' \in {setscene, queue.scene} /\ pass' # "none"
  BY DEF IInv, GraphInv, Begin, Collapse, GraphStart, GraphNext, ProcessEndpoint, SquashDone,
         UnskippableDone, ResolveHardDeps
<1>2. UNCHANGED <<queue, buildable, running, covered, notcovered, notneeded, launched,
                  initial_covered, todo>>
  BY <1>1 DEF queueVars, setVars, coverVars
<1>3. GraphInv'
  BY BeginGraph, CollapseGraph DEF IInv, TypeOK
<1>4. pass # "none" \/ state = "SceneInit"
  BY DEF IInv, Begin, Collapse, GraphNext, ProcessEndpoint, SquashDone, UnskippableDone,
         ResolveHardDeps
<1>5. state = "SceneInit"
  BY <1>1, <1>4 DEF IInv, StageInv
<1>6. /\ buildable = {} /\ running = {} /\ covered = {} /\ notcovered = {} /\ launched = {}
      /\ setscene \subseteq setscene'
  BY <1>1, <1>5 DEF IInv, StageInv, GraphInv
<1>7. Tids' = Tids
  BY <1>1 DEF Tids
<1>8. TypeOK'
  BY <1>1, <1>2, <1>6, <1>7 DEF IInv, TypeOK
<1>9. StageInv' /\ Parts' /\ Counters'
  BY <1>1, <1>2, <1>5, <1>6 DEF IInv, StageInv, Parts, Counters
<1>10. QED
  BY <1>3, <1>8, <1>9 DEF IInv

LEMMA BeginNoneKeeps ==
  ASSUME IInv, BeginNone
  PROVE  IInv'
<1>1. /\ state = "SceneInit" /\ queue.scene = {} /\ state' = "RunInit" /\ pc' = "idle"
      /\ UNCHANGED <<graphVars, queueVars, stamp_setscene, setVars, outrightfail, coverVars>>
  BY DEF BeginNone
<1>2. UNCHANGED <<queue, depends, pass, setscene, buildable, running, covered, notcovered,
                  notneeded, launched, initial_covered, todo>>
  BY <1>1 DEF graphVars, queueVars, setVars, coverVars
<1>3. pass = "none" /\ setscene = {}
  BY <1>1 DEF IInv, GraphInv
<1>4. buildable = {} /\ running = {} /\ covered = {} /\ notcovered = {} /\ launched = {}
  BY <1>1 DEF IInv, StageInv
<1>5. GraphInv'
  BY <1>1, GraphKept DEF IInv, GraphInv
<1>6. Tids' = Tids
  BY <1>2 DEF Tids
<1>7. TypeOK'
  BY <1>1, <1>2, <1>6 DEF IInv, TypeOK
<1>8. StageInv' /\ Parts' /\ Counters'
  BY <1>1, <1>2, <1>3, <1>4 DEF IInv, StageInv, Parts, Counters
<1>9. QED
  BY <1>5, <1>7, <1>8 DEF IInv

\* RunQueueExecuteTasks.__init__: the coverage spreads, and shrinks again.
LEMMA CoverageKeeps ==
  ASSUME IInv,
         \/ RunInit \/ CoverAll \/ Verify \/ RemoveLevel
         \/ \E t \in Tids : CoverOne(t)
  PROVE  IInv'
<1>1. /\ state' = "Running" /\ pc' \in {"cover", "verify", "remove", "end"}
      /\ UNCHANGED <<graphVars, queueVars, buildable, running, notcovered, notneeded, launched,
                     outrightfail>>
      /\ stamp_setscene' \subseteq stamp_setscene
      /\ state \in {"RunInit", "Running"}
  BY DEF IInv, StageInv, RunInit, CoverAll, Verify, RemoveLevel, CoverOne, setVars
<1>2. UNCHANGED <<queue, depends, pass, setscene>>
  BY <1>1 DEF graphVars, queueVars
<1>3. Tids' = Tids /\ setscene \subseteq Tids
  BY <1>2, GraphTyped DEF Tids, IInv, TypeOK
<1>4. launched = {} /\ pass \in {"none", "ready"}
  BY <1>1 DEF IInv, StageInv
<1>5. /\ covered' \subseteq Tids /\ todo' \subseteq Tids
      /\ initial_covered' \subseteq setscene
      /\ notneeded \subseteq initial_covered'
  <2>1. CASE RunInit
    BY <2>1, <1>3 DEF IInv, TypeOK, StageInv, RunInit, setVars
  <2>2. CASE CoverAll
    <3>1. covered' = CoverRest(covered) /\ UNCHANGED <<initial_covered, todo>>
          /\ state = "Running"
      BY <2>2 DEF CoverAll, coverVars, IInv, StageInv
    <3>2. CoverRest(covered) \subseteq Tids
      BY DEF CoverRest
    <3>3. QED
      BY <3>1, <3>2 DEF IInv, TypeOK, StageInv
  <2>3. CASE Verify
    BY <2>3, <1>3 DEF IInv, TypeOK, StageInv, Verify, setVars
  <2>4. CASE RemoveLevel
    <3>1. covered' = covered \ todo /\ todo' = UNION {ToRunToo(t) : t \in todo}
          /\ initial_covered' = initial_covered /\ state = "Running"
      BY <2>4 DEF RemoveLevel, IInv, StageInv
    <3>2. \A t \in todo : ToRunToo(t) \subseteq covered
      BY DEF ToRunToo
    <3>3. QED
      BY <3>1, <3>2 DEF IInv, TypeOK, StageInv
  <2>5. ASSUME NEW t \in Tids, CoverOne(t)
        PROVE  /\ covered' \subseteq Tids /\ todo' \subseteq Tids
               /\ initial_covered' \subseteq setscene
               /\ notneeded \subseteq initial_covered'
    <3>1. covered' \subseteq covered \union {t} /\ todo' = todo \ {t}
          /\ initial_covered' = initial_covered /\ state = "Running"
      BY <2>5 DEF CoverOne, IInv, StageInv
    <3>2. QED
      BY <3>1 DEF IInv, TypeOK, StageInv
  <2>6. QED
    BY <2>1, <2>2, <2>3, <2>4, <2>5
<1>6. TypeOK'
  BY <1>1, <1>2, <1>3, <1>5 DEF IInv, TypeOK
<1>7. GraphInv'
  BY <1>1, GraphKept DEF IInv, GraphInv
<1>8. StageInv'
  BY <1>1, <1>2, <1>4, <1>5 DEF StageInv
<1>9. Parts' /\ Counters'
  BY <1>1 DEF Parts, Counters
<1>10. QED
  BY <1>6, <1>7, <1>8, <1>9 DEF IInv

\* Every step keeps the invariant.
LEMMA NextIInv == IInv /\ [Next]_vars => IInv'
<1> SUFFICES ASSUME IInv, [Next]_vars PROVE IInv'
  OBVIOUS
<1>1. CASE Begin \/ Collapse
  BY <1>1, GraphSteps
<1>2. CASE BeginNone
  BY <1>2, BeginNoneKeeps
<1>3. CASE SceneInitDone
  BY <1>3, SceneInitDoneKeeps
<1>4. CASE \/ ExecuteBegin \/ ExecuteWait \/ ReadingEnd \/ ExecuteFinished
           \/ Finish \/ finish_now
  BY <1>4, QuietSteps
<1>5. ASSUME NEW t \in setscene, ProcessWaitpid(t) PROVE IInv'
  BY <1>5, ProcessWaitpidKeeps
<1>6. ASSUME NEW t \in setscene, ExecuteTask(t) PROVE IInv'
  BY <1>6, ExecuteTaskKeeps
<1>7. ASSUME NEW t \in setscene, NEW code \in {"ok", "failed"}, WorkerEnds(t, code)
      PROVE  IInv'
  BY <1>7, WorkerEndsKeeps
<1>8. CASE \/ RunInit \/ CoverAll \/ Verify \/ RemoveLevel
           \/ \E t \in Tids : CoverOne(t)
  BY <1>8, CoverageKeeps
<1>9. CASE UNCHANGED vars
  <2>1. UNCHANGED <<graphVars, queueVars, stamp_setscene, state, pc, setVars, outrightfail,
                    coverVars>>
    BY <1>9 DEF vars
  <2>2. QED
    BY <2>1 DEF graphVars, queueVars, setVars, coverVars, IInv, TypeOK, GraphInv, StageInv,
                Parts, Counters, Tids, PointsAbove, SquashAbove, Above, RevDepsOf, Resolved,
                HardFor, IsHard, WaitingFor, Failed, FailsWith, HardClosed, HardOf
<1>10. QED
  BY <1>1, <1>2, <1>3, <1>4, <1>5, <1>6, <1>7, <1>8, <1>9 DEF Next

\* The variables hold what the code's sets and dictionaries hold.
THEOREM TypeCorrect == Spec => []TypeOK
<1>1. IInv => TypeOK
  BY DEF IInv
<1>2. QED
  BY <1>1, InitIInv, NextIInv, PTL DEF Spec

-----------------------------------------------------------------------------
(* No setscene task is lost *)

\* Whoever is not decided waits for another that is not decided.
LEMMA UndecidedWaits ==
  ASSUME IInv, state = "RunInit", NEW d \in setscene \ Decided
  PROVE  \E u \in setscene \ Decided : u \in squash[d]
<1>1. running = covered \union notcovered /\ buildable \subseteq running
  BY DEF IInv, Parts, StageInv
<1>2. d \notin running /\ d \notin Failed
  BY <1>1 DEF Decided, HardFailed
<1>3. waiting[d] # {} /\ waiting[d] = WaitingFor(d)
  BY <1>1, <1>2 DEF IInv, Counters
<1>4. PICK u \in squash[d] : u \notin covered /\ (u \in Failed => HardOf(u, d))
  BY <1>3 DEF WaitingFor
<1>5. harddeps \subseteq setscene \X setscene /\ squash \in [setscene -> SUBSET setscene]
  BY GraphTyped DEF IInv, TypeOK, StageInv, GraphInv, Resolved
<1>6. u \in setscene
  BY <1>4, <1>5
<1>7. u \notin Failed
  <2>1. SUFFICES ASSUME u \in Failed PROVE FALSE
    OBVIOUS
  <2>2. PICK t \in notcovered : u \in FailsWith(t)
    BY <2>1 DEF Failed
  <2>3. t \in setscene /\ HardOf(u, d)
    BY <1>4, <2>1, <2>2 DEF IInv, TypeOK
  <2>4. d \in FailsWith(t)
    BY <1>5, <2>2, <2>3, FailsWithClosed
  <2>5. QED
    BY <1>2, <2>2, <2>4 DEF Failed
<1>8. u \notin notcovered
  <2>1. u \in FailsWith(u)
    BY <1>5, <1>6, FailsWithClosed
  <2>2. QED
    BY <1>7, <2>1 DEF Failed
<1>9. QED
  BY <1>4, <1>6, <1>7, <1>8 DEF Decided, HardFailed

\* So there is none: hard dependencies wait for hard dependencies only, the
\* others for what is above them, and neither goes round in a circle.
LEMMA HandsOver ==
  ASSUME IInv
  PROVE  AllDecided
<1>1. SUFFICES ASSUME state = "RunInit" PROVE setscene \subseteq Decided
  BY DEF AllDecided, IInv, Parts, StageInv
<1> DEFINE U == setscene \ Decided
           H == {d \in U : IsHard(d)}
<1>2. SUFFICES ASSUME U # {} PROVE FALSE
  OBVIOUS
<1>3. /\ queue \in RunQueue /\ setscene \subseteq Tids /\ Resolved
      /\ harddeps = queue.hard /\ setscene = queue.scene
      /\ harddeps \subseteq setscene \X setscene
  BY <1>1, <1>2, GraphTyped DEF IInv, TypeOK, StageInv, GraphInv
<1>4. \A d \in U : \E u \in U : u \in squash[d]
  BY <1>1, UndecidedWaits
<1>5. \A d \in setscene : \A u \in HardFor(d) : HardOf(u, d) /\ IsHard(u)
  <2>1. SUFFICES ASSUME NEW d \in setscene, NEW u \in HardFor(d)
                 PROVE  HardOf(u, d) /\ IsHard(u)
    OBVIOUS
  <2>2. HardOf(u, d)
    BY <1>3, <2>1, HardForOf
  <2>3. <<u, d>>[1] = u
    OBVIOUS
  <2>4. QED
    BY <2>2, <2>3 DEF HardOf, IsHard
<1>6. H = {}
  <2>1. SUFFICES ASSUME H # {} PROVE FALSE
    OBVIOUS
  <2>2. PICK d \in H : \A u \in H : <<u, d>> \notin queue.hard
    <3>1. H \in SUBSET queue.scene
      BY <1>3
    <3>2. QED
      <4> HIDE DEF H
      <4> QED
        BY <1>3, <2>1, <3>1, RunQueueAssumption
  <2>3. PICK u \in U : u \in squash[d]
    BY <1>4
  <2>4. u \in HardFor(d)
    BY <1>3, <2>3 DEF Resolved
  <2>5. QED
    BY <1>3, <1>5, <2>2, <2>3, <2>4 DEF HardOf
<1>7. PICK d \in U : Above(d) \intersect U = {}
  <2>1. U \in SUBSET Tids
    BY <1>3
  <2>2. QED
    <3> HIDE DEF U
    <3> QED
      BY <1>2, <1>3, <2>1, NoCircle DEF IInv
<1>8. PICK u \in U : u \in squash[d]
  BY <1>4
<1>9. u \notin HardFor(d)
  BY <1>5, <1>6
<1>10. u \in Above(d)
  BY <1>3, <1>8, <1>9 DEF Resolved
<1>11. QED
  BY <1>7, <1>8, <1>10

\* When the stage hands over to the task queue, every setscene task is covered,
\* not covered, or taken down with a hard dependency that failed; and one of
\* these only (RunQueueExecuteScenequeue.execute, scenequeue_updatecounters).
THEOREM AllDecidedHolds == Spec => []AllDecided
<1>1. IInv => AllDecided
  BY HandsOver
<1>2. QED
  BY <1>1, InitIInv, NextIInv, PTL DEF Spec

-----------------------------------------------------------------------------
(* The order of the setscene tasks *)

\* What waits for nothing has its hard dependencies, and waits for nothing that
\* could still be obtained.
LEMMA NothingAwaited ==
  ASSUME IInv, state \notin {"SceneInit", "Running"}, NEW t \in setscene,
         waiting[t] = {}
  PROVE  HardFor(t) \subseteq covered /\ squash[t] \subseteq covered \union Failed
<1>1. pass = "ready" /\ Resolved /\ harddeps \subseteq setscene \X setscene
  BY GraphTyped DEF IInv, TypeOK, StageInv, GraphInv
<1>2. \A u \in squash[t] : u \in covered \/ (u \in Failed /\ ~HardOf(u, t))
  BY DEF IInv, Counters, WaitingFor
<1>3. \A u \in HardFor(t) : u \in squash[t] /\ HardOf(u, t)
  BY <1>1, HardForOf DEF Resolved
<1>4. QED
  BY <1>2, <1>3

LEMMA LaunchedFacts ==
  ASSUME IInv, NEW t \in launched
  PROVE  /\ t \in setscene /\ state \notin {"SceneInit", "Running"}
         /\ waiting[t] = {} /\ t \notin covered /\ t \notin notcovered
         /\ harddeps \subseteq setscene \X setscene
BY GraphTyped DEF IInv, TypeOK, StageInv, Parts, Counters

\* No setscene task is given to a worker before every setscene task its own
\* [depends] names is there, whether the hash check skipped some of them or not
\* (ResolveHardDeps in __init__, process_failures in scenequeue_updatecounters).
HardDepsObtained == \A t \in launched : HardFor(t) \subseteq covered

THEOREM HardDepsObtainedHolds == Spec => []HardDepsObtained
<1>1. IInv => HardDepsObtained
  BY LaunchedFacts, NothingAwaited DEF HardDepsObtained
<1>2. QED
  BY <1>1, InitIInv, NextIInv, PTL DEF Spec

LEMMA InitHardDepsFirst == Init => HardDepsFirst
BY DEF Init, HardDepsFirst

\* What a step newly tries has its hard dependencies.
LEMMA HardDepsFirstKept ==
  ASSUME HardDepsFirst, UNCHANGED <<graphVars, queueVars>>, covered \subseteq covered',
         state # "Running",
         \A u \in (covered' \union launched') \ (covered \union launched) :
           HardFor(u) \subseteq covered
  PROVE  HardDepsFirst'
<1>1. queue' = queue /\ \A u : HardFor(u)' = HardFor(u)
  BY DEF graphVars, queueVars, HardFor
<1>2. QED
  BY <1>1 DEF HardDepsFirst

LEMMA NextHardDepsFirst == IInv /\ HardDepsFirst /\ [Next]_vars => HardDepsFirst'
<1> SUFFICES ASSUME IInv, HardDepsFirst, [Next]_vars PROVE HardDepsFirst'
  OBVIOUS
<1>1. CASE Begin \/ Collapse
  <2>1. state = "SceneInit" /\ UNCHANGED <<covered, launched>>
    BY <1>1 DEF Begin, Collapse, setVars, IInv, StageInv, GraphInv, GraphNext, ProcessEndpoint,
                SquashDone, UnskippableDone, ResolveHardDeps
  <2>2. covered' = {} /\ launched' = {}
    BY <2>1 DEF IInv, StageInv
  <2>3. QED
    BY <2>2 DEF HardDepsFirst
<1>2. CASE SceneInitDone
  <2>1. /\ state = "SceneInit" /\ launched' = launched /\ queue' = queue
        /\ queue.hashvalidate \/ covered' = covered
    BY <1>2 DEF SceneInitDone, queueVars
  <2>2. QED
    BY <2>1 DEF HardDepsFirst, IInv, StageInv
<1>3. CASE \/ BeginNone \/ ExecuteBegin \/ ExecuteWait \/ ReadingEnd \/ ExecuteFinished
           \/ Finish \/ finish_now
  <2>1. UNCHANGED <<graphVars, queueVars, setVars>> /\ state # "Running"
    BY <1>3 DEF BeginNone, ExecuteBegin, ExecuteWait, ReadingEnd, ExecuteFinished, Finish,
                finish_now, IInv, StageInv
  <2>2. QED
    BY <2>1, HardDepsFirstKept DEF setVars
<1>4. ASSUME NEW t \in setscene, NEW code \in {"ok", "failed"}, WorkerEnds(t, code)
      PROVE  HardDepsFirst'
  <2>1. UNCHANGED <<graphVars, queueVars, setVars>> /\ state # "Running"
    BY <1>4, LaunchedFacts DEF WorkerEnds
  <2>2. QED
    BY <2>1, HardDepsFirstKept DEF setVars
<1>5. ASSUME NEW t \in setscene, ProcessWaitpid(t) PROVE HardDepsFirst'
  <2>1. /\ UNCHANGED <<graphVars, queueVars>> /\ t \in launched
        /\ launched' = launched \ {t} /\ covered' \in {covered, covered \union {t}}
    BY <1>5 DEF ProcessWaitpid, task_complete, task_fail
  <2>2. state # "Running"
    BY <2>1, LaunchedFacts
  <2>3. QED
    BY <2>1, <2>2, HardDepsFirstKept
<1>6. ASSUME NEW t \in setscene, ExecuteTask(t) PROVE HardDepsFirst'
  <2>1. /\ UNCHANGED <<graphVars, queueVars>> /\ pc = "execute" /\ t \in Candidates
        /\ launched' \in {launched, launched \union {t}}
        /\ covered' \in {covered, covered \union {t}}
    BY <1>6 DEF ExecuteTask, ExecuteSkipNotNeeded, ExecuteFailOutright, ExecuteSkipStamped,
                ExecuteLaunch, task_skip, task_failoutright
  <2>2. waiting[t] = {} /\ state \in {"SceneRun", "CleanUp"}
    BY <2>1, CandidateFacts
  <2>3. HardFor(t) \subseteq covered
    BY <2>2, NothingAwaited
  <2>4. QED
    BY <2>1, <2>2, <2>3, HardDepsFirstKept
<1>7. CASE \/ RunInit \/ CoverAll \/ Verify \/ RemoveLevel
           \/ \E t \in Tids : CoverOne(t)
  <2>1. state' = "Running"
    BY <1>7 DEF IInv, StageInv, RunInit, CoverAll, Verify, RemoveLevel, CoverOne
  <2>2. QED
    BY <2>1 DEF HardDepsFirst
<1>8. CASE UNCHANGED vars
  <2>1. UNCHANGED <<graphVars, queueVars, state, setVars>>
    BY <1>8 DEF vars
  <2>2. state # "Running" => HardDepsFirst'
    BY <2>1, HardDepsFirstKept DEF setVars
  <2>3. QED
    BY <2>1, <2>2 DEF HardDepsFirst
<1>9. QED
  BY <1>1, <1>2, <1>3, <1>4, <1>5, <1>6, <1>7, <1>8 DEF Next

\* No failure takes down a task that is with a worker.
LEMMA FailuresApart ==
  ASSUME NoHardChains, IInv, HardDepsFirst, NEW u \in launched
  PROVE  u \notin Failed
<1>1. SUFFICES ASSUME NEW f \in notcovered, u \in FailsWith(f) PROVE FALSE
  BY DEF Failed
<1>2. /\ u \in setscene /\ state \notin {"SceneInit", "Running"} /\ waiting[u] = {}
      /\ u \notin notcovered /\ harddeps \subseteq setscene \X setscene
  BY LaunchedFacts
<1>3. f \in setscene /\ u # f /\ f \notin covered /\ f \notin launched
  BY <1>1, <1>2 DEF IInv, TypeOK, Parts
<1>4. HardFor(u) \subseteq covered
  BY <1>2, NothingAwaited
<1>5. CASE ~queue.hashvalidate
  <2> DEFINE S == setscene \ (covered \union launched)
  <2>1. S \in SUBSET setscene /\ f \in S
    BY <1>3
  <2>2. ASSUME NEW v, NEW w, v \in S, HardOf(v, w) PROVE w \in S
    <3>1. <<v, w>> \in harddeps /\ w \in setscene
      BY <1>2, <2>2 DEF HardOf
    <3>2. v \in HardFor(w)
      BY <1>2, <2>2, HardForOf
    <3>3. w \in covered \union launched => v \in covered
      BY <1>2, <1>5, <3>2 DEF HardDepsFirst
    <3>4. QED
      BY <2>2, <3>1, <3>3
  <2>3. FailsWith(f) \subseteq S
    <3> HIDE DEF S
    <3> QED
      BY <1>2, <2>1, <2>2, FailsWithLeast
  <2>4. QED
    BY <1>1, <2>3
<1>6. CASE queue.hashvalidate
  <2>1. PICK v \in FailsWith(f) : HardOf(v, u)
    BY <1>1, <1>2, <1>3, FailsWithCause
  <2>2. v # f
    BY <1>2, <1>3, <1>4, <2>1, HardForOf
  <2>3. PICK w \in FailsWith(f) : HardOf(w, v)
    BY <1>2, <1>3, <2>1, <2>2, FailsWithCause
  <2>4. <<w, v>> \in queue.hard /\ <<v, u>> \in queue.hard
    BY <2>1, <2>3 DEF HardOf, IInv, GraphInv
  <2>5. <<w, v>>[2] = v /\ <<v, u>>[1] = v /\ queue \in RunQueue
    BY DEF IInv, TypeOK
  <2>6. QED
    BY <1>6, <2>4, <2>5 DEF NoHardChains, Unchained
<1>7. QED
  BY <1>5, <1>6

LEMMA LaunchOrderIn ==
  ASSUME NoHardChains, IInv, HardDepsFirst
  PROVE  LaunchOrder
<1> SUFFICES ASSUME NEW t \in launched
             PROVE  squash[t] \subseteq Decided /\ HardFor(t) \subseteq covered
  BY DEF LaunchOrder
<1>1. /\ t \in setscene /\ state \notin {"SceneInit", "Running"} /\ waiting[t] = {}
  BY LaunchedFacts
<1>2. HardFor(t) \subseteq covered /\ squash[t] \subseteq covered \union Failed
  BY <1>1, NothingAwaited
<1>3. running = covered \union notcovered \union launched
  BY <1>1 DEF IInv, Parts
<1>4. \A u \in Failed : u \notin launched
  BY FailuresApart
<1>5. QED
  BY <1>2, <1>3, <1>4 DEF Decided, HardFailed

\* A setscene task is tried only once all it would serve is decided, and with
\* its hard dependencies at hand; unless the hash check skipped tasks in the
\* middle of a chain of hard dependencies, which NoHardChains excludes.
THEOREM LaunchOrderHolds ==
  ASSUME NoHardChains
  PROVE  Spec => []LaunchOrder
<1>1. IInv /\ HardDepsFirst => LaunchOrder
  BY LaunchOrderIn
<1>2. Init => IInv /\ HardDepsFirst
  BY InitIInv, InitHardDepsFirst
<1>3. IInv /\ HardDepsFirst /\ [Next]_vars => (IInv /\ HardDepsFirst)'
  BY NextIInv, NextHardDepsFirst
<1>4. QED
  BY <1>1, <1>2, <1>3, PTL DEF Spec

-----------------------------------------------------------------------------
(* The passes lose nothing *)

LEMMA BetweenUp ==
  ASSUME NEW d \in Tids
  PROVE  d \in Between(d) /\ \A x \in Between(d) : RevDepsOf(x) \ setscene \subseteq Between(d)
BY DEF Between, RevDepsOf

\* What is between is no setscene task, and has something between that it needs.
LEMMA BetweenDown ==
  ASSUME NEW d \in Tids, NEW x \in Between(d), x # d
  PROVE  x \in Tids \ setscene /\ \E e \in Between(d) : x \in RevDepsOf(e)
<1>1. SUFFICES ASSUME x \in setscene \/ \A e \in Between(d) : x \notin RevDepsOf(e)
               PROVE  FALSE
  BY DEF Between
<1> DEFINE W == Between(d) \ {x}
<1>2. W \in SUBSET Tids /\ d \in W
  BY BetweenUp DEF Between
<1>3. ASSUME NEW y \in W, NEW r \in RevDepsOf(y) \ setscene PROVE r \in W
  BY <1>1, BetweenUp
<1>4. x \in W
  <2> HIDE DEF W
  <2> QED
    BY <1>2, <1>3 DEF Between
<1>5. QED
  BY <1>4

LEMMA BetweenSame ==
  ASSUME depends' = depends, setscene' = setscene, NEW d
  PROVE  /\ Between(d)' = Between(d) /\ ServedBy(d)' = ServedBy(d)
         /\ EndAbove(d)' = EndAbove(d)
<1>1. Tids' = Tids /\ \A x : RevDepsOf(x)' = RevDepsOf(x)
  BY DEF Tids, RevDepsOf
<1>2. Between(d)' = Between(d)
  BY <1>1 DEF Between
<1>3. QED
  BY <1>1, <1>2 DEF ServedBy, EndAbove

LEMMA BeginLost ==
  ASSUME GraphInv, queue \in RunQueue, Begin
  PROVE  NothingLost'
<1>1. /\ pass' = "squash" /\ setscene' = queue.scene /\ depends' = depends
      /\ points' = [t \in Ends(queue.scene) \union UNION {depends[s] : s \in queue.scene}
                      |-> Served(t, queue.scene)]
      /\ newpoints' = <<>> /\ new' = [t \in Tids |-> {}]
  BY DEF Begin, GraphStart, PassReset
<1>2. Tids' = Tids /\ \A x : RevDepsOf(x)' = RevDepsOf(x)
  BY <1>1 DEF Tids, RevDepsOf
<1>3. ASSUME NEW d \in setscene', NEW s \in ServedBy(d)'
      PROVE  \E x \in Between(d)' : s \in Gathered(x)'
  <2>1. PICK x \in Between(d)' : s \in RevDepsOf(x) /\ s \in queue.scene
    BY <1>1, <1>2, <1>3 DEF ServedBy
  <2>2. x \in depends[s]
    BY <2>1 DEF RevDepsOf
  <2>3. x \in DOMAIN points' /\ s \in points'[x]
    BY <1>1, <2>1, <2>2 DEF Served
  <2>4. QED
    BY <2>1, <2>3 DEF Gathered
<1>4. \A x \in Tids' : new'[x] = {}
  BY <1>1, <1>2
<1>5. QED
  BY <1>1, <1>3, <1>4 DEF NothingLost

LEMMA NoSelf ==
  ASSUME GraphInv, queue \in RunQueue, NEW t \in Tids
  PROVE  t \notin depends[t]
<1>1. {t} \in SUBSET DOMAIN queue.depends /\ {t} # {}
  BY DEF GraphInv, Tids
<1>2. \E x \in {t} : \A u \in {t} : x \notin queue.depends[u]
  BY <1>1, RunQueueAssumption
<1>3. QED
  BY <1>2 DEF GraphInv

\* What an endpoint gathered stays with it if it is a setscene task, and is
\* handed to everything it needs if not.
LEMMA EndpointLost ==
  ASSUME GraphInv, queue \in RunQueue, NothingLost, NEW point, ProcessEndpoint(point)
  PROVE  NothingLost'
<1> DEFINE task == points[point]
           tasks == task \union new[point]
           deps == depends[point]
           rest == [e \in DOMAIN points \ {point} |-> points[e]]
           level == NextLevel(deps, left', new')
           next == [d \in level \union DOMAIN newpoints |->
                      IF d \in level THEN HandedOn(point, task, tasks) ELSE newpoints[d]]
<1>1. /\ pass \in {"squash", "unskippable"} /\ point \in DOMAIN points
      /\ new' = [t \in Tids |->
                   IF t = point THEN Kept(point, tasks)
                   ELSE IF t \in deps THEN new[t] \union Passed(point, tasks)
                   ELSE new[t]]
      /\ \/ rest = <<>> /\ points' = next /\ newpoints' = <<>>
         \/ rest # <<>> /\ points' = rest /\ newpoints' = next
      /\ UNCHANGED <<depends, setscene, harddeps, pass, squash, unskippable>>
  BY DEF ProcessEndpoint
<1>2. depends \in [Tids -> SUBSET Tids] /\ setscene \subseteq Tids
  BY GraphTyped
<1>3. Tids' = Tids /\ \A d : Between(d)' = Between(d) /\ ServedBy(d)' = ServedBy(d)
                             /\ (EndAbove(d)' <=> EndAbove(d))
  BY <1>1, BetweenSame DEF Tids
<1>4. points' = <<>> => newpoints' = <<>>
  BY <1>1
<1>5. \A x \in DOMAIN points \ {point} : x \in DOMAIN rest /\ rest[x] = points[x]
  OBVIOUS
<1>6. rest = <<>> => DOMAIN points \subseteq {point}
  <2>1. DOMAIN rest = DOMAIN points \ {point}
    OBVIOUS
  <2>2. rest = <<>> => DOMAIN rest = {}
    <3> HIDE DEF rest
    <3> QED
      OBVIOUS
  <2>3. QED
    BY <2>1, <2>2
<1>7. DOMAIN next = level \union DOMAIN newpoints /\ level = {d \in deps \ setscene : left'[d] = {} \/ new'[d] # {}}
  BY DEF NextLevel
<1>8. level \subseteq Points' /\ Points \ {point} \subseteq Points'
  <2> HIDE DEF rest, next, level
  <2> QED
    BY <1>1, <1>5, <1>6, <1>7 DEF Points
<1>9. CASE pass = "squash"
  <2>1. SquashAbove(new)
    BY <1>9 DEF GraphInv
  <2>2. point \in Tids
    BY <1>1, <1>9 DEF GraphInv, PointsAbove
  <2>3. ASSUME NEW x \in Tids \ setscene, new'[x] # {} PROVE x \in Points'
    <3>1. CASE x = point
      BY <1>1, <1>9, <2>3, <3>1 DEF Kept
    <3>2. CASE x # point /\ x \in deps
      BY <1>7, <1>8, <2>3, <3>2
    <3>3. CASE x # point /\ x \notin deps
      <4>1. new[x] # {}
        BY <1>1, <2>3, <3>3
      <4>2. x \in Points
        BY <1>9, <4>1 DEF NothingLost
      <4>3. QED
        BY <1>8, <3>3, <4>2
    <3>4. QED
      BY <3>1, <3>2, <3>3
  <2>4. ASSUME NEW d \in setscene, NEW s \in ServedBy(d)
        PROVE  \E x \in Between(d) : s \in Gathered(x)'
    <3>1. PICK x \in Between(d) : s \in Gathered(x)
      BY <1>9 DEF NothingLost
    <3>2. x \in Tids /\ d \in Tids
      BY <1>2 DEF Between
    <3>3. CASE x # point
      <4>1. new[x] \subseteq new'[x]
        <5> HIDE DEF tasks
        <5> QED
          BY <1>1, <3>2, <3>3
      <4>2. x \in DOMAIN points => x \in DOMAIN points' /\ points'[x] = points[x]
        <5> HIDE DEF rest, next
        <5> QED
          BY <1>1, <1>5, <1>6, <3>3
      <4>3. s \in Gathered(x)'
        BY <3>1, <4>1, <4>2 DEF Gathered
      <4>4. QED
        BY <4>3
    <3>4. CASE x = point /\ x \in setscene
      <4>1. s \in tasks
        BY <1>1, <3>1, <3>4 DEF Gathered
      <4>2. new'[x] = tasks
        BY <1>1, <1>9, <3>2, <3>4 DEF Kept
      <4>3. s \in Gathered(x)'
        BY <4>1, <4>2 DEF Gathered
      <4>4. QED
        BY <4>3
    <3>5. CASE x = point /\ x \notin setscene
      <4>1. s \in tasks
        BY <1>1, <3>1, <3>5 DEF Gathered
      <4>2. PICK e \in Between(d) : x \in RevDepsOf(e)
        BY <3>2, <3>5, BetweenDown
      <4>3. e \in deps /\ e \in Tids /\ Passed(point, tasks) = tasks
        BY <1>9, <3>5, <4>2 DEF RevDepsOf, Between, Passed
      <4>4. e # point
        BY <1>2, <2>2, <4>3, NoSelf
      <4>5. new'[e] = new[e] \union tasks
        <5> HIDE DEF tasks, deps
        <5> QED
          BY <1>1, <4>3, <4>4
      <4>6. s \in Gathered(e)'
        BY <4>1, <4>5 DEF Gathered
      <4>7. QED
        BY <4>6
    <3>6. QED
      BY <3>3, <3>4, <3>5
  <2>5. QED
    BY <1>1, <1>3, <1>4, <1>9, <2>3, <2>4 DEF NothingLost
<1>10. CASE pass = "unskippable"
  <2>1. ASSUME NEW d \in setscene, EndAbove(d)
        PROVE  new'[d] # {} \/ \E x \in Between(d) : x \in Points'
    <3>0. d \in Tids
      BY <1>2
    <3>1. CASE new[d] # {}
      <4>1. new'[d] # {}
        <5>1. d = point => Kept(point, tasks) # {}
          BY <1>10, <2>1 DEF Kept
        <5>2. QED
          BY <1>1, <3>0, <3>1, <5>1
      <4>2. QED
        BY <4>1
    <3>2. CASE \E x \in Between(d) : x \in Points /\ x # point
      BY <1>8, <3>2
    <3>3. CASE point \in Between(d) /\ point = d
      <4>1. Kept(point, tasks) # {}
        BY <1>10, <2>1, <3>3 DEF Kept
      <4>2. QED
        BY <1>1, <3>0, <3>3, <4>1
    <3>4. CASE point \in Between(d) /\ point # d
      <4>1. PICK e \in Between(d) : point \in RevDepsOf(e)
        BY <3>0, <3>4, BetweenDown
      <4>2. point \in Tids /\ e \in deps /\ e \in Tids /\ point \in Passed(point, tasks)
        BY <1>10, <3>4, <4>1 DEF RevDepsOf, Between, Passed
      <4>3. e # point
        BY <1>2, <4>2, NoSelf
      <4>4. new'[e] # {}
        <5>1. new'[e] = new[e] \union Passed(point, tasks)
          <6> HIDE DEF tasks, deps
          <6> QED
            BY <1>1, <4>2, <4>3
        <5>2. QED
          BY <4>2, <5>1
      <4>5. CASE e = d
        BY <4>4, <4>5
      <4>6. CASE e # d
        <5>1. e \in deps \ setscene
          BY <3>0, <4>1, <4>2, <4>6, BetweenDown
        <5>2. e \in Points'
          BY <1>7, <1>8, <4>4, <5>1
        <5>3. QED
          BY <4>1, <5>2
      <4>7. QED
        BY <4>5, <4>6
    <3>5. QED
      BY <1>10, <2>1, <3>1, <3>2, <3>3, <3>4 DEF NothingLost
  <2>2. \A d \in setscene : ServedBy(d) \subseteq squash[d]
    BY <1>10 DEF NothingLost
  <2>3. QED
    BY <1>1, <1>3, <1>4, <1>10, <2>1, <2>2 DEF NothingLost
<1>11. QED
  BY <1>1, <1>9, <1>10

LEMMA CollapseLost ==
  ASSUME GraphInv, queue \in RunQueue, NothingLost, Collapse
  PROVE  NothingLost'
<1>1. UNCHANGED <<depends, setscene, harddeps>>
  BY DEF Collapse, GraphNext, ProcessEndpoint, SquashDone, UnskippableDone, ResolveHardDeps
<1>2. Tids' = Tids /\ setscene \subseteq Tids /\ harddeps \subseteq setscene \X setscene
      /\ \A d : Between(d)' = Between(d) /\ ServedBy(d)' = ServedBy(d)
                /\ (EndAbove(d)' <=> EndAbove(d)) /\ IsHard(d)' = IsHard(d)
  BY <1>1, BetweenSame, GraphTyped DEF Tids, IsHard
<1>3. CASE \E point \in DOMAIN points : ProcessEndpoint(point)
  BY <1>3, EndpointLost
<1>4. CASE SquashDone
  <2>1. /\ pass = "squash" /\ points = <<>> /\ pass' = "unskippable" /\ squash' = new
        /\ points' = [t \in Ends(setscene) |-> {}]
        /\ newpoints' = <<>>
    BY <1>4 DEF SquashDone, PassReset
  <2>2. DOMAIN points = {} /\ DOMAIN newpoints = {}
    BY <2>1 DEF NothingLost
  <2>3. ASSUME NEW d \in setscene, NEW s \in ServedBy(d) PROVE s \in new[d]
    <3>1. PICK x \in Between(d) : s \in Gathered(x)
      BY <2>1 DEF NothingLost
    <3>2. s \in new[x] /\ x \notin Points
      BY <2>2, <3>1 DEF Gathered, Points
    <3>3. x \in setscene
      BY <2>1, <3>2 DEF NothingLost, Between
    <3>4. x = d
      BY <1>2, <3>3, BetweenDown
    <3>5. QED
      BY <3>2, <3>4
  <2>4. ASSUME NEW d \in setscene, EndAbove(d)
        PROVE  \E x \in Between(d) : x \in Points'
    <3>1. PICK x \in Between(d) \ setscene : RevDepsOf(x) = {}
      BY <2>4 DEF EndAbove
    <3>2. x \in Ends(setscene)
      BY <3>1 DEF Ends, Between
    <3>3. x \in DOMAIN points'
      BY <2>1, <3>2
    <3>4. QED
      BY <3>1, <3>3 DEF Points
  <2>5. QED
    BY <1>1, <1>2, <2>1, <2>3, <2>4 DEF NothingLost
<1>5. CASE UnskippableDone
  <2>1. /\ pass = "unskippable" /\ points = <<>> /\ pass' = "resolve" /\ squash' = squash
        /\ unskippable' = {t \in setscene : new[t] # {}}
    BY <1>5 DEF UnskippableDone
  <2>2. Points = {}
    BY <2>1 DEF NothingLost, Points
  <2>3. QED
    BY <1>1, <1>2, <2>1, <2>2 DEF NothingLost
<1>6. CASE ResolveHardDeps
  <2>1. /\ pass = "resolve" /\ pass' = "ready" /\ unskippable' = unskippable
        /\ squash' = [t \in setscene |-> WithHardDeps(t)]
    BY <1>6 DEF ResolveHardDeps
  <2>2. \A d \in setscene : IsHard(d) \/ ServedBy(d) \subseteq squash'[d]
    BY <2>1 DEF NothingLost, WithHardDeps
  <2>3. QED
    BY <1>1, <1>2, <2>1, <2>2 DEF NothingLost
<1>7. QED
  BY <1>3, <1>4, <1>5, <1>6 DEF Collapse, GraphNext

LEMMA LostKept ==
  ASSUME NothingLost, UNCHANGED graphVars
  PROVE  NothingLost'
<1>1. UNCHANGED <<depends, setscene, harddeps, pass, points, newpoints, new, squash, unskippable>>
  BY DEF graphVars
<1>2. Tids' = Tids
      /\ \A d : Between(d)' = Between(d) /\ ServedBy(d)' = ServedBy(d)
                /\ (EndAbove(d)' <=> EndAbove(d)) /\ IsHard(d)' = IsHard(d)
                /\ Gathered(d)' = Gathered(d)
  BY <1>1, BetweenSame DEF Tids, IsHard, Gathered
<1>3. Points' = Points
  BY <1>1 DEF Points
<1>4. QED
  BY <1>1, <1>2, <1>3 DEF NothingLost

\* For any graph, and whatever order its levels are taken in: each task a setscene
\* task serves is in what it waits for, unless it is a hard dependency, and one
\* that serves a task nothing depends on is unskippable (process_endpoints,
\* process_endpoints2 in RunQueueExecuteScenequeue.__init__).
NothingServedIsLost ==
  pass = "ready" =>
    \A d \in setscene :
      /\ IsHard(d) \/ ServedBy(d) \subseteq squash[d]
      /\ EndAbove(d) => d \in unskippable

-----------------------------------------------------------------------------
(* What was obtained stays there *)

\* Steps that leave the stage alone.
LEMMA StampsKept ==
  ASSUME IInv, Stamps,
         UNCHANGED <<squash, unskippable, notneeded, covered, initial_covered, exitcode,
                     queueVars, stamp_setscene>>,
         launched' \subseteq launched, running' = running,
         (state' = "Running") <=> (state = "Running")
  PROVE  Stamps'
<1>1. Obtained' = Obtained /\ Available' = Available
  BY DEF Obtained, Available, queueVars
<1>2. QED
  BY <1>1 DEF Stamps

\* A task that is newly covered is there, or skipped as not needed.
LEMMA StampsGrow ==
  ASSUME IInv, Stamps, state # "Running", state' # "Running",
         UNCHANGED <<graphVars, queueVars, exitcode>>,
         stamp_setscene \subseteq stamp_setscene', covered \subseteq covered',
         running \subseteq running',
         (launched' \ launched) \intersect DOMAIN exitcode = {},
         covered' \ covered \subseteq Available' \union notneeded',
         notneeded \subseteq notneeded',
         \A d \in notneeded' \ notneeded :
           d \notin unskippable /\ squash[d] # {} /\ squash[d] \subseteq covered
  PROVE  Stamps'
<1>1. Available \subseteq Available' /\ squash' = squash /\ unskippable' = unskippable
  BY DEF Available, graphVars, queueVars
<1>2. Obtained = covered /\ Obtained' = covered'
  BY DEF Obtained
<1>3. QED
  BY <1>1, <1>2 DEF Stamps

LEMMA NextStamps == IInv /\ Stamps /\ Spread /\ [Next]_vars => Stamps'
<1> SUFFICES ASSUME IInv, Stamps, Spread, [Next]_vars PROVE Stamps'
  OBVIOUS
<1>1. CASE Begin \/ Collapse
  <2>1. state = "SceneInit" /\ UNCHANGED <<state, covered, launched, notneeded,
                                            running, exitcode>>
    BY <1>1 DEF Begin, Collapse, setVars, IInv, StageInv, GraphInv, GraphNext, ProcessEndpoint,
                SquashDone, UnskippableDone, ResolveHardDeps
  <2>2. covered' = {} /\ launched' = {} /\ notneeded' = {} /\ state' # "Running"
    BY <2>1 DEF IInv, StageInv
  <2>3. Obtained' = {} /\ DOMAIN exitcode' = {}
    BY <2>1, <2>2 DEF Obtained, Stamps, IInv, StageInv
  <2>4. QED
    BY <2>2, <2>3 DEF Stamps
<1>2. CASE SceneInitDone
  <2>1. /\ state = "SceneInit" /\ state' # "Running" /\ launched' = launched
        /\ UNCHANGED <<notneeded, exitcode, noexec, current>>
        /\ IF queue.hashvalidate
           THEN covered' = Stamped /\ stamp_setscene' = stamp_setscene \union noexec
           ELSE covered' = covered
    BY <1>2 DEF SceneInitDone, queueVars
  <2>2. launched' = {} /\ notneeded' = {} /\ covered = {} /\ DOMAIN exitcode' = {}
    BY <2>1 DEF IInv, StageInv, Stamps
  <2>3. covered' \subseteq Available'
    BY <2>1, <2>2 DEF Available, Stamped
  <2>4. QED
    BY <2>2, <2>3 DEF Stamps, Obtained
<1>3. CASE \/ BeginNone \/ ExecuteBegin \/ ExecuteWait \/ ReadingEnd \/ ExecuteFinished
           \/ Finish \/ finish_now
  <2>1. /\ UNCHANGED <<graphVars, queueVars, setVars, coverVars, exitcode, stamp_setscene>>
        /\ state # "Running" /\ state' # "Running"
    BY <1>3 DEF BeginNone, ExecuteBegin, ExecuteWait, ReadingEnd, ExecuteFinished, Finish,
                finish_now, IInv, StageInv
  <2>2. QED
    BY <2>1, StampsKept DEF setVars, coverVars, graphVars
<1>4. ASSUME NEW t \in setscene, NEW code \in {"ok", "failed"}, WorkerEnds(t, code)
      PROVE  Stamps'
  <2>1. /\ UNCHANGED <<graphVars, queueVars, setVars, coverVars, state>> /\ t \in launched
        /\ exitcode' = [u \in {t} \union DOMAIN exitcode |-> IF u = t THEN code ELSE exitcode[u]]
        /\ stamp_setscene' = stamp_setscene \union (IF code = "ok" THEN {t} ELSE {})
    BY <1>4 DEF WorkerEnds
  <2>2. UNCHANGED <<running, launched, covered, notneeded, initial_covered, squash, unskippable,
                    noexec, current>>
    BY <2>1 DEF setVars, coverVars, graphVars, queueVars
  <2>3. \A u \in launched' \intersect DOMAIN exitcode' :
          exitcode'[u] = "ok" => u \in stamp_setscene'
    <3>1. SUFFICES ASSUME NEW u \in launched \intersect DOMAIN exitcode', exitcode'[u] = "ok"
                   PROVE  u \in stamp_setscene'
      BY <2>2
    <3>2. CASE u = t
      BY <2>1, <3>1, <3>2
    <3>3. CASE u # t
      <4>1. u \in DOMAIN exitcode /\ exitcode[u] = "ok"
        BY <2>1, <3>1, <3>3
      <4>2. QED
        BY <2>1, <3>1, <4>1 DEF Stamps
    <3>4. QED
      BY <3>2, <3>3
  <2>4. Available \subseteq Available' /\ Obtained' = Obtained
    BY <2>1, <2>2 DEF Available, Obtained
  <2>5. DOMAIN exitcode' \subseteq running'
    BY <2>1, <2>2 DEF Stamps, IInv, TypeOK
  <2>6. QED
    BY <2>2, <2>3, <2>4, <2>5 DEF Stamps
<1>5. ASSUME NEW t \in setscene, ProcessWaitpid(t) PROVE Stamps'
  <2>1. /\ UNCHANGED <<graphVars, queueVars, exitcode, stamp_setscene, notneeded, running>>
        /\ t \in launched /\ t \in DOMAIN exitcode /\ launched' = launched \ {t}
        /\ \/ exitcode[t] = "ok" /\ covered' = covered \union {t} /\ state' = state
           \/ covered' = covered /\ state' \in {state, "CleanUp"}
    BY <1>5 DEF ProcessWaitpid, task_complete, task_fail
  <2>2. state # "Running" /\ state' # "Running"
    BY <2>1, LaunchedFacts
  <2>3. exitcode[t] = "ok" => t \in Available'
    BY <2>1 DEF Stamps, Available
  <2>4. QED
    BY <2>1, <2>2, <2>3, StampsGrow
<1>6. ASSUME NEW t \in setscene, ExecuteTask(t) PROVE Stamps'
  <2>1. /\ UNCHANGED <<graphVars, queueVars, exitcode>> /\ pc = "execute" /\ t \in Candidates
    BY <1>6 DEF ExecuteTask
  <2>2. state \in {"SceneRun", "CleanUp"} /\ t \notin launched /\ t \notin running
    BY <2>1, CandidateFacts
  <2>3. CASE ExecuteSkipNotNeeded(t)
    <3>1. /\ covered' = covered \union {t} /\ UNCHANGED <<launched, stamp_setscene, state>>
          /\ notneeded' = notneeded \union {t} /\ running \subseteq running'
          /\ t \notin unskippable /\ squash[t] # {} /\ squash[t] \subseteq covered
      BY <2>3 DEF ExecuteSkipNotNeeded, MayBeNotNeeded, task_skip
    <3>2. QED
      BY <2>1, <2>2, <3>1, StampsGrow
  <2>4. CASE ExecuteFailOutright(t)
    <3>1. UNCHANGED <<covered, launched, stamp_setscene, state, notneeded>>
          /\ running \subseteq running'
      BY <2>4 DEF ExecuteFailOutright, task_failoutright
    <3>2. QED
      BY <2>1, <2>2, <3>1, StampsGrow
  <2>5. CASE ExecuteSkipStamped(t)
    <3>1. /\ covered' = covered \union {t} /\ t \in stamp_setscene /\ running \subseteq running'
          /\ UNCHANGED <<launched, stamp_setscene, state, notneeded>>
      BY <2>5 DEF ExecuteSkipStamped, task_skip
    <3>2. t \in Available'
      BY <3>1 DEF Available
    <3>3. QED
      BY <2>1, <2>2, <3>1, <3>2, StampsGrow
  <2>6. CASE ExecuteLaunch(t)
    <3>1. /\ UNCHANGED <<covered, stamp_setscene, state, notneeded>>
          /\ launched' = launched \union {t} /\ running \subseteq running'
      BY <2>6 DEF ExecuteLaunch
    <3>2. t \notin DOMAIN exitcode
      BY <2>2 DEF Stamps
    <3>3. QED
      BY <2>1, <2>2, <3>1, <3>2, StampsGrow
  <2>7. QED
    BY <1>6, <2>3, <2>4, <2>5, <2>6 DEF ExecuteTask
<1>7. CASE RunInit
  <2>1. /\ UNCHANGED <<graphVars, queueVars, setVars, exitcode, stamp_setscene>>
        /\ state = "RunInit" /\ state' = "Running" /\ initial_covered' = covered
    BY <1>7 DEF RunInit
  <2>2. UNCHANGED <<running, launched, covered, notneeded, squash, unskippable, noexec, current>>
    BY <2>1 DEF setVars, graphVars, queueVars
  <2>3. Obtained' = Obtained /\ Available' = Available
    BY <2>1, <2>2 DEF Obtained, Available
  <2>4. QED
    BY <2>1, <2>2, <2>3 DEF Stamps
<1>8. CASE CoverAll \/ \E t \in Tids : CoverOne(t)
  <2>1. /\ UNCHANGED <<graphVars, queueVars, running, launched, notneeded, exitcode,
                       stamp_setscene, initial_covered, state>>
        /\ pc = "cover"
    BY <1>8 DEF CoverAll, CoverOne, coverVars
  <2>2. state = "Running" /\ initial_covered \subseteq covered
    BY <2>1 DEF IInv, StageInv, Spread
  <2>3. /\ Obtained' = Obtained /\ Available' = Available /\ Obtained \subseteq covered
        /\ UNCHANGED <<squash, unskippable>>
    BY <2>1, <2>2 DEF Obtained, Available, graphVars, queueVars
  <2>4. QED
    BY <2>1, <2>3 DEF Stamps
<1>9. CASE Verify
  <2>1. /\ UNCHANGED <<graphVars, queueVars, setVars, exitcode, stamp_setscene,
                       initial_covered, state>>
    BY <1>9 DEF Verify
  <2>2. QED
    BY <2>1, StampsKept DEF setVars, graphVars
<1>10. CASE RemoveLevel
  <2>1. /\ UNCHANGED <<graphVars, queueVars, running, launched, notneeded, exitcode,
                       initial_covered, state>>
        /\ stamp_setscene' = stamp_setscene \ todo /\ covered' = covered \ todo
        /\ pc = "remove"
    BY <1>10 DEF RemoveLevel
  <2>2. state = "Running" /\ launched = {}
    BY <2>1 DEF IInv, StageInv
  <2>3. /\ Obtained' = Obtained /\ Available \ todo \subseteq Available'
        /\ UNCHANGED <<squash, unskippable>>
    BY <2>1, <2>2 DEF Obtained, Available, graphVars, queueVars
  <2>4. QED
    BY <2>1, <2>2, <2>3 DEF Stamps
<1>11. CASE UNCHANGED vars
  <2>1. /\ UNCHANGED <<graphVars, queueVars, setVars, coverVars, exitcode, stamp_setscene,
                       state>>
    BY <1>11 DEF vars
  <2>2. QED
    BY <2>1, StampsKept DEF setVars, coverVars, graphVars
<1>12. QED
  BY <1>1, <1>2, <1>3, <1>4, <1>5, <1>6, <1>7, <1>8, <1>9, <1>10, <1>11 DEF Next

LEMMA InitInputsInv == Init => InputsInv
<1> SUFFICES ASSUME Init PROVE InputsInv
  OBVIOUS
<1>1. /\ pass = "none" /\ state = "SceneInit" /\ pc = "init" /\ exitcode = <<>>
      /\ covered = {} /\ notneeded = {} /\ launched = {} /\ running = {}
  BY DEF Init, GraphInit
<1>2. DOMAIN exitcode = {}
  BY <1>1
<1>3. NothingLost /\ Stamps /\ Spread
  BY <1>1, <1>2 DEF NothingLost, Stamps, Spread, Obtained
<1>4. QED
  BY <1>3 DEF InputsInv

LEMMA NextNothingLost == IInv /\ NothingLost /\ [Next]_vars => NothingLost'
<1> SUFFICES ASSUME IInv, NothingLost, [Next]_vars PROVE NothingLost'
  OBVIOUS
<1>1. GraphInv /\ queue \in RunQueue
  BY DEF IInv, TypeOK
<1>2. CASE Begin
  BY <1>1, <1>2, BeginLost
<1>3. CASE Collapse
  BY <1>1, <1>3, CollapseLost
<1>4. CASE UNCHANGED graphVars
  BY <1>4, LostKept
<1>5. Begin \/ Collapse \/ UNCHANGED graphVars
  BY DEF Next, BeginNone, SceneInitDone, ExecuteBegin, ExecuteWait, ReadingEnd,
         ExecuteFinished, Finish, finish_now, ProcessWaitpid, ExecuteTask, WorkerEnds, RunInit,
         CoverAll, Verify, RemoveLevel, CoverOne, vars
<1>6. QED
  BY <1>2, <1>3, <1>4, <1>5

THEOREM NothingServedIsLostHolds == Spec => []NothingServedIsLost
<1>1. IInv /\ NothingLost => NothingServedIsLost
  BY DEF NothingLost, NothingServedIsLost
<1>2. Init => IInv /\ NothingLost
  BY InitIInv, InitInputsInv DEF InputsInv
<1>3. IInv /\ NothingLost /\ [Next]_vars => (IInv /\ NothingLost)'
  BY NextIInv, NextNothingLost
<1>4. QED
  BY <1>1, <1>2, <1>3, PTL DEF Spec

-----------------------------------------------------------------------------
(* The passes come to nothing else *)

\* What is between a task and what is between it and another.
LEMMA BetweenBetween ==
  ASSUME NEW d \in Tids, NEW x \in Between(d)
  PROVE  Between(x) \subseteq Between(d)
BY BetweenUp DEF Between

\* A task without a setscene passes the endpoint it serves on to what it needs.
LEMMA EndAboveDown ==
  ASSUME depends \in [Tids -> SUBSET Tids], NEW p \in Tids \ setscene, EndAbove(p),
         NEW d \in depends[p]
  PROVE  EndAbove(d)
<1>1. d \in Tids /\ p \in RevDepsOf(d) \ setscene
  BY DEF RevDepsOf
<1>2. p \in Between(d)
  BY <1>1, BetweenUp
<1>3. Between(p) \subseteq Between(d)
  BY <1>1, <1>2, BetweenBetween
<1>4. QED
  BY <1>3 DEF EndAbove

LEMMA EndpointEnds ==
  ASSUME GraphInv, queue \in RunQueue, EndsOnly, NEW point, ProcessEndpoint(point)
  PROVE  EndsOnly'
<1> DEFINE task == points[point]
           tasks == task \union new[point]
           deps == depends[point]
           rest == [e \in DOMAIN points \ {point} |-> points[e]]
           level == NextLevel(deps, left', new')
           next == [d \in level \union DOMAIN newpoints |->
                      IF d \in level THEN HandedOn(point, task, tasks) ELSE newpoints[d]]
<1>1. /\ pass \in {"squash", "unskippable"} /\ point \in DOMAIN points
      /\ new' = [t \in Tids |->
                   IF t = point THEN Kept(point, tasks)
                   ELSE IF t \in deps THEN new[t] \union Passed(point, tasks)
                   ELSE new[t]]
      /\ \/ rest = <<>> /\ points' = next /\ newpoints' = <<>>
         \/ rest # <<>> /\ points' = rest /\ newpoints' = next
      /\ UNCHANGED <<depends, setscene, harddeps, pass, squash, unskippable>>
  BY DEF ProcessEndpoint
<1>2. depends \in [Tids -> SUBSET Tids] /\ setscene \subseteq Tids
  BY GraphTyped
<1>3. Tids' = Tids /\ \A d : EndAbove(d)' <=> EndAbove(d)
  BY <1>1, BetweenSame DEF Tids
<1>4. CASE pass = "squash"
  BY <1>1, <1>4 DEF EndsOnly
<1>5. CASE pass = "unskippable"
  <2>1. point \in Tids \ setscene /\ EndAbove(point)
    BY <1>1, <1>5 DEF EndsOnly, Points
  <2>2. \A d \in deps : d \in Tids /\ EndAbove(d)
    BY <1>2, <2>1, EndAboveDown
  <2>3. ASSUME NEW x \in Tids, new'[x] # {} PROVE EndAbove(x)
    <3>1. CASE x = point
      BY <2>1, <3>1
    <3>2. CASE x # point /\ x \in deps
      BY <2>2, <3>2
    <3>3. CASE x # point /\ x \notin deps
      <4>1. new[x] # {}
        BY <1>1, <2>3, <3>3
      <4>2. QED
        BY <1>5, <4>1 DEF EndsOnly
    <3>4. QED
      BY <3>1, <3>2, <3>3
  <2>4. DOMAIN rest \subseteq Points /\ DOMAIN newpoints \subseteq Points
    BY DEF Points
  <2>5. level \subseteq deps \ setscene /\ DOMAIN next = level \union DOMAIN newpoints
    BY DEF NextLevel
  <2>6. DOMAIN points' \subseteq level \union Points /\ DOMAIN newpoints' \subseteq level \union Points
    <3>1. \A f : f = <<>> => DOMAIN f = {}
      OBVIOUS
    <3> HIDE DEF rest, next, level
    <3>2. QED
      BY <1>1, <2>4, <2>5, <3>1
  <2>7. ASSUME NEW x \in Points' PROVE x \in Tids \ setscene /\ EndAbove(x)
    <3>1. x \in level \/ x \in Points
      BY <2>6 DEF Points
    <3>2. QED
      BY <1>5, <2>2, <2>5, <3>1 DEF EndsOnly
  <2>8. NotSquashed' = {}
    BY <1>1, <1>3, <1>5 DEF EndsOnly, NotSquashed
  <2>9. QED
    BY <1>1, <1>3, <1>5, <2>3, <2>7, <2>8 DEF EndsOnly
<1>6. QED
  BY <1>1, <1>4, <1>5

LEMMA CollapseEnds ==
  ASSUME GraphInv, queue \in RunQueue, NothingLost, EndsOnly, Collapse
  PROVE  EndsOnly'
<1>1. UNCHANGED <<depends, setscene, harddeps>>
  BY DEF Collapse, GraphNext, ProcessEndpoint, SquashDone, UnskippableDone, ResolveHardDeps
<1>2. Tids' = Tids /\ setscene \subseteq Tids /\ \A d : EndAbove(d)' <=> EndAbove(d)
  BY <1>1, BetweenSame, GraphTyped DEF Tids
<1>3. CASE \E point \in DOMAIN points : ProcessEndpoint(point)
  BY <1>3, EndpointEnds
<1>4. CASE SquashDone
  <2>1. /\ pass = "squash" /\ points = <<>> /\ pass' = "unskippable" /\ squash' = new
        /\ points' = [t \in Ends(setscene) |-> {}]
        /\ newpoints' = <<>> /\ new' = [t \in Tids |-> {}]
    BY <1>4 DEF SquashDone, PassReset
  <2>2. DOMAIN points = {} /\ DOMAIN newpoints = {}
    BY <2>1 DEF NothingLost
  <2>3. NotSquashed' = {}
    BY <1>1, <1>2, <2>1, <2>2 DEF NothingLost, Points, NotSquashed
  <2>4. Points' = Ends(setscene)
    BY <2>1 DEF Points
  <2>5. ASSUME NEW x \in Ends(setscene) PROVE x \in Tids \ setscene /\ EndAbove(x)
    <3>1. x \in Tids \ setscene /\ RevDepsOf(x) = {}
      BY DEF Ends
    <3>2. QED
      BY <3>1, BetweenUp DEF EndAbove
  <2>6. QED
    BY <1>1, <1>2, <2>1, <2>3, <2>4, <2>5 DEF EndsOnly
<1>5. CASE UnskippableDone
  <2>1. /\ pass = "unskippable" /\ pass' = "resolve" /\ squash' = squash
        /\ unskippable' = {t \in setscene : new[t] # {}}
    BY <1>5 DEF UnskippableDone
  <2>2. NotSquashed' = {}
    BY <1>1, <1>2, <2>1 DEF EndsOnly, NotSquashed
  <2>3. QED
    BY <1>1, <1>2, <2>1, <2>2 DEF EndsOnly
<1>6. CASE ResolveHardDeps
  <2>1. pass = "resolve" /\ pass' = "ready" /\ unskippable' = unskippable
    BY <1>6 DEF ResolveHardDeps
  <2>2. QED
    BY <1>1, <1>2, <2>1 DEF EndsOnly
<1>7. QED
  BY <1>3, <1>4, <1>5, <1>6 DEF Collapse, GraphNext

LEMMA NextEndsOnly == IInv /\ NothingLost /\ EndsOnly /\ [Next]_vars => EndsOnly'
<1> SUFFICES ASSUME IInv, NothingLost, EndsOnly, [Next]_vars PROVE EndsOnly'
  OBVIOUS
<1>1. GraphInv /\ queue \in RunQueue
  BY DEF IInv, TypeOK
<1>2. CASE Begin
  BY <1>2 DEF Begin, GraphStart, EndsOnly
<1>3. CASE Collapse
  BY <1>1, <1>3, CollapseEnds
<1>4. CASE UNCHANGED graphVars
  <2>1. UNCHANGED <<depends, setscene, pass, points, newpoints, new, squash, unskippable>>
    BY <1>4 DEF graphVars
  <2>2. Tids' = Tids /\ Points' = Points /\ NotSquashed' = NotSquashed
        /\ \A d : EndAbove(d)' <=> EndAbove(d)
    BY <2>1, BetweenSame DEF Tids, Points, NotSquashed
  <2>3. QED
    BY <2>1, <2>2 DEF EndsOnly
<1>5. Begin \/ Collapse \/ UNCHANGED graphVars
  BY DEF Next, BeginNone, SceneInitDone, ExecuteBegin, ExecuteWait, ReadingEnd,
         ExecuteFinished, Finish, finish_now, ProcessWaitpid, ExecuteTask, WorkerEnds, RunInit,
         CoverAll, Verify, RemoveLevel, CoverOne, vars
<1>6. QED
  BY <1>2, <1>3, <1>4, <1>5

\* For any graph, and whatever order its levels are taken in, each setscene task
\* is left with what it serves, nothing below it is left with anything, and it is
\* unskippable exactly when it serves an endpoint of the build
\* (RunQueueExecuteScenequeue.__init__).
THEOREM CollapseSoundHolds == Spec => []CollapseSound
<1>1. IInv /\ NothingLost /\ EndsOnly => CollapseSound
  <2> SUFFICES ASSUME IInv, NothingLost, EndsOnly PROVE CollapseSound
    OBVIOUS
  <2>1. setscene \subseteq Tids
    BY GraphTyped DEF IInv, TypeOK
  <2>2. CASE Squashed
    <3>1. SquashAbove(squash)
      BY <2>2 DEF IInv, GraphInv, Squashed
    <3>2. SquashSound
      BY <2>1, <2>2, <3>1 DEF NothingLost, SquashAbove, SquashSound, Squashed
    <3>3. QED
      BY <2>2, <3>2 DEF EndsOnly, CollapseSound, Squashed
  <2>3. CASE ~Squashed
    <3>1. pass = "ready" => UnskippableExact
      BY DEF NothingLost, EndsOnly, UnskippableExact
    <3>2. QED
      BY <2>3, <3>1 DEF CollapseSound
  <2>4. QED
    BY <2>2, <2>3
<1>2. Init => IInv /\ NothingLost /\ EndsOnly
  <2>1. Init => EndsOnly
    BY DEF Init, GraphInit, EndsOnly
  <2>2. QED
    BY <2>1, InitIInv, InitInputsInv DEF InputsInv
<1>3. IInv /\ NothingLost /\ EndsOnly /\ [Next]_vars => (IInv /\ NothingLost /\ EndsOnly)'
  BY NextIInv, NextNothingLost, NextEndsOnly
<1>4. QED
  BY <1>1, <1>2, <1>3, PTL DEF Spec

-----------------------------------------------------------------------------
(* Coverage *)

\* Where the second loop of __init__ ends: nothing is left to add, and it added
\* only what nothing else needs.
LEMMA CoverRestFacts ==
  ASSUME NEW done \in SUBSET Tids
  PROVE  /\ done \subseteq CoverRest(done) /\ CoverRest(done) \subseteq Tids
         /\ CoverClosed(CoverRest(done))
         /\ \A x \in CoverRest(done) \ done : RevDepsOf(x) \subseteq CoverRest(done)
<1> DEFINE C == CoverRest(done)
<1>1. done \subseteq C /\ C \subseteq Tids
  BY DEF CoverRest
<1>2. ASSUME NEW t \in Tids \ notcovered, AllDependentsCovered(t, C) PROVE t \in C
  <2>1. SUFFICES ASSUME NEW S \in SUBSET Tids, done \subseteq S, CoverClosed(S) PROVE t \in S
    BY DEF CoverRest
  <2>2. C \subseteq S
    BY <2>1 DEF CoverRest
  <2>3. AllDependentsCovered(t, S)
    BY <1>2, <2>2 DEF AllDependentsCovered
  <2>4. QED
    BY <2>1, <2>3 DEF CoverClosed
<1>3. ASSUME NEW x \in C \ done PROVE RevDepsOf(x) \subseteq C
  <2>1. SUFFICES ASSUME ~(RevDepsOf(x) \subseteq C) PROVE FALSE
    OBVIOUS
  <2> DEFINE S == C \ {x}
  <2>2. S \in SUBSET Tids /\ done \subseteq S
    BY <1>1
  <2>3. ASSUME NEW t \in Tids \ notcovered, AllDependentsCovered(t, S) PROVE t \in S
    <3>1. AllDependentsCovered(t, C) /\ RevDepsOf(t) \subseteq C
      BY <2>3 DEF AllDependentsCovered
    <3>2. t \in C /\ t # x
      BY <1>2, <2>1, <3>1
    <3>3. QED
      BY <3>2
  <2>4. x \in S
    <3> HIDE DEF S
    <3> QED
      BY <2>2, <2>3 DEF CoverRest, CoverClosed
  <2>5. QED
    BY <2>4
<1>4. QED
  BY <1>1, <1>2, <1>3 DEF CoverClosed

LEMMA NextSpread == IInv /\ Spread /\ [Next]_vars => Spread'
<1> SUFFICES ASSUME IInv, Spread, [Next]_vars PROVE Spread'
  OBVIOUS
<1> DEFINE Coverage == RunInit \/ CoverAll \/ Verify \/ RemoveLevel \/ \E t \in Tids : CoverOne(t)
<1>1. CASE Next /\ ~Coverage
  <2>1. pc' \notin {"cover", "verify", "remove", "end"}
    BY <1>1, LaunchedFacts
       DEF Next, Begin, BeginNone, Collapse, SceneInitDone, ExecuteBegin, ExecuteWait,
           ReadingEnd, ExecuteFinished, Finish, finish_now, ProcessWaitpid, ExecuteTask,
           WorkerEnds, GraphNext, ProcessEndpoint, SquashDone, UnskippableDone,
           ResolveHardDeps, IInv, StageInv, GraphInv
  <2>2. QED
    BY <2>1 DEF Spread
<1>2. CASE Coverage
  <2>0. UNCHANGED <<depends, notcovered>> /\ covered \subseteq Tids
    BY <1>2 DEF RunInit, CoverAll, Verify, RemoveLevel, CoverOne, graphVars, setVars, IInv, TypeOK
  <2>1. Tids' = Tids /\ \A x : RevDepsOf(x)' = RevDepsOf(x)
    BY <2>0 DEF Tids, RevDepsOf
  <2>2. CASE RunInit
    BY <2>2 DEF Spread, RunInit, setVars
  <2>3. ASSUME NEW t \in Tids, CoverOne(t) PROVE Spread'
    <3>1. /\ pc = "cover" /\ pc' = "cover" /\ initial_covered' = initial_covered
          /\ covered' = covered \/ (covered' = covered \union {t} /\ RevDepsOf(t) \subseteq covered)
      BY <2>3 DEF CoverOne, AllDependentsCovered
    <3>2. QED
      BY <2>1, <3>1 DEF Spread
  <2>4. CASE CoverAll
    <3>1. /\ pc = "cover" /\ pc' = "verify" /\ initial_covered' = initial_covered
          /\ covered' = CoverRest(covered)
      BY <2>4 DEF CoverAll, coverVars
    <3>2. /\ covered \subseteq covered' /\ CoverClosed(covered')
          /\ \A x \in covered' \ covered : RevDepsOf(x) \subseteq covered'
      BY <2>0, <3>1, CoverRestFacts
    <3>3. CoverClosed(covered)'
      BY <2>0, <2>1, <3>2 DEF CoverClosed, AllDependentsCovered
    <3>4. QED
      BY <2>1, <3>1, <3>2, <3>3 DEF Spread
  <2>5. CASE Verify
    <3>1. /\ pc = "verify" /\ pc' = "remove" /\ initial_covered' = initial_covered
          /\ covered' = covered
      BY <2>5 DEF Verify, setVars
    <3>2. QED
      BY <2>1, <3>1 DEF Spread
  <2>6. CASE RemoveLevel
    <3>1. /\ pc = "remove" /\ initial_covered' = initial_covered
          /\ covered' = covered \ todo /\ todo' = UNION {ToRunToo(t) : t \in todo}
          /\ pc' = IF todo' = {} THEN "end" ELSE "remove"
      BY <2>6 DEF RemoveLevel
    <3>2. ASSUME NEW d \in covered' \ initial_covered', ~(RevDepsOf(d) \subseteq covered')
          PROVE  d \in todo'
      <4>1. d \in covered /\ d \notin todo /\ RevDepsOf(d) \subseteq covered
        BY <3>1, <3>2 DEF Spread
      <4>2. PICK t \in RevDepsOf(d) : t \in todo
        BY <3>1, <3>2, <4>1
      <4>3. d \in ToRunToo(t)
        BY <3>1, <3>2, <4>1, <4>2 DEF ToRunToo, RevDepsOf
      <4>4. QED
        BY <3>1, <4>2, <4>3
    <3>3. QED
      BY <2>1, <3>1, <3>2 DEF Spread
  <2>7. QED
    BY <1>2, <2>2, <2>3, <2>4, <2>5, <2>6
<1>3. CASE UNCHANGED vars
  <2>1. UNCHANGED <<depends, covered, notcovered, initial_covered, todo, pc>>
    BY <1>3 DEF vars, graphVars, setVars, coverVars
  <2>2. Tids' = Tids /\ \A x : RevDepsOf(x)' = RevDepsOf(x)
    BY <2>1 DEF Tids, RevDepsOf
  <2>3. CoverClosed(covered)' = CoverClosed(covered)
    BY <2>1, <2>2 DEF CoverClosed, AllDependentsCovered
  <2>4. QED
    BY <2>1, <2>2, <2>3 DEF Spread
<1>4. QED
  BY <1>1, <1>2, <1>3

\* Once coverage has spread, nothing will run that needs a task skipped as not
\* needed: what it serves is covered, and so is all in between.
LEMMA NotNeededIndeed ==
  ASSUME NoHardChainsAtAll, IInv, NothingLost, Stamps, Spread, pc = "verify",
         NEW d \in notneeded
  PROVE  RevDepsOf(d) \subseteq covered
<1>1. /\ state = "Running" /\ d \in initial_covered /\ initial_covered \subseteq covered
      /\ d \in setscene /\ notcovered \subseteq setscene /\ queue \in RunQueue
      /\ GraphInv
  BY DEF IInv, StageInv, TypeOK, Spread
<1>2. /\ pass = "ready" /\ Resolved /\ d \in Tids
      /\ harddeps \subseteq setscene \X setscene /\ harddeps = queue.hard
  BY <1>1, GraphTyped DEF IInv, StageInv, GraphInv
<1>3. d \notin unskippable /\ squash[d] # {} /\ squash[d] \subseteq covered
  BY <1>1 DEF Stamps, Obtained
<1>4. ~IsHard(d)
  <2>1. SUFFICES ASSUME IsHard(d) PROVE FALSE
    OBVIOUS
  <2>2. PICK u \in HardFor(d) : TRUE
    BY <1>1, <1>2, <1>3, <2>1 DEF Resolved
  <2>3. <<u, d>> \in queue.hard
    BY <1>2, <2>2, HardForOf DEF HardOf
  <2>4. PICK r \in queue.hard : r[1] = d
    BY <1>2, <2>1 DEF IsHard
  <2>5. <<u, d>>[2] = d
    OBVIOUS
  <2>6. QED
    BY <1>1, <2>3, <2>4, <2>5 DEF NoHardChainsAtAll, Unchained
<1>5. ServedBy(d) \subseteq covered /\ ~EndAbove(d)
  BY <1>1, <1>2, <1>3, <1>4 DEF NothingLost
<1>6. ASSUME NEW x \in Between(d), NEW r \in RevDepsOf(x)
      PROVE  r \in covered \/ (r \in Between(d) /\ r # d)
  <2>1. CASE r \in setscene
    BY <1>5, <1>6, <2>1 DEF ServedBy
  <2>2. CASE r \notin setscene
    BY <1>1, <1>2, <1>6, <2>2, BetweenUp
  <2>3. QED
    BY <2>1, <2>2
<1> DEFINE U == Between(d) \ ({d} \union covered)
<1>7. U = {}
  <2>1. SUFFICES ASSUME U # {} PROVE FALSE
    OBVIOUS
  <2>2. PICK x \in U : Above(x) \intersect U = {}
    <3>1. U \in SUBSET Tids
      BY DEF Between
    <3>2. QED
      <4> HIDE DEF U
      <4> QED
        BY <1>1, <2>1, <3>1, NoCircle
  <2>3. x \in Tids \ setscene /\ RevDepsOf(x) # {}
    BY <1>2, <1>5, BetweenDown DEF EndAbove
  <2>4. RevDepsOf(x) \subseteq Above(x)
    BY <2>3 DEF Above, RevDepsOf
  <2>5. RevDepsOf(x) \subseteq covered
    BY <1>6, <2>2, <2>4
  <2>6. x \in covered
    BY <1>1, <2>3, <2>5 DEF Spread, CoverClosed, AllDependentsCovered
  <2>7. QED
    BY <2>6
<1>8. d \in Between(d)
  BY <1>2, BetweenUp
<1>9. QED
  BY <1>6, <1>7, <1>8

LEMMA InputsIn ==
  ASSUME NoHardChainsAtAll, IInv, InputsInv
  PROVE  InputsAvailable
<1> SUFFICES ASSUME NEW t \in WillRun
             PROVE  /\ pc = "verify" => Missing(t) = {}
                    /\ pc = "end" => Missing(t) \subseteq notneeded
  BY DEF InputsAvailable
<1>1. ASSUME pc \in {"verify", "end"}, NEW d \in Missing(t)
      PROVE  d \in notneeded /\ t \in RevDepsOf(d)
  <2>1. d \in covered /\ t \in RevDepsOf(d) /\ d \notin Available /\ t \notin covered
    BY DEF Missing, WillRun, RevDepsOf
  <2>2. d \in initial_covered
    BY <1>1, <2>1 DEF InputsInv, Spread
  <2>3. state = "Running"
    BY <1>1 DEF IInv, StageInv
  <2>4. QED
    BY <2>1, <2>2, <2>3 DEF InputsInv, Stamps, Obtained
<1>2. ASSUME pc = "verify", NEW d \in Missing(t) PROVE FALSE
  <2>1. d \in notneeded /\ t \in RevDepsOf(d)
    BY <1>1, <1>2
  <2>2. t \in covered
    BY <1>2, <2>1, NotNeededIndeed DEF InputsInv
  <2>3. QED
    BY <2>2 DEF WillRun
<1>3. QED
  BY <1>1, <1>2

\* Whatever is covered without being there, nothing that will run needs it; and
\* what the metadata elects to run anyway misses at most what was skipped as not
\* needed (RunQueueExecuteScenequeue and RunQueueExecuteTasks.__init__), as long
\* as no hard dependency has one itself.
THEOREM InputsAvailableHolds ==
  ASSUME NoHardChainsAtAll
  PROVE  Spec => []InputsAvailable
<1>1. IInv /\ InputsInv => InputsAvailable
  BY InputsIn
<1>2. Init => IInv /\ InputsInv
  BY InitIInv, InitInputsInv
<1>3. IInv /\ InputsInv /\ [Next]_vars => (IInv /\ InputsInv)'
  <2>1. SUFFICES ASSUME IInv, InputsInv, [Next]_vars PROVE IInv' /\ InputsInv'
    OBVIOUS
  <2>2. QED
    BY <2>1, NextIInv, NextNothingLost, NextStamps, NextSpread DEF InputsInv
<1>4. QED
  BY <1>1, <1>2, <1>3, PTL DEF Spec
=============================================================================
