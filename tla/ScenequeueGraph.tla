--------------------------- MODULE ScenequeueGraph ---------------------------
(***************************************************************************)
(* The graph of RunQueueExecuteScenequeue.__init__ (lib/bb/runqueue.py):   *)
(* the run queue's dependency tree collapsed to the setscene tasks.  Both  *)
(* passes take the endpoints of a level in the order of a dictionary,      *)
(* which is any order: one endpoint is one step.   The run queue is         *)
(* depends, setscene and harddeps, which the including module declares     *)
(* and never changes after the start.  A definition with a suffix is a     *)
(* faulty variant of its namesake, with which the properties are tried.    *)
(***************************************************************************)
EXTENDS TaskGraph, Integers, FiniteSets, TLC

VARIABLES
  setscene,         \* runq_setscene_tids
  harddeps,         \* the pairs <<x, t>>: t_setscene[depends] names x_setscene
  pass,             \* "none", "squash", "unskippable", then "resolve" and "ready"
  points,           \* the endpoints of this level still to do
  newpoints,        \* those of the next level
  left,             \* sq_revdeps, or sq_revdeps2 in the second pass
  new,              \* sq_revdeps_new, or sq_revdeps_new2
  squash,           \* sq_revdeps_squash
  unskippable

graphVars == <<depends, setscene, harddeps, pass, points, newpoints,
               left, new, squash, unskippable>>

\* The tasks nothing depends on, where the passes start.
Ends(scene) == {t \in Tids \ scene : RevDepsOf(t) = {}}

\* A task setscene tasks depend on starts with the setscene tasks it serves.
Served(t, scene) == {s \in scene : t \in depends[s]}

GraphInit ==
  /\ pass = "none"
  /\ setscene = {} /\ harddeps = {}
  /\ points = <<>> /\ newpoints = <<>>
  /\ left = <<>> /\ new = <<>> /\ squash = <<>>
  /\ unskippable = {}

PassReset ==
  /\ newpoints' = <<>>
  /\ left' = [t \in Tids |-> RevDepsOf(t)]
  /\ new' = [t \in Tids |-> {}]

GraphStart(scene, hard) ==
  /\ pass = "none"
  /\ pass' = "squash"
  /\ setscene' = scene
  /\ harddeps' = hard
  /\ points' = [t \in Ends(scene) \union UNION {depends[s] : s \in scene} |-> Served(t, scene)]
  /\ PassReset
  /\ UNCHANGED <<depends, squash, unskippable>>

\* What an endpoint passes down to its dependencies: in the first pass a
\* setscene task keeps what reached it.
Passed(point, tasks) ==
  IF pass = "unskippable" THEN tasks \union {point}
  ELSE IF point \in setscene THEN {} ELSE tasks

\* A faulty variant, to try the properties with: a setscene task keeps nothing.
Kept_nothing(point, tasks) == {}

Kept(point, tasks) ==
  IF point \notin setscene THEN {}
  ELSE IF pass = "unskippable" THEN tasks \union {point} ELSE tasks

\* What the next level gets with a new endpoint.  The first pass hands on the
\* tasks this endpoint came with, whether it kept them or not.
HandedOn(point, task, tasks) ==
  IF pass = "unskippable" THEN tasks \union {point} ELSE task

\* A dependency is an endpoint of the next level once all that depends on it is
\* done, or as soon as anything reached it.
NextLevel(deps, left1, new1) ==
  {d \in deps \ setscene : left1[d] = {} \/ new1[d] # {}}

ProcessEndpoint(point) ==
  /\ pass \in {"squash", "unskippable"}
  /\ point \in DOMAIN points
  /\ LET task == points[point]
         tasks == task \union new[point]
         deps == depends[point]
         rest == [e \in DOMAIN points \ {point} |-> points[e]]
     IN
       /\ left' = [t \in Tids |-> IF t \in deps THEN left[t] \ {point} ELSE left[t]]
       /\ new' = [t \in Tids |->
                    IF t = point THEN Kept(point, tasks)
                    ELSE IF t \in deps THEN new[t] \union Passed(point, tasks)
                    ELSE new[t]]
       /\ LET level == NextLevel(deps, left', new')
              next == [d \in level \union DOMAIN newpoints |->
                         IF d \in level THEN HandedOn(point, task, tasks) ELSE newpoints[d]]
          IN IF rest = <<>>
             THEN points' = next /\ newpoints' = <<>>
             ELSE points' = rest /\ newpoints' = next
  /\ UNCHANGED <<depends, setscene, harddeps, pass, squash, unskippable>>

SquashDone ==
  /\ pass = "squash"
  /\ points = <<>>
  /\ pass' = "unskippable"
  /\ squash' = new
  /\ points' = [t \in Ends(setscene) |-> {}]
  /\ PassReset
  /\ UNCHANGED <<depends, setscene, harddeps, unskippable>>

UnskippableDone ==
  /\ pass = "unskippable"
  /\ points = <<>>
  /\ pass' = "resolve"
  /\ unskippable' = {t \in setscene : new[t] # {}}
  /\ UNCHANGED <<depends, setscene, harddeps, points, newpoints, left, new, squash>>

HardFor(t) == {p[1] : p \in {q \in harddeps : q[2] = t}}
IsHard(t) == \E p \in harddeps : p[1] = t

\* What depends on a hard dependency is forgotten, so that the two cannot wait
\* for each other.
WithHardDeps(t) == (IF IsHard(t) THEN {} ELSE squash[t]) \union HardFor(t)

\* A task that is not a setscene task must be left with nothing.
NotSquashed == {t \in Tids \ setscene : squash[t] # {}}

ResolveHardDeps ==
  /\ pass = "resolve"
  /\ NotSquashed = {}
  /\ pass' = "ready"
  /\ squash' = [t \in setscene |-> WithHardDeps(t)]
  /\ UNCHANGED <<depends, setscene, harddeps, points, newpoints, left, new,
                 unskippable>>

GraphNext ==
  \/ \E point \in DOMAIN points : ProcessEndpoint(point)
  \/ SquashDone \/ UnskippableDone \/ ResolveHardDeps
-----------------------------------------------------------------------------
(* Properties *)

\* d, and the tasks that need it with no setscene task on the way or themselves.
Between(d) ==
  {x \in Tids : \A W \in SUBSET Tids :
     d \in W /\ (\A y \in W : RevDepsOf(y) \ setscene \subseteq W) => x \in W}

\* The setscene tasks d serves, and whether it serves a task without one.
ServedBy(d) == UNION {RevDepsOf(x) \intersect setscene : x \in Between(d)}
EndAbove(d) == \E x \in Between(d) \ setscene : RevDepsOf(x) = {}

Squashed == pass \in {"unskippable", "resolve"}

\* Every setscene task is left with all the setscene tasks it serves next and
\* with none that it does not serve.
SquashSound == \A t \in setscene :
  ServedBy(t) \subseteq squash[t] /\ squash[t] \subseteq Above(t) \intersect setscene

\* A setscene task is unskippable exactly when an endpoint of the build is
\* reached from it with no setscene task between them.
UnskippableExact == unskippable = {t \in setscene : EndAbove(t)}

\* The collapse turns the dependency tree "into a smaller one only containing the
\* setscene functions", in whatever order the endpoints of a level are taken, and
\* "Something went badly wrong during scenequeue generation" is never reached.
CollapseSound ==
  /\ Squashed => SquashSound /\ NotSquashed = {}
  /\ pass = "ready" => UnskippableExact
=============================================================================
