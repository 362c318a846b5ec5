------------------------------ MODULE Taskdata ------------------------------
(***************************************************************************)
(* From the targets of a build to the recipes that provide them and all    *)
(* they need: cooker.buildTaskData and the class TaskData                  *)
(* (lib/bb/taskdata.py).  fail_fn and the remove methods call each other;  *)
(* their calls are frames on a stack, and the dictionaries they walk along *)
(* have any order.  "build" and "run" tell the build time items (DEPENDS)  *)
(* from the run time ones (RDEPENDS).  A definition with a suffix is a     *)
(* faulty variant of its namesake.                                         *)
(***************************************************************************)
EXTENDS Providers

\* More fields of cache:
\*   deps[kind][fn]      DEPENDS; RDEPENDS and RRECOMMENDS: sets of items
\*   flags[kind][fn]     the [depends] and [rdepends] of its tasks: triples of
\*                       a task name, an item, and the task of that item
\*   ignored             ASSUME_PROVIDED, a set of items
\*   goals               what is asked for: a sequence of triples of an item, a
\*                       task name and whether it came as "task-"
\*   abort               not --continue
\*   allowincomplete     only to draw the dependency graph, or to show a recipe

VARIABLES
  phase,        \* where buildTaskData is: "targets", "build" and "run" (the two
                \* loops of a round of add_unresolved), "done", "raised"
  td,           \* the TaskData object
  goals,        \* what is left of cache.goals
  runlist,      \* the goals so far, with the recipe to be built for each
  todo,         \* the items left of this loop's snapshot
  added,        \* did this round resolve anything
  current,      \* the item being resolved, or ""
  eligible,     \* the recipes still to be added for it
  stack,        \* the calls of fail_fn and the remove methods, the last first
  failing,      \* in the except clause
  swallowed,    \* history: an abort was raised, and caught for another target
  premature     \* history: an item was removed with recipes left to be tried

loops == <<phase, goals, runlist, todo, added>>
history == <<swallowed, premature>>
resolveVars == <<cache, td, loops, current, eligible, stack, failing, history>>

\* targets[kind][item]: its providers in order, none for an item only seen;
\* failed[kind]: failed_deps and failed_rdeps.
NewTaskData ==
  [targets |-> [build |-> [i \in {} |-> <<>>], run |-> [i \in {} |-> <<>>]],
   failed |-> [build |-> {}, run |-> {}],
   failed_fns |-> {}, seenfns |-> {}, external |-> {}]

ResolveInit(c) ==
  /\ cache = c
  /\ phase = "targets"
  /\ td = NewTaskData
  /\ goals = c.goals
  /\ runlist = <<>>
  /\ todo = {}
  /\ added = FALSE
  /\ current = ""
  /\ eligible = <<>>
  /\ stack = <<>>
  /\ failing = FALSE
  /\ swallowed = FALSE
  /\ premature = FALSE

kind == IF phase = "run" THEN "run" ELSE "build"

have(k, item) == item \in DOMAIN td.targets[k] /\ td.targets[k][item] # <<>>

\* seen_build_target and seen_run_target.
See(t, k, items) ==
  [t EXCEPT !.targets[k] =
     [i \in items \union DOMAIN @ |-> IF i \in DOMAIN @ THEN @[i] ELSE <<>>]]

\* add_build_target and add_runtime_target; the recipes that are added for an item
\* differ.
Hold(t, k, item, fn) ==
  [See(t, k, {item}) EXCEPT !.targets[k][item] = Append(@, fn)]

-----------------------------------------------------------------------------
(* fail_fn, remove_buildtarget and remove_runtarget *)

Frame(call, k, name) == [call |-> call, kind |-> k, name |-> name]
top == stack[1]

Drop(t, k, item, fn) == [t EXCEPT !.targets[k][item] = RemoveFirst(@, fn)]
Fail(t, fn) == [t EXCEPT !.failed_fns = @ \union {fn}]
RemoveTarget(t, k, item) == [t EXCEPT !.failed[k] = @ \union {item}]

\* fail_fn goes through the build targets, then through the run targets.
HoldersOf(fn, k) == {i \in DOMAIN td.targets[k] : fn \in ToSet(td.targets[k][i])}

StillEligible == ToSet(eligible) \ td.failed_fns

FailLoop ==
  /\ stack # <<>> /\ top.call = "fail"
  /\ \E k \in {"build", "run"} :
       /\ k = "run" => HoldersOf(top.name, "build") = {}
       /\ \E item \in HoldersOf(top.name, k) :
            LET t == Drop(td, k, item, top.name) IN
            IF t.targets[k][item] = <<>>
            THEN /\ td' = RemoveTarget(t, k, item)
                 /\ stack' = <<Frame("remove", k, item)>> \o stack
                 /\ premature' = (premature \/ (k = kind /\ item = current /\ StillEligible # {}))
            ELSE td' = t /\ UNCHANGED <<stack, premature>>
  /\ UNCHANGED <<cache, loops, current, eligible, failing, swallowed>>

Dependees_by_DEPENDS(k, item) == {f \in td.seenfns : item \in cache.deps.build[f]}

\* get_dependees, then those that name the item in a flag of a task.
Dependees(k, item)  == {f \in td.seenfns : item \in cache.deps[k][f]}
FlagsName(k, item)  == {f \in td.seenfns : \E g \in cache.flags[k][f] : g[2] = item}
ToFail(k, item) ==
  LET dependees == Dependees(k, item) \ td.failed_fns IN
  IF dependees # {} THEN dependees ELSE FlagsName(k, item) \ td.failed_fns

RemoveLoop ==
  /\ stack # <<>> /\ top.call = "remove"
  /\ \E fn \in ToFail(top.kind, top.name) :
       /\ td' = Fail(td, fn)
       /\ stack' = <<Frame("fail", "build", fn)>> \o stack
  /\ UNCHANGED <<cache, loops, current, eligible, failing, history>>

LoopOver ==
  IF top.call = "fail" THEN HoldersOf(top.name, "build") \union HoldersOf(top.name, "run") = {}
                       ELSE ToFail(top.kind, top.name) = {}

\* "Required build target has no buildable providers."
RequiredMissing ==
  /\ top.call = "remove" /\ top.kind = "build"
  /\ cache.abort /\ top.name \in td.external

Return ==
  /\ stack # <<>> /\ LoopOver /\ ~RequiredMissing
  /\ stack' = Tail(stack)
  /\ UNCHANGED <<cache, td, loops, current, eligible, failing, history>>

\* Who catches NoProvider: add_unresolved, for a build time item nobody asked
\* for by name, whatever target the exception is about.
Required(item) == cache.abort /\ item \in td.external /\ ~cache.allowincomplete
Caught == phase = "build" /\ ~failing /\ ~Required(current)

\* What the except clauses do.
Removal(item) ==
  IF phase = "build" /\ cache.allowincomplete THEN td' = td /\ stack' = <<>>
  ELSE td' = RemoveTarget(td, kind, item) /\ stack' = <<Frame("remove", kind, item)>>

Raise ==
  /\ stack # <<>> /\ LoopOver /\ RequiredMissing
  /\ eligible' = <<>>
  /\ IF Caught
     THEN /\ Removal(current)
          /\ failing' = TRUE
          /\ swallowed' = TRUE
          /\ UNCHANGED <<phase, premature>>
     ELSE /\ phase' = "raised"
          /\ stack' = <<>>
          /\ UNCHANGED <<td, failing, history>>
  /\ UNCHANGED <<cache, goals, runlist, todo, added, current>>

-----------------------------------------------------------------------------
(* Resolving one item: add_provider, add_provider_internal, add_rprovider *)

\* The next goal, or any item of the snapshot.
NextItems ==
  CASE phase = "targets" -> IF goals = <<>> THEN {} ELSE {goals[1][1]}
    [] phase \in {"build", "run"} -> todo
    [] OTHER -> {}

ReadyFor(item) == current = "" /\ item \in NextItems

Already(item) ==
  /\ ReadyFor(item)
  /\ item \in cache.ignored \/ have(kind, item)
  /\ current' = item
  /\ UNCHANGED <<cache, td, loops, eligible, stack, failing, history>>

\* The orders in which the recipes for an item may be tried; at run time with
\* the number of those that are preferred.
Attempts(item) ==
  IF kind = "run" THEN filterProvidersRunTime(item)
  ELSE {[order |-> s, numberPreferred |-> 0] : s \in filterProviders(item)}

\* Failed recipes do not count; AddTasks passes over them.
Usable(attempt) ==
  (\E f \in ToSet(attempt.order) : f \notin td.failed_fns) /\ ~ attempt.numberPreferred > 1

Try(item) ==
  /\ ReadyFor(item)
  /\ ~(item \in cache.ignored \/ have(kind, item))
  /\ current' = item
  /\ \E attempt \in Attempts(item) : Usable(attempt) /\ eligible' = attempt.order
  /\ UNCHANGED <<cache, td, loops, stack, failing, history>>

\* NoProvider, NoRProvider or MultipleRProvider is raised and caught at once.
NoProvider(item) ==
  /\ ReadyFor(item)
  /\ ~(item \in cache.ignored \/ have(kind, item))
  /\ \E attempt \in Attempts(item) : ~Usable(attempt)
  /\ current' = item
  /\ IF (phase = "targets" /\ cache.abort) \/ (phase = "build" /\ Required(item))
     THEN phase' = "raised" /\ UNCHANGED <<td, stack, failing>>
     ELSE /\ failing' = TRUE
          /\ Removal(item)
          /\ UNCHANGED phase
  /\ UNCHANGED <<cache, goals, runlist, todo, added, eligible, history>>

-----------------------------------------------------------------------------
(* add_tasks *)

Walks_failed_unseen(fn) ==
  {[build |-> cache.deps.build[fn] \ td.failed.build, run |-> cache.deps.run[fn] \ td.failed.run]}

\* The items of fn that are seen before one of them is found to be failed, or
\* all of them; DEPENDS come first.
Walks(fn) ==
  LET bad(k) == cache.deps[k][fn] \intersect td.failed[k]
      upto(k) == {S \union {i} : S \in SUBSET (cache.deps[k][fn] \ bad(k)), i \in bad(k)}
  IN IF bad("build") # {} THEN {[build |-> b, run |-> {}] : b \in upto("build")}
     ELSE {[build |-> cache.deps.build[fn], run |-> r] :
             r \in IF bad("run") # {} THEN upto("run") ELSE {cache.deps.run[fn]}}

Items(flags) == {g[2] : g \in flags}

AddTasks ==
  /\ current # "" /\ stack = <<>> /\ eligible # <<>> /\ phase # "raised"
  /\ eligible' = Tail(eligible)
  /\ LET fn == Head(eligible)
         held == Hold(td, kind, current, fn)
         flagged == See(See([held EXCEPT !.seenfns = @ \union {fn}],
                            "build", Items(cache.flags.build[fn])), "run", Items(cache.flags.run[fn]))
     IN CASE fn \in td.failed_fns -> UNCHANGED <<td, stack>>
          [] fn \in td.seenfns \ td.failed_fns -> td' = held /\ UNCHANGED stack
          [] OTHER ->
               \E walk \in Walks(fn) :
                 LET t == See(See(flagged, "build", walk.build), "run", walk.run)
                     fails == walk.build \intersect td.failed.build # {}
                              \/ walk.run \intersect td.failed.run # {}
                 IN IF fails THEN td' = Fail(t, fn) /\ stack' = <<Frame("fail", "build", fn)>>
                             ELSE td' = t /\ UNCHANGED stack
  /\ UNCHANGED <<cache, loops, current, failing, history>>

-----------------------------------------------------------------------------
(* The loops *)

ItemDone ==
  /\ current # "" /\ stack = <<>> /\ eligible = <<>> /\ phase # "raised"
  /\ current' = ""
  /\ failing' = FALSE
  /\ IF phase = "targets"
     THEN /\ td' = [td EXCEPT !.external = @ \union {current}]
          /\ goals' = Tail(goals)
          /\ runlist' = runlist \o
               IF have("build", current) THEN <<<<Head(goals), td.targets.build[current][1]>>>> ELSE <<>>
          /\ UNCHANGED <<todo, added>>
     ELSE /\ todo' = todo \ {current}
          /\ added' = (added \/ ~failing)
          /\ UNCHANGED <<td, goals, runlist>>
  /\ UNCHANGED <<cache, phase, eligible, stack, history>>

Unresolved(k) == {i \in DOMAIN td.targets[k] : i \notin cache.ignored \union td.failed[k]
                                                  /\ td.targets[k][i] = <<>>}

\* add_unresolved: rounds of the build time and the run time items, until a
\* round resolves nothing.
LoopDone ==
  /\ current = "" /\ NextItems = {} /\ phase \in {"targets", "build", "run"}
  /\ phase' = CASE phase = "build" -> "run"
                [] phase = "run" /\ ~added -> "done"
                [] OTHER -> "build"
  /\ todo' = IF phase' = "done" THEN {} ELSE Unresolved(phase')
  /\ added' = IF phase = "build" THEN added ELSE FALSE
  /\ UNCHANGED <<cache, td, goals, runlist, current, eligible, stack, failing, history>>

ResolveNext ==
  \/ FailLoop \/ RemoveLoop \/ Return \/ Raise
  \/ \E item \in NextItems : Already(item) \/ Try(item) \/ NoProvider(item)
  \/ AddTasks \/ ItemDone \/ LoopDone
-----------------------------------------------------------------------------
(* The inductive invariant behind NothingDropped and BuildableExactly *)

Kinds == {"build", "run"}

IsTaskData(t) ==
  /\ DOMAIN t = {"targets", "failed", "failed_fns", "seenfns", "external"}
  /\ DOMAIN t.targets = Kinds /\ DOMAIN t.failed = Kinds

\* An item lists recipes that were chosen for it and added; what a recipe needs
\* is known as soon as it is added, unless it fails at once.
TargetsInv ==
  /\ IsTaskData(td)
  /\ td.failed_fns \subseteq td.seenfns /\ td.seenfns \subseteq recipes
  /\ \A k \in Kinds :
       /\ "" \notin DOMAIN td.targets[k]
       /\ \A i \in DOMAIN td.targets[k] :
            td.targets[k][i] \in Seq(Eligible(ProvidersOf(k, i)) \intersect td.seenfns)
       /\ \A f \in td.seenfns \ td.failed_fns : cache.deps[k][f] \subseteq DOMAIN td.targets[k]

\* Each call on the stack was made after its recipe or item had been given up.
Calls == ToSet(stack)

GivenUp ==
  {Frame("fail", "build", f) : f \in td.failed_fns}
    \union UNION {{Frame("remove", k, i) : i \in td.failed[k]} : k \in Kinds}

FramesInv == stack \in Seq(GivenUp)

ItemInv ==
  /\ phase \in {"targets", "build", "run", "done", "raised"}
  /\ phase = "done" => current = ""
  /\ current = "" => stack = <<>> /\ eligible = <<>> /\ ~failing
  /\ eligible \in Seq(Eligible(ProvidersOf(kind, current)))
  /\ failing => eligible = <<>>
  /\ eligible # <<>> \/ stack # <<>> => current \notin cache.ignored
  /\ goals \in Seq(ToSet(cache.goals))
  /\ phase = "targets" /\ current # "" => goals # <<>>
  /\ "" \notin todo

\* What is given up takes down what it has to, now or in a call on the stack: a
\* recipe leaves all lists, an item fails all recipes that depend on it.
GivenUpInv ==
  /\ \A f \in td.failed_fns :
       Frame("fail", "build", f) \in Calls \/ \A k \in Kinds : HoldersOf(f, k) = {}
  /\ \A k \in Kinds : \A i \in td.failed[k] :
       Frame("remove", k, i) \in Calls \/ Dependees(k, i) \subseteq td.failed_fns

\* As long as a round has resolved nothing, what is open is left in its snapshot.
Open(k) == IF k = "build" /\ cache.allowincomplete THEN {} ELSE Unresolved(k)

RoundInv ==
  /\ failing => current \in td.failed[kind] \/ (phase = "build" /\ cache.allowincomplete)
  /\ ~added /\ (current = "" \/ failing) =>
       /\ phase = "build" => Open("build") \subseteq todo
       /\ phase = "run" => Open("build") = {} /\ Open("run") \subseteq todo
  /\ phase = "done" => Open("build") = {} /\ Open("run") = {}

ResolveInv ==
  /\ TargetsInv /\ FramesInv /\ ItemInv
  /\ phase # "raised" /\ ~swallowed => GivenUpInv /\ RoundInv
=============================================================================
