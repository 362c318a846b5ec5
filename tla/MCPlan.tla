------------------------------- MODULE MCPlan -------------------------------
(* Families of small task data for TLC. *)
EXTENDS Plan

A == 1
B == 2
C == 3
MCFnName == {A, B, C}
MCTaskName == {"fetch", "build", "all"}

NoTasks == [t \in Tid |-> {}]
NoRecipes == [f \in MCFnName |-> {}]
NoFlag == [n \in MCTaskName |-> {}]

Plain ==
  [taskentries |-> {}, tdepends |-> NoTasks, idepends |-> NoTasks,
   depids |-> NoRecipes, rdepids |-> NoRecipes, deptask |-> NoFlag,
   rdeptask |-> NoFlag, recrdeptask |-> NoFlag, recideptask |-> NoFlag,
   scene |-> {}, failed_fns |-> {}, targets |-> {}]

With(entries, tdepends, scene) ==
  [Plain EXCEPT !.taskentries = entries,
                !.tdepends = [t \in Tid |-> IF t \in DOMAIN tdepends THEN tdepends[t] ELSE {}],
                !.scene = scene,
                !.targets = entries \X {FALSE}]

\* Any dependencies between three tasks, with and without cycles.
Three == {<<A, "fetch">>, <<A, "build">>, <<B, "build">>}
Graphs3 == {With(Three, g, {}) : g \in [Three -> SUBSET Three]}

\* Every acyclic graph of four tasks, up to their names, with every choice of
\* setscene tasks; one of five.
Four == <<<<A, "fetch">>, <<A, "build">>, <<B, "fetch">>, <<B, "build">>>>
Graphs4 ==
  {With(ToSet(Four), g, s) : s \in SUBSET ToSet(Four),
     g \in {f \in [ToSet(Four) -> SUBSET ToSet(Four)] :
              \A i, j \in 1..4 : Four[j] \in f[Four[i]] => i < j}}
Five == <<<<C, "all">>, <<A, "fetch">>, <<A, "build">>, <<B, "fetch">>, <<B, "build">>>>
Graph5 ==
  With(ToSet(Five),
       [t \in ToSet(Five) |->
          IF t = Five[5] THEN {} ELSE IF t = Five[1] THEN {Five[4]}
          ELSE {Five[CHOOSE i \in 1..5 : i > 1 /\ Five[i - 1] = t]}],
       {Five[2], Five[3], Five[5]})

\* Three recipes that need each other in any way, building after their own fetch
\* and after what they need is built; all of it is recursive or not.
AnyRecipes ==
  {[Plain EXCEPT
      !.taskentries = Tid \ {<<C, "fetch">>},
      !.tdepends = [t \in Tid |-> IF t[2] = "build" /\ t[1] # C THEN {<<t[1], "fetch">>} ELSE {}],
      !.idepends = [t \in Tid |-> IF t = <<B, "build">> THEN {<<C, "build">>} \intersect inter ELSE {}],
      !.depids = need, !.rdepids = rneed,
      !.deptask = [n \in MCTaskName |-> IF n = "build" THEN {"build"} ELSE {}],
      !.rdeptask = [n \in MCTaskName |-> IF n = "build" THEN rdep ELSE {}],
      !.recrdeptask = [n \in MCTaskName |-> CASE n = "all" -> recur [] n = "build" -> recurb [] OTHER -> {}],
      !.recideptask = [n \in MCTaskName |-> IF n = "all" THEN {"build"} ELSE {}],
      !.failed_fns = fail,
      !.targets = {<<<<A, "all">>, minus>>}] :
     need \in {f \in [MCFnName -> SUBSET MCFnName] : \A r \in MCFnName : r \notin f[r]},
     rneed \in {NoRecipes, [NoRecipes EXCEPT ![A] = {C}]},
     inter \in {{}, Tid}, rdep \in {{}, {"fetch"}}, recur \in {{"fetch"}, {"all", "fetch"}, {"build"}}, recurb \in {{}, {"build", "fetch"}},
     fail \in {{}, {B}}, minus \in BOOLEAN}
\* Nothing depends on a failed recipe but another failed one.
Recipes ==
  {d \in AnyRecipes : \A f \in MCFnName \ d.failed_fns :
     (d.depids[f] \union d.rdepids[f]) \intersect d.failed_fns = {}}

\* A recipe's "build" waits for every "fetch" it can reach and brings A's "all",
\* which waits for every "build", to a recipe A does not know of.
Through ==
  [With({<<A, "all">>, <<B, "build">>, <<B, "fetch">>, <<C, "fetch">>, <<C, "build">>},
        [t \in {<<B, "fetch">>} |-> {<<C, "fetch">>}], {}) EXCEPT
     !.depids = [f \in MCFnName |-> IF f = A THEN {B} ELSE {}],
     !.recrdeptask = [n \in MCTaskName |-> CASE n = "all" -> {"build"} [] n = "build" -> {"fetch"}
                                             [] OTHER -> {}]]

\* The recideptask flag names a task the recipe does not have.
ItaskUnknown ==
  [With({<<A, "all">>, <<A, "fetch">>}, NoTasks, {}) EXCEPT
     !.recrdeptask = [n \in MCTaskName |-> IF n = "all" THEN {"fetch"} ELSE {}],
     !.recideptask = [n \in MCTaskName |-> IF n = "all" THEN {"build"} ELSE {}]]

-----------------------------------------------------------------------------
(* Recipes to resolve: "v" and "lib" by two or three recipes, "u" by none. *)

Item == {"v", "t", "u", "lib", "alt", ""}
NoItems == [f \in MCFnName |-> {}]

Recipe(provides, need, rneed, wanted, mode) ==
  [pkg_fn |-> [f \in MCFnName |-> <<"v", "alt", "t">>[f]],
   bbfile_priority |-> [f \in MCFnName |-> 1], pkg_dp |-> [f \in MCFnName |-> 0],
   version |-> [f \in MCFnName |-> 1],
   files |-> <<A, B, C>>, provides |-> provides, rproviders |-> [f \in MCFnName |-> ToSet(provides[f])],
   preferred_version |-> [f \in MCFnName |-> FALSE],
   preferred |-> [i \in Item |-> ""], preferred_r |-> [i \in Item |-> ""],
   deps |-> [build |-> need, run |-> rneed], flags |-> [build |-> NoItems, run |-> NoItems],
   ignored |-> {}, goals |-> wanted,
   abort |-> mode \in {"abort", "show"}, allowincomplete |-> mode \in {"tree", "show"},
   tasks |-> [f \in MCFnName |-> {"fetch", "build"}],
   parents |-> [n \in MCTaskName |-> IF n = "build" THEN {"fetch"} ELSE {}],
   deptask |-> [n \in MCTaskName |-> IF n = "build" THEN {"build"} ELSE {}],
   rdeptask |-> [n \in MCTaskName |-> IF n = "build" THEN {"fetch"} ELSE {}],
   recrdeptask |-> NoFlag, recideptask |-> NoFlag, scene |-> {}]

Goal(item) == <<item, "build", FALSE>>

\* Any build time dependencies; two recipes for "v".
Needs == {Recipe(<<<<"v">>, <<"v">>, <<"t">>>>, need, NoItems, wanted, mode) :
            need \in [MCFnName -> SUBSET {"v", "t", "u"}],
            wanted \in {<<Goal("v")>>, <<Goal("v"), Goal("t")>>, <<Goal("u"), Goal("t")>>},
            mode \in {"abort", "continue", "tree", "show"}}

\* Needs at run time and by the flags of tasks, some of them ASSUME_PROVIDED.
Flags(items) == {<<"build", i, "fetch">> : i \in items}
Over(fns, f) == [r \in MCFnName |-> IF r \in fns THEN f[r] ELSE {}]
FlagNeeds ==
  {[Recipe(<<<<"v">>, <<"lib", "t">>, <<"t">>>>, Over({A}, need), Over({B, C}, rneed),
           <<Goal("v")>>, mode) EXCEPT
      !.flags = [build |-> Over({A, B}, fneed), run |-> Over({A, C}, rfneed)],
      !.ignored = ignore, !.rproviders[C] = @ \union packaged] :
     need \in [{A} -> {{"t"}, {"lib", "t"}}],
     rneed \in [{B, C} -> {{}, {"t"}, {"u"}}],
     fneed \in [{A, B} -> {{}, Flags({"t"}), Flags({"u"})}],
     rfneed \in [{A, C} -> {{}, Flags({"u"})}],
     ignore \in {{}, {"u"}}, packaged \in {{}, {"u"}}, mode \in {"abort", "continue"}}

\* Three recipes for one item, called the same or not, as the configuration
\* prefers them.
PNs == {<<<<"v", "lib", "alt">>, <<A, B, C>>>>, <<<<"v", "v", "alt">>, <<A, B, C>>>>,
        <<<<"v", "v", "alt">>, <<B, A, C>>>>, <<<<"v", "v", "v">>, <<B, A, C>>>>}
Preferences ==
  {[Recipe(<<<<"v", "t">>, <<"lib", "t">>, <<"alt", "t">>>>, [NoItems EXCEPT ![f] = {"u"}],
           [NoItems EXCEPT ![A] = {"t"}], <<Goal(item)>>, "continue") EXCEPT
      !.pkg_fn = named[1], !.files = named[2], !.preferred_version = pref, !.bbfile_priority = pri, !.version = [r \in MCFnName |-> (r * 2) % 5],
      !.preferred = [i \in Item |-> CASE i = "v" -> "v" [] i = "lib" -> lib [] i = "t" -> "alt" [] OTHER -> ""]] :
     f \in {B, C}, item \in {"v", "t"}, named \in PNs,
     pref \in [MCFnName -> BOOLEAN], pri \in [MCFnName -> {1, 2}], lib \in {"lib", "alt", ""}}

MCCaches == {Needs, FlagNeeds, Preferences}

-----------------------------------------------------------------------------
(* What does not hold. *)

\* With Through, what another recursive task adds is not recursed into.
RecursionThroughOthers ==
  step = "prepared" =>
    \A t \in recursivetasks \intersect runtaskentries : \A u \in Ancestors(t) :
      TasksOf({u[1]}, data.recrdeptask[t[2]]) \ (recursivetasksselfref \union {t}) \subseteq Ancestors(t)

\* With Graph5 the result depends on the order in which the two endpoints of a
\* level are taken.
SquashExact == Squashed => \A t \in setscene : squash[t] = ServedBy(t)

\* A recipe is given up although another recipe could provide what it needs.
AsMuchAsPossibleKept == HandedOver => td.failed_fns \subseteq Unbuildable(TRUE)

\* An abort is caught on behalf of another target, and the build goes on.
AbortRespected ==
  HandedOver /\ cache.abort =>
    \A g \in ToSet(cache.goals) \ {h \in ToSet(cache.goals) : h[1] \in cache.ignored} : have("build", g[1])

\* "Please report this bug": nothing is left to build and nothing was raised.
NoBugReported == cache # NoCache /\ step = "nothing" => ~cache.abort

\* What the [depends] of a task names is provided or the recipe is given up.
FlagsKept ==
  HandedOver /\ ~swallowed /\ ~cache.allowincomplete =>
    \A f \in td.seenfns \ td.failed_fns : \A i \in Items(cache.flags.build[f]) \ cache.ignored :
       have("build", i) /\ i \notin td.failed.build

\* prepare() takes any list of run time providers for a list with a member.
RunTimeProvided == cache # NoCache => step # "raised"

\* Conflicting PREFERRED_PROVIDER entries are an error, however the list of the
\* eligible recipes is ordered.
ConflictFound ==
  HandedOver =>
    \A i \in {j \in DOMAIN td.targets.run : have("run", j)} :
      LET fns == Eligible(ProvidersOf("run", i)) IN
      Cardinality(UNION {Chosen(cache, SetToSeq(fns), cache.preferred[v]) :
                           v \in UNION {ToSet(pn_provides(cache, cache.pkg_fn[f])) : f \in fns}}) <= 1

MCTaskData == Graphs3 \union Graphs4 \union {Graph5, Through, ItaskUnknown} \union Recipes
=============================================================================
