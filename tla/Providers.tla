----------------------------- MODULE Providers -----------------------------
(***************************************************************************)
(* Which recipes may provide an item, and which of them is tried first     *)
(* (lib/bb/providers.py).  A recipe is a number: files are sorted by name. *)
(* A definition with a suffix is a faulty variant of its namesake, with    *)
(* which the properties are tried; no specification uses it.               *)
(***************************************************************************)
EXTENDS Integers, FiniteSets, Sequences, FiniteSetsExt, SequencesExt

VARIABLE cache   \* what the recipes and the configuration say; fixed during a command

\* The fields of cache that matter here; a recipe is a member of DOMAIN pkg_fn.
\*   pkg_fn[fn]              PN, the name of the recipe
\*   bbfile_priority[fn], pkg_dp[fn]   priority of its layer, DEFAULT_PREFERENCE
\*   version[fn]             its version, a number
\*   files                   the recipes in the order in which they came into the cache
\*   provides[fn]            PROVIDES, a sequence of items
\*   rproviders[fn]          the packages it makes or names in RPROVIDES, a set
\*   preferred_version[fn]   does PREFERRED_VERSION of its PN match its version
\*   preferred[item]         PREFERRED_PROVIDER: a PN or ""
\*   preferred_r[item]       PREFERRED_RPROVIDER

recipes == DOMAIN cache.pkg_fn

\* Where a definition takes a cache, c, it is the one above.
\* fn_provides: a recipe always provides its PN.
fn_provides(c, f) == <<c.pkg_fn[f]>> \o c.provides[f]

\* pn_provides: what all the recipes of a PN provide, items they share more than
\* once, which makes no difference.
pn_provides(c, pn) ==
  LET fns == SelectSeq(c.files, LAMBDA f : c.pkg_fn[f] = pn)
  IN FlattenSeq([i \in DOMAIN fns |-> fn_provides(c, fns[i])])

ProvidersOf(kind, item) ==
  IF kind = "build" THEN {f \in recipes : item \in ToSet(fn_provides(cache, f))}
                    ELSE {f \in recipes : item \in cache.rproviders[f]}

\* The members of S for which measure is highest.
Highest(S, measure) == {f \in S : \A g \in S : measure[g] <= measure[f]}
Lowest(S, measure)  == {f \in S : \A g \in S : measure[f] <= measure[g]}

\* findPreferredProvider: the first match in the order of sortPriorities, which
\* puts a lower default preference first.
findPreferredProvider(files) ==
  LET matching == {f \in files : cache.preferred_version[f]} IN
  IF matching = {} THEN {}
  ELSE {Min(Lowest(Highest(matching, cache.bbfile_priority), cache.pkg_dp))}

\* findLatestProvider, in the layer of the highest priority.
findLatestProvider(files) ==
  Min(Highest(Highest(Highest(files, cache.bbfile_priority), cache.pkg_dp), cache.version))

\* One recipe is eligible of all that have the same PN.
Eligible(providers) ==
  {LET files == {f \in providers : cache.pkg_fn[f] = pn}
       preferred == findPreferredProvider(files)
   IN IF preferred # {} THEN CHOOSE f \in preferred : TRUE ELSE findLatestProvider(files)
     : pn \in {cache.pkg_fn[f] : f \in providers}}

\* Eligible recipes in every order that keeps to a rank, the lowest first: in
\* between, _filterProviders has the order of a dictionary.
Ranked(fns, rank) ==
  {s \in SetToSeqs(fns) : \A i, j \in DOMAIN s : i < j => rank[s[i]] <= rank[s[j]]}

\* A preferred version first, but before that the recipe called like the item.
RankOf(item, f) ==
  IF cache.pkg_fn[f] = item THEN 1 ELSE IF cache.preferred_version[f] THEN 2 ELSE 3

ToFront(f, s) == <<f>> \o RemoveFirst(s, f)

Chosen(c, s, pn) == {f \in ToSet(s) : c.pkg_fn[f] = pn}

\* filterProviders, with the PREFERRED_PROVIDER first.
filterProviders(item) ==
  Ranked(Eligible(ProvidersOf("build", item)),
         [f \in recipes |-> IF cache.pkg_fn[f] = cache.preferred[item] THEN 0 ELSE RankOf(item, f)])

\* The recipe that f speaks for: by the first item that recipes
\* of its PN provide and whose PREFERRED_PROVIDER is among the eligible ones s and is not yet in done.
SpeaksFor(c, f, s, done) ==
  LET named == SelectSeq(pn_provides(c, c.pkg_fn[f]),
                         LAMBDA v : Chosen(c, s, c.preferred[v]) \ done # {})
  IN IF named = <<>> THEN {} ELSE Chosen(c, s, c.preferred[named[1]])

\* The places in the list of those that speak for one, and the first it is.
Speakers(c, s) == {i \in DOMAIN s : SpeaksFor(c, s[i], s, {}) # {}}
FirstSpokenFor(c, s) == CHOOSE f \in SpeaksFor(c, s[Min(Speakers(c, s))], s, {}) : TRUE

\* The loop removes what it prefers from the list it walks along, the first
\* time: what follows is skipped.
Walked(c, s) ==
  IF Speakers(c, s) = {} THEN s
  ELSE LET i == Min(Speakers(c, s))
           rest == RemoveFirst(s, FirstSpokenFor(c, s))
       IN SubSeq(s, 1, i) \o SubSeq(rest, i + 1, Len(rest))

InferPreferred(c, s) ==
  FoldLeft(LAMBDA preferred, f : preferred \union SpeaksFor(c, f, s, preferred), {}, Walked(c, s))

\* Where more than one is preferred the order does not matter: nothing is tried.
InferredOrder(c, s) == IF Speakers(c, s) = {} THEN s ELSE ToFront(FirstSpokenFor(c, s), s)

\* filterProvidersRunTime: the orders it may return, each with numberPreferred.
filterProvidersRunTime(item) ==
  {LET rprefer == Chosen(cache, s, cache.preferred_r[item])
   IN IF rprefer # {}
      THEN [order |-> ToFront(CHOOSE f \in rprefer : TRUE, s), numberPreferred |-> 1]
      ELSE [order |-> InferredOrder(cache, s), numberPreferred |-> Cardinality(InferPreferred(cache, s))]
     : s \in Ranked(Eligible(ProvidersOf("run", item)), [f \in recipes |-> RankOf(item, f)])}
=============================================================================
