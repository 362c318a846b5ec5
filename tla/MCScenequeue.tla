---------------------------- MODULE MCScenequeue ----------------------------
(* Small run queues for the setscene stage. *)
EXTENDS Scenequeue

Queue(g, scene, hard, targets, hash, force, forbidden) ==
  [depends |-> g, scene |-> scene, hard |-> hard, targets |-> targets,
   hashvalidate |-> hash, force |-> force, forbidden |-> forbidden]

\* An image is made of a package, built with a tool and with another recipe's
\* sysroot; the package can be obtained only with pseudo at hand.
ImageGraph ==
  [t \in {"image", "write", "compile", "sysroot", "lcompile", "pseudo"} |->
     CASE t = "image" -> {"write"}
       [] t = "write" -> {"compile", "pseudo"}
       [] t = "compile" -> {"sysroot"}
       [] t = "sysroot" -> {"lcompile"}
       [] OTHER -> {}]
ImageScene == {"write", "sysroot", "pseudo"}

\* A chain of setscene tasks with tasks in between and a way around them.
ChainGraph ==
  [t \in {"a", "b", "c", "d", "e"} |->
     CASE t = "a" -> {"d"} [] t = "b" -> {"c"} [] t = "c" -> {"d"}
       [] t = "d" -> {"e"} [] OTHER -> {}]

MCRunQueue ==
  {Queue(ImageGraph, ImageScene, {<<"pseudo", "write">>}, {"image"}, h, FALSE, f) :
     h \in BOOLEAN, f \in {{}, {"sysroot"}}}
  \union
  {Queue(ChainGraph, {"b", "c", "e"}, {}, t, h, f, {}) :
     h \in BOOLEAN, f \in BOOLEAN, t \in {{"a"}, {"b"}}}
  \union {Queue(ChainGraph, {}, {}, {"a"}, TRUE, FALSE, {})}

\* The hard dependencies of these queues are as LaunchOrder wants them.
ASSUME NoChains == NoHardChainsAtAll

(* What does not hold. *)

\* A hard dependency that has one itself, with a task and a setscene task below.
\* LaunchOrder fails where the hash check skips the task in the middle,
\* InputsAvailable with the hash check and without.
HardChainGraph ==
  [t \in {"top", "u", "v", "t", "m", "x"} |->
     CASE t = "top" -> {"u"} [] t = "u" -> {"m", "v", "t"} [] t = "m" -> {"x"}
       [] OTHER -> {}]

HardChainRunQueue ==
  {Queue(HardChainGraph, {"u", "v", "t", "x"}, {<<"t", "v">>, <<"v", "u">>}, {"top"},
         h, FALSE, {}) : h \in BOOLEAN}

\* Elected tasks can miss what was skipped as unneeded.
NothingMissing == pc = "end" => \A t \in WillRun : Missing(t) = {}

\* execute() overwrites the state that the failure of a forbidden setscene task
\* has just set.
EnforcedFailureEnds ==
  [][state = "CleanUp" => state' \in {"CleanUp", "Complete"}]_vars
=============================================================================
