------------------------------- MODULE MCFetch -------------------------------
(***************************************************************************)
(* Two builds that fetch one URL: a file, with a file:// mirror before     *)
(* upstream and an http:// one after it, or a git repository, with an      *)
(* http:// mirror of its tarball before and a file:// one after.           *)
(***************************************************************************)
EXTENDS Fetch

CONSTANTS f1, h1, f2, h2

UsedPremirrors == [u \in {"wget", "git"} |-> IF u = "wget" THEN <<f1>> ELSE <<h1>>]
UsedMirrors    == [u \in {"wget", "git"} |-> IF u = "wget" THEN <<h2>> ELSE <<f2>>]

(* h2 may have either version of the file; the others have the first one   *)
(* only.                                                                   *)
UsedServes == [m \in {f1, h1, f2, h2} |-> IF m = h2 THEN {{1}, {2}} ELSE {{1}}]
=============================================================================
