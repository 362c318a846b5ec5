------------------------------ MODULE MCPRServ ------------------------------
(* Small instances of the PR service for TLC. *)
EXTENDS PRServ, TLC

CONSTANTS k1, s1, s2, s3

SumSymmetry == Permutations(Sum)
=============================================================================
