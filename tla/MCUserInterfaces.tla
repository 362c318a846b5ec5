-------------------------- MODULE MCUserInterfaces --------------------------
(***************************************************************************)
(* Two clients, the second of which comes when it likes, and an observer.  *)
(* The clients are knotty, whose mask leaves out an event that the         *)
(* observer, toaster's UI, wants.                                          *)
(***************************************************************************)
EXTENDS UserInterfaces

UsedUnwanted == [u \in UIs |-> IF u \in Clients THEN {"recipe"} ELSE {}]
=============================================================================
