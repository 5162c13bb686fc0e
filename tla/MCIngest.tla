------------------------------ MODULE MCIngest ------------------------------
(***************************************************************************)
(* Instances of Ingest for TLC.                                            *)
(***************************************************************************)
EXTENDS Ingest, TLC

CONSTANTS r1, r2, s1, s2

Symmetric == Permutations(Requests) \cup Permutations(Sweepers)
=============================================================================
