--------------------------- MODULE MCCapabilities ---------------------------
(***************************************************************************)
(* Instances of Capabilities for TLC.                                      *)
(***************************************************************************)
EXTENDS Capabilities, TLC

CONSTANTS image, video, i1, r1, r2

SymmetricRequests == Permutations(Requests)
=============================================================================
