------------------------ MODULE MCStatusListService ------------------------
(* Small instances of StatusListService for TLC.                            *)
EXTENDS StatusListService, TLC

RequestSymmetry == Permutations(Requests)

=============================================================================
