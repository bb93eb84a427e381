------------------------- MODULE MCStatusListReads -------------------------
(* Small instances of StatusListReads for TLC: the constants of a run are   *)
(* model values and numbers of its configuration.                           *)
EXTENDS StatusListReads
=============================================================================
