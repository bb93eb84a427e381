--------------------------- MODULE MCFileRotation ---------------------------
(* Small instances of FileRotation for TLC: the constants of a run are sets *)
(* and numbers of its configuration.                                        *)
EXTENDS FileRotation
=============================================================================
