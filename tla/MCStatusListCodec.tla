-------------------------- MODULE MCStatusListCodec --------------------------
(* Small instances of StatusListCodec for TLC.                              *)
EXTENDS StatusListCodec

(* Valid, invalid, suspended, a reserved value (3), values of 9 (256), 17   *)
(* (65539) and 32 bits (2^31 + 1).                                          *)
MixedStatuses == {{}, {0}, {1}, {0, 1}, {8}, {0, 1, 16}, {0, 31}}

(* A negative index, neighbours in and across a byte, one above the limit.  *)
MixedIndices == {-1, 0, 1, 8, 9}
=============================================================================
