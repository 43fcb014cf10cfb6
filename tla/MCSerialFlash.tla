---------------------------- MODULE MCSerialFlash ----------------------------
(* Up to three pages; the first two share a sector. *)
EXTENDS SerialFlash

CONSTANTS a1, a2, b1

MCSector == [p \in Pages |-> IF p = b1 THEN 1 ELSE 0]
==============================================================================
