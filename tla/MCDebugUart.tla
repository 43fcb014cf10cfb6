----------------------------- MODULE MCDebugUart -----------------------------
(* Two printing tasks besides vMainTask. *)
EXTENDS DebugUart

CONSTANTS main, bdinfo, test

MCOrder == <<test, bdinfo>>
MCLens  == {1, 2, 3}
==============================================================================
