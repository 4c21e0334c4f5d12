------------------------------- MODULE Input -------------------------------
(***************************************************************************)
(* The state of operations that keep none: their input, chosen once.       *)
(***************************************************************************)
VARIABLE input
=============================================================================
