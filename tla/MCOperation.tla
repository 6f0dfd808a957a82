---------------------------- MODULE MCOperation -----------------------------
(* Instances of Operation for TLC.                                           *)
EXTENDS Operation
=============================================================================
