---------------------------- MODULE MCComposedOp ----------------------------
(* Instances of ComposedOp for TLC.                                          *)
EXTENDS ComposedOp
=============================================================================
