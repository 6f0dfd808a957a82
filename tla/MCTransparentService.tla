------------------------ MODULE MCTransparentService ------------------------
(* Instances of TransparentService for TLC.                                  *)
EXTENDS TransparentService
=============================================================================
