---------------------------- MODULE MCBlockLinks ----------------------------
(* A one-die device for TLC.  The logical slices are not reduced by         *)
(* symmetry, which would be unsound for the liveness property of the run.   *)
EXTENDS BlockLinks
=============================================================================
