---------------------------- MODULE MCBlindClock ----------------------------
(* Model-checking instances of BlindClock: the values are in the .cfg      *)
(* files.  No symmetry: the runs check liveness.                           *)
EXTENDS BlindClock
=============================================================================
