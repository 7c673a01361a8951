-------------------------- MODULE MCByrealPositions --------------------------
(* ByrealPositions on small instances. *)
EXTENDS ByrealPositions


=============================================================================
