--------------------------- MODULE MCPositionStore ---------------------------
(* A small instance of the position store for TLC.                         *)
EXTENDS PositionStore
=============================================================================
