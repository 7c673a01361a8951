-------------------------- MODULE MCOperationQueue --------------------------
(* A small instance of the operation queue for TLC.                        *)
EXTENDS OperationQueue
=============================================================================
