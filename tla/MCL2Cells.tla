------------------------------ MODULE MCL2Cells ------------------------------
(* Instances of L2Cells. *)
EXTENDS L2Cells
=============================================================================
