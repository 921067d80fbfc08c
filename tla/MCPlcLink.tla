------------------------------ MODULE MCPlcLink ------------------------------
(* Instances of PlcLink. *)
EXTENDS PlcLink
=============================================================================
