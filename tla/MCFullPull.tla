----------------------------- MODULE MCFullPull -----------------------------
(* Instances of FullPull. *)
EXTENDS FullPull
=============================================================================
