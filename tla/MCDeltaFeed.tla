----------------------------- MODULE MCDeltaFeed -----------------------------
(* Instances of DeltaFeed. *)
EXTENDS DeltaFeed
=============================================================================
