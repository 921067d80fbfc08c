----------------------------- MODULE MCSseClient -----------------------------
(* Instances of SseClient. *)
EXTENDS SseClient
=============================================================================
