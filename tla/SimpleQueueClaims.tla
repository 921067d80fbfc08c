-------------------------- MODULE SimpleQueueClaims --------------------------
(***************************************************************************)
(* What a comment of the repository says of the guided queue and the code  *)
(* does not do.                                                            *)
(***************************************************************************)
EXTENDS SimpleQueue

\* guided-task-state-sync.ts:70: "Push the LATEST queued state for this task
\* (handles rapid edits)".  When no push of a key is under way and none of its
\* rows waits, the cloud holds its latest edit (no row is lost or discarded here).
RapidEditsArrive ==
  \A k \in Key : Busy(k) \/ RowsOf(queue, k) # {} \/ cloud[k] = edits[k]
=============================================================================
