---------------------------- MODULE MCSimpleQueue ----------------------------
(* Instances of SimpleQueue: up to three keys, the first on an MCM of its own. *)
EXTENDS SimpleQueueClaims

CONSTANTS k1, k2, k3, m1, m2, Networks, Crashes, Losses, Moves

MCMcmOf  == [k \in Key |-> IF k = k1 THEN m1 ELSE m2]
MCBudget == [network |-> Networks, crash |-> Crashes, lost |-> Losses, operator |-> Moves]
=============================================================================
