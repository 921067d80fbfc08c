---------------------------- MODULE MCPushQueue ----------------------------
(***************************************************************************)
(* Two keys that share three loop identities: one more than the code can   *)
(* ever use, so that a second loop for a key would have room to appear.    *)
(***************************************************************************)
EXTENDS PushQueue, TLC

CONSTANTS k1, k2, l1, l2, l3

MCKey  == {k1, k2}
MCLoop == {l1, l2, l3}
=============================================================================
