----------------------------- MODULE SerialPush -----------------------------
(***************************************************************************)
(* What lib/cloud/sync-queue.ts promises its callers, without its Map, its *)
(* dirty bit or its loops: pushes of one key never overlap, and a push     *)
(* that finishes after a newer edit was stored is followed by another.     *)
(***************************************************************************)
EXTENDS Naturals

CONSTANTS Key, MaxEdits

VARIABLES
  stored,    \* stored[k]: edits stored for k
  inFlight   \* inFlight[k]: {n} while a push covering edit n runs, or {}

vars == <<stored, inFlight>>

Init == /\ stored   = [k \in Key |-> 0]
        /\ inFlight = [k \in Key |-> {}]

\* An edit is stored; with no push in flight one starts at once and covers it.
Store(k) ==
  /\ stored[k] < MaxEdits
  /\ stored' = [stored EXCEPT ![k] = @ + 1]
  /\ inFlight' = [inFlight EXCEPT ![k] = IF @ = {} THEN {stored'[k]} ELSE @]

\* The push in flight ends, and is followed by one for the edits it missed.
Finish(k) ==
  /\ inFlight[k] # {}
  /\ inFlight' = [inFlight EXCEPT ![k] = IF @ = {stored[k]} THEN {} ELSE {stored[k]}]
  /\ UNCHANGED stored

Next == \E k \in Key : Store(k) \/ Finish(k)

Spec == /\ Init /\ [][Next]_vars
        /\ \A k \in Key : WF_vars(Finish(k))
=============================================================================
