----------------------------- MODULE MCIoOutbox -----------------------------
(***************************************************************************)
(* Instances of IoOutbox.  The budget of misfortunes is spelled out in the *)
(* configurations, where each of its fields is a constant of its own.      *)
(***************************************************************************)
EXTENDS IoOutbox

CONSTANTS
  i1,
  Networks, Crashes, Losses, Moves, Changes

MCBudget == [network |-> Networks, crash |-> Crashes, lost |-> Losses,
             operator |-> Moves, cloud |-> Changes]
=============================================================================
