----------------------------- MODULE PushQueue -----------------------------
(***************************************************************************)
(* The per-key "single-flight with dirty bit" push queue of                *)
(* lib/cloud/sync-queue.ts.  A write to an IO or to an L2 cell is stored   *)
(* first and then handed to enqueueSyncPush(key, pushFn).  At most one     *)
(* push loop may live per key; a request that finds one only sets its      *)
(* dirty bit.  The code keeps one Map entry per key and one async          *)
(* runPushLoop per started entry: they are separate here, so that "one     *)
(* loop per key" is something the model can get wrong.                     *)
(*                                                                         *)
(* What a push does with what it reads is IoOutbox's business.  Here an    *)
(* edit is a counter, and a push covers the edits stored when it starts    *)
(* ("the push function should ALWAYS read the latest local state").        *)
(***************************************************************************)
EXTENDS Naturals

CONSTANTS Key,      \* the keys, `io:ID` and `l2cell:D-C`
          Loop,     \* identities of runPushLoop activations (model bound)
          MaxEdits  \* edits per key (model bound)

ASSUME PushQueueAssumption == MaxEdits \in Nat

VARIABLES
  edits,   \* edits[k]: local writes stored for k so far
  entry,   \* entry[k]: the Map entry: absent, or running with its dirty bit
  loops,   \* loops[l]: the runPushLoop activation l, or Idle
  covered  \* covered[k]: the edits stored when the latest push for k started

vars == <<edits, entry, loops, covered>>

Absent == "absent"
Clean  == "clean"
Dirty  == "dirty"

Idle == [pc |-> "idle"]
\* pushing: awaiting pushFn(); pushed: it settled, `while (entry.dirty)` is next.
Pushing(k) == [pc |-> "pushing", key |-> k]
Pushed(k)  == [pc |-> "pushed",  key |-> k]
LoopState  == {Idle} \cup {Pushing(k) : k \in Key} \cup {Pushed(k) : k \in Key}

Live(k) == {l \in Loop : loops[l] \in {Pushing(k), Pushed(k)}}

Types ==
  /\ edits \in [Key -> 0..MaxEdits]
  /\ covered \in [Key -> 0..MaxEdits]
  /\ entry \in [Key -> {Absent, Clean, Dirty}]
  /\ loops \in [Loop -> LoopState]

\* The dirty bit is set only while there is an edit no push has covered, and a
\* push covers no edit that is still to come.
DirtyIsStale ==
  \A k \in Key :
    /\ covered[k] <= edits[k]
    /\ entry[k] = Dirty => covered[k] < edits[k]

\* The types, and what the dirty bit stands for: it never costs a needless push.
TypeOK == Types /\ DirtyIsStale

Init ==
  /\ edits = [k \in Key |-> 0]
  /\ covered = [k \in Key |-> 0]
  /\ entry = [k \in Key |-> Absent]
  /\ loops = [l \in Loop |-> Idle]

\* pushFn is called synchronously: it covers what is stored in this very step.
RunPush(l, k, latest) ==
  /\ loops'   = [loops EXCEPT ![l] = Pushing(k)]
  /\ covered' = [covered EXCEPT ![k] = latest]

\* Plausible bugs, used only to show that the properties notice them: a second
\* loop, a dirty bit never set, ...
EagerEnqueue(k) ==
  /\ edits[k] < MaxEdits
  /\ edits' = [edits EXCEPT ![k] = @ + 1]
  /\ entry' = [entry EXCEPT ![k] = Clean]
  /\ \E l \in Loop : loops[l] = Idle /\ RunPush(l, k, edits'[k])

ForgetfulEnqueue(k) ==
  /\ edits[k] < MaxEdits
  /\ edits' = [edits EXCEPT ![k] = @ + 1]
  /\ IF entry[k] # Absent
       THEN UNCHANGED <<entry, loops, covered>>
       ELSE /\ entry' = [entry EXCEPT ![k] = Clean]
            /\ \E l \in Loop : loops[l] = Idle /\ RunPush(l, k, edits'[k])

\* A handler stores an edit and calls enqueueSyncPush: with an entry present it
\* only marks it dirty, otherwise it creates the entry and starts a loop.
Enqueue(k) ==
  /\ edits[k] < MaxEdits
  /\ edits' = [edits EXCEPT ![k] = @ + 1]
  /\ IF entry[k] # Absent
       THEN /\ entry' = [entry EXCEPT ![k] = Dirty]
            /\ UNCHANGED <<loops, covered>>
       ELSE /\ entry' = [entry EXCEPT ![k] = Clean]
            /\ \E l \in Loop : /\ loops[l] = Idle
                               /\ RunPush(l, k, edits'[k])

\* `await pushFn()` resolves, or rejects and the loop swallows the exception.
Settle(l) ==
  \E k \in Key :
    /\ loops[l] = Pushing(k)
    /\ loops' = [loops EXCEPT ![l] = Pushed(k)]
    /\ UNCHANGED <<edits, entry, covered>>

\* ... a dirty bit that is not cleared for the next round, ...
StickyRepeat(l) ==
  \E k \in Key :
    /\ loops[l] = Pushed(k)
    /\ entry[k] = Dirty
    /\ RunPush(l, k, edits[k])
    /\ UNCHANGED <<edits, entry>>

\* An edit came in during the push: clear the bit first, then push again.
Repeat(l) ==
  \E k \in Key :
    /\ loops[l] = Pushed(k)
    /\ entry[k] = Dirty
    /\ entry' = [entry EXCEPT ![k] = Clean]
    /\ RunPush(l, k, edits[k])
    /\ UNCHANGED edits

\* ... a loop that leaves without looking at the dirty bit.
CarelessLeave(l) ==
  \E k \in Key :
    /\ loops[l] = Pushed(k)
    /\ loops' = [loops EXCEPT ![l] = Idle]
    /\ entry' = [entry EXCEPT ![k] = Absent]
    /\ UNCHANGED <<edits, covered>>

\* No edit came in: the `finally` block deletes the Map entry.
Leave(l) ==
  \E k \in Key :
    /\ loops[l] = Pushed(k)
    /\ entry[k] # Dirty
    /\ loops' = [loops EXCEPT ![l] = Idle]
    /\ entry' = [entry EXCEPT ![k] = Absent]
    /\ UNCHANGED <<edits, covered>>

Next == \/ \E k \in Key : Enqueue(k)
        \/ \E l \in Loop : Settle(l) \/ Repeat(l) \/ Leave(l)

\* Every push settles (fetch has a 15 s timeout) and the event loop runs every
\* continuation; nobody is obliged to edit.
Spec == /\ Init /\ [][Next]_vars
        /\ \A l \in Loop : WF_vars(Settle(l) \/ Repeat(l) \/ Leave(l))

-----------------------------------------------------------------------------
\* Safety: two pushes of one key are never in flight together, so they cannot
\* arrive at the cloud out of order (the race sync-queue.ts exists for).
OnePushPerKey == \A k \in Key : \A l, m \in Live(k) : l = m

\* Safety: an edit stored while a push is in flight is never stranded: unless
\* the dirty bit promises another push, the latest edit is the one covered,
\* also once the loop is gone and nothing would ever look at the key again.
NoStrandedEdit ==
  \A k \in Key :
    /\ entry[k] # Dirty => covered[k] = edits[k]
    /\ entry[k] # Absent <=> Live(k) # {}

\* Liveness: every edit is covered by a push that starts after it is stored.
EveryEditPushed ==
  \A k \in Key : \A n \in 1..MaxEdits : (edits[k] >= n) ~> (covered[k] >= n)

\* Refinement: the queue implements SerialPush, where a key has at most one
\* push in flight and a finishing push starts over if it has become stale.
Abstract == INSTANCE SerialPush WITH
  stored   <- edits,
  inFlight <- [k \in Key |-> IF Live(k) = {} THEN {} ELSE {covered[k]}]

ImplementsSerialPush == Abstract!Spec
=============================================================================
