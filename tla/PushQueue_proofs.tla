-------------------------- MODULE PushQueue_proofs --------------------------
(***************************************************************************)
(* The push queue is correct for every set of keys, every number of loops  *)
(* and every bound on the edits.  The inductive invariant joins the type   *)
(* invariant and the two safety properties TLC checks: Leave keeps "an     *)
(* entry exists exactly while a loop lives" only because there is one loop *)
(* per key, and Enqueue keeps "one loop per key" only because an absent    *)
(* entry means that no loop lives.  The refinement also needs that a dirty *)
(* bit is never set for nothing.                                           *)
(***************************************************************************)
EXTENDS PushQueue, TLAPS

IInv == Types /\ OnePushPerKey /\ NoStrandedEdit /\ DirtyIsStale

\* Init establishes the invariant: no entry, no loop and no edit.
LEMMA InitIInv == Init => IInv
  BY PushQueueAssumption
  DEF Init, IInv, Types, OnePushPerKey, NoStrandedEdit, DirtyIsStale, Live, LoopState, Pushing, Pushed, Idle,
      Absent, Clean, Dirty

\* A loop is in at most one state, and serves at most one key.
LEMMA LoopStates ==
  ASSUME NEW j, NEW k
  PROVE  /\ Pushing(k) # Idle /\ Pushed(k) # Idle
         /\ Pushing(j) # Pushed(k)
         /\ Pushing(j) = Pushing(k) => j = k
         /\ Pushed(j) = Pushed(k) => j = k
  <1>1. Pushing(k).pc = "pushing" /\ Pushed(k).pc = "pushed" /\ Idle.pc = "idle"
    BY DEF Pushing, Pushed, Idle
  <1>2. Pushing(j).pc = "pushing"
    BY DEF Pushing
  <1>3. Pushing(j).key = j /\ Pushing(k).key = k /\ Pushed(j).key = j /\ Pushed(k).key = k
    BY DEF Pushing, Pushed
  <1> QED BY <1>1, <1>2, <1>3

\* Starting a push of k in an idle loop l adds l to the loops alive for k.
LEMMA StartedLoop ==
  ASSUME NEW k \in Key, NEW l \in Loop, Types, loops[l] = Idle,
         loops' = [loops EXCEPT ![l] = Pushing(k)]
  PROVE  /\ Live(k)' = Live(k) \cup {l}
         /\ \A j \in Key \ {k} : Live(j)' = Live(j)
  BY LoopStates DEF Types, Live

\* A loop that stays with its key, before or after its push, stays alive.
LEMMA KeptLoop ==
  ASSUME NEW k \in Key, NEW l \in Loop, Types, loops[l] \in {Pushing(k), Pushed(k)},
         loops' \in {[loops EXCEPT ![l] = Pushing(k)], [loops EXCEPT ![l] = Pushed(k)]}
  PROVE  \A j \in Key : Live(j)' = Live(j)
  BY LoopStates DEF Types, Live

\* A loop that leaves is alive for no key any more.
LEMMA LeavingLoop ==
  ASSUME NEW k \in Key, NEW l \in Loop, Types, loops[l] \in {Pushing(k), Pushed(k)},
         loops' = [loops EXCEPT ![l] = Idle]
  PROVE  /\ Live(k)' = Live(k) \ {l}
         /\ \A j \in Key \ {k} : Live(j)' = Live(j)
  BY LoopStates DEF Types, Live

\* An edit keeps the invariant: it marks a running key dirty, or starts the one loop.
LEMMA EnqueueIInv ==
  ASSUME NEW k \in Key, IInv, Enqueue(k)
  PROVE  IInv'
  <1> USE PushQueueAssumption DEF IInv
  <1>0. edits[k] + 1 \in 0..MaxEdits /\ edits'[k] = edits[k] + 1
    BY DEF Types, Enqueue
  <1>1. CASE entry[k] # Absent
    <2>1. /\ edits' = [edits EXCEPT ![k] = @ + 1]
          /\ entry' = [entry EXCEPT ![k] = Dirty]
          /\ UNCHANGED <<loops, covered>>
      BY <1>1 DEF Enqueue
    <2>2. \A j \in Key : Live(j)' = Live(j)
      BY <2>1 DEF Live
    <2>3. Types'
      BY <1>0, <2>1 DEF Types
    <2>4. OnePushPerKey'
      BY <2>2 DEF OnePushPerKey
    <2>5. NoStrandedEdit'
      BY <1>1, <2>1, <2>2 DEF NoStrandedEdit, Types, Dirty, Absent
    <2>6. DirtyIsStale'
      BY <2>1 DEF DirtyIsStale, Types
    <2> QED BY <2>3, <2>4, <2>5, <2>6
  <1>2. CASE entry[k] = Absent
    <2>1. PICK l \in Loop : loops[l] = Idle /\ RunPush(l, k, edits'[k])
      BY <1>2 DEF Enqueue
    <2>2. /\ edits' = [edits EXCEPT ![k] = @ + 1]
          /\ entry' = [entry EXCEPT ![k] = Clean]
          /\ loops' = [loops EXCEPT ![l] = Pushing(k)]
          /\ covered' = [covered EXCEPT ![k] = edits'[k]]
      BY <1>2, <2>1 DEF Enqueue, RunPush
    <2>3. Live(k)' = {l} /\ \A j \in Key \ {k} : Live(j)' = Live(j)
      <3>1. Live(k) = {}
        BY <1>2 DEF NoStrandedEdit
      <3> QED BY <2>1, <2>2, <3>1, StartedLoop
    <2>4. Types'
      BY <1>0, <2>2 DEF Types, LoopState
    <2>5. OnePushPerKey'
      BY <2>3 DEF OnePushPerKey
    <2>6. NoStrandedEdit'
      BY <2>2, <2>3 DEF NoStrandedEdit, Types, Clean, Dirty, Absent
    <2>7. DirtyIsStale'
      BY <2>2 DEF DirtyIsStale, Types, Clean, Dirty
    <2> QED BY <2>4, <2>5, <2>6, <2>7
  <1> QED BY <1>1, <1>2

\* A push that settles changes neither the entry nor what is covered.
LEMMA SettleIInv ==
  ASSUME NEW l \in Loop, IInv, Settle(l)
  PROVE  IInv'
  <1>1. PICK k \in Key : /\ loops[l] = Pushing(k)
                         /\ loops' = [loops EXCEPT ![l] = Pushed(k)]
                         /\ UNCHANGED <<edits, entry, covered>>
    BY DEF Settle
  <1>2. \A j \in Key : Live(j)' = Live(j)
    BY <1>1, KeptLoop DEF IInv
  <1>3. Types'
    BY <1>1 DEF IInv, Types, LoopState
  <1>4. OnePushPerKey' /\ NoStrandedEdit' /\ DirtyIsStale'
    BY <1>1, <1>2 DEF IInv, OnePushPerKey, NoStrandedEdit, DirtyIsStale
  <1> QED BY <1>3, <1>4 DEF IInv

\* A repeated push covers every edit stored so far, and clears the bit.
LEMMA RepeatIInv ==
  ASSUME NEW l \in Loop, IInv, Repeat(l)
  PROVE  IInv'
  <1>1. PICK k \in Key : /\ loops[l] = Pushed(k)
                         /\ entry[k] = Dirty
                         /\ entry' = [entry EXCEPT ![k] = Clean]
                         /\ loops' = [loops EXCEPT ![l] = Pushing(k)]
                         /\ covered' = [covered EXCEPT ![k] = edits[k]]
                         /\ UNCHANGED edits
    BY DEF Repeat, RunPush
  <1>2. \A j \in Key : Live(j)' = Live(j)
    BY <1>1, KeptLoop DEF IInv
  <1>3. Types'
    BY <1>1 DEF IInv, Types, LoopState
  <1>4. OnePushPerKey'
    BY <1>2 DEF IInv, OnePushPerKey
  <1>5. NoStrandedEdit'
    BY <1>1, <1>2 DEF IInv, NoStrandedEdit, Types, Clean, Dirty, Absent
  <1>6. DirtyIsStale'
    BY <1>1 DEF IInv, DirtyIsStale, Types, Clean, Dirty, Absent
  <1> QED BY <1>3, <1>4, <1>5, <1>6 DEF IInv

\* A loop leaves a clean key only, and takes the entry with it.
LEMMA LeaveIInv ==
  ASSUME NEW l \in Loop, IInv, Leave(l)
  PROVE  IInv'
  <1>1. PICK k \in Key : /\ loops[l] = Pushed(k)
                         /\ entry[k] # Dirty
                         /\ loops' = [loops EXCEPT ![l] = Idle]
                         /\ entry' = [entry EXCEPT ![k] = Absent]
                         /\ UNCHANGED <<edits, covered>>
    BY DEF Leave
  <1>2. Live(k)' = {} /\ \A j \in Key \ {k} : Live(j)' = Live(j)
    <2>1. Live(k) = {l}
      BY <1>1 DEF IInv, OnePushPerKey, Live
    <2> QED BY <1>1, <2>1, LeavingLoop DEF IInv
  <1>3. Types'
    BY <1>1 DEF IInv, Types, LoopState
  <1>4. OnePushPerKey'
    BY <1>2 DEF IInv, OnePushPerKey
  <1>5. NoStrandedEdit'
    BY <1>1, <1>2 DEF IInv, NoStrandedEdit, Types, Dirty, Absent
  <1>6. DirtyIsStale'
    BY <1>1 DEF IInv, DirtyIsStale, Types, Dirty, Absent
  <1> QED BY <1>3, <1>4, <1>5, <1>6 DEF IInv

\* Every reachable state satisfies the inductive invariant.
THEOREM PushQueueInvariant == Spec => []IInv
  <1>1. IInv /\ [Next]_vars => IInv'
    <2> SUFFICES ASSUME IInv, [Next]_vars PROVE IInv'
      OBVIOUS
    <2>1. CASE UNCHANGED vars
      BY <2>1 DEF vars, IInv, Types, OnePushPerKey, NoStrandedEdit, DirtyIsStale, Live
    <2>2. CASE \E k \in Key : Enqueue(k)
      BY <2>2, EnqueueIInv
    <2>3. CASE \E l \in Loop : Settle(l) \/ Repeat(l) \/ Leave(l)
      BY <2>3, SettleIInv, RepeatIInv, LeaveIInv
    <2> QED BY <2>1, <2>2, <2>3 DEF Next
  <1> QED BY <1>1, InitIInv, PTL DEF Spec

\* The Map, the loops and the edits keep their types.
THEOREM PushQueueTypes == Spec => []TypeOK
  <1>1. IInv => TypeOK
    BY DEF IInv, TypeOK
  <1> QED BY <1>1, PushQueueInvariant, PTL

\* For every set of keys and loops: never two pushes of one key in flight.
THEOREM PushesAreSerial == Spec => []OnePushPerKey
  <1>1. IInv => OnePushPerKey
    BY DEF IInv
  <1> QED BY <1>1, PushQueueInvariant, PTL

\* For every set of keys and loops: no edit is stranded without a push to come.
THEOREM NoEditIsStranded == Spec => []NoStrandedEdit
  <1>1. IInv => NoStrandedEdit
    BY DEF IInv
  <1> QED BY <1>1, PushQueueInvariant, PTL

-----------------------------------------------------------------------------
\* The initial state of the queue is that of SerialPush, and each of its steps
\* is a step of SerialPush or a stutter (liveness is left to TLC).
THEOREM RefinesSerialPush == Spec => Abstract!Init /\ [][Abstract!Next]_(Abstract!vars)
  <1>1. Init => Abstract!Init
    BY LoopStates DEF Init, Abstract!Init, Live
  <1>2. IInv /\ IInv' /\ [Next]_vars => [Abstract!Next]_(Abstract!vars)
    <2> SUFFICES ASSUME IInv, IInv', [Next]_vars
                 PROVE  [Abstract!Next]_(Abstract!vars)
      OBVIOUS
    <2> DEFINE InFlight == [k \in Key |-> IF Live(k) = {} THEN {} ELSE {covered[k]}]
    <2>1. CASE UNCHANGED vars
      BY <2>1 DEF vars, Abstract!vars, Live
    <2>2. ASSUME NEW k \in Key, Enqueue(k) PROVE Abstract!Store(k)
      <3>1. /\ edits[k] < MaxEdits
            /\ edits' = [edits EXCEPT ![k] = @ + 1]
        BY <2>2 DEF Enqueue
      <3>2. CASE entry[k] # Absent
        <4>1. Live(k) # {}
          BY <3>2 DEF IInv, NoStrandedEdit
        <4>2. UNCHANGED <<loops, covered>>
          BY <2>2, <3>2 DEF Enqueue
        <4>3. InFlight' = [InFlight EXCEPT ![k] = IF @ = {} THEN {edits'[k]} ELSE @]
          BY <4>1, <4>2 DEF Live
        <4> QED BY <3>1, <4>3 DEF Abstract!Store
      <3>3. CASE entry[k] = Absent
        <4>1. Live(k) = {}
          BY <3>3 DEF IInv, NoStrandedEdit
        <4>2. PICK l \in Loop : loops[l] = Idle /\ RunPush(l, k, edits'[k])
          BY <2>2, <3>3 DEF Enqueue
        <4>3. Live(k)' = {l} /\ \A j \in Key \ {k} : Live(j)' = Live(j)
          BY <4>1, <4>2, StartedLoop DEF RunPush, IInv
        <4>4. covered' = [covered EXCEPT ![k] = edits'[k]]
          BY <4>2 DEF RunPush
        <4>5. InFlight' = [InFlight EXCEPT ![k] = IF @ = {} THEN {edits'[k]} ELSE @]
          BY <4>1, <4>3, <4>4 DEF IInv, Types
        <4> QED BY <3>1, <4>5 DEF Abstract!Store
      <3> QED BY <3>2, <3>3
    <2>3. ASSUME NEW l \in Loop, Settle(l) PROVE UNCHANGED Abstract!vars
      <3>1. PICK k \in Key : /\ loops[l] = Pushing(k)
                             /\ loops' = [loops EXCEPT ![l] = Pushed(k)]
                             /\ UNCHANGED <<edits, entry, covered>>
        BY <2>3 DEF Settle
      <3>2. \A j \in Key : Live(j)' = Live(j)
        BY <3>1, KeptLoop DEF IInv
      <3> QED BY <3>1, <3>2 DEF Abstract!vars
    <2>4. ASSUME NEW l \in Loop, Repeat(l) PROVE \E k \in Key : Abstract!Finish(k)
      <3>1. PICK k \in Key : /\ loops[l] = Pushed(k)
                             /\ loops' = [loops EXCEPT ![l] = Pushing(k)]
                             /\ entry[k] = Dirty
                             /\ covered' = [covered EXCEPT ![k] = edits[k]]
                             /\ UNCHANGED edits
        BY <2>4 DEF Repeat, RunPush
      <3>2. \A j \in Key : Live(j)' = Live(j)
        BY <3>1, KeptLoop DEF IInv
      <3>3. Live(k) # {}
        BY <3>1 DEF Live
      <3>4. covered[k] # edits[k]
        BY <3>1 DEF IInv, DirtyIsStale, Types
      <3>5. InFlight[k] = {covered[k]} /\ InFlight[k] # {} /\ InFlight[k] # {edits[k]}
        BY <3>3, <3>4
      <3>6. InFlight' = [InFlight EXCEPT ![k] = {edits[k]}]
        BY <3>1, <3>2, <3>3 DEF IInv, Types
      <3>7. Abstract!Finish(k)
        BY <3>1, <3>5, <3>6 DEF Abstract!Finish
      <3> QED BY <3>7
    <2>5. ASSUME NEW l \in Loop, Leave(l) PROVE \E k \in Key : Abstract!Finish(k)
      <3>1. PICK k \in Key : /\ loops[l] = Pushed(k)
                             /\ entry[k] # Dirty
                             /\ loops' = [loops EXCEPT ![l] = Idle]
                             /\ UNCHANGED <<edits, covered>>
        BY <2>5 DEF Leave
      <3>2. Live(k) = {l}
        BY <3>1 DEF IInv, OnePushPerKey, Live
      <3>3. Live(k)' = {} /\ \A j \in Key \ {k} : Live(j)' = Live(j)
        BY <3>1, <3>2, LeavingLoop DEF IInv
      <3>4. covered[k] = edits[k]
        BY <3>1 DEF IInv, NoStrandedEdit
      <3>5. InFlight[k] = {covered[k]} /\ InFlight[k] # {} /\ InFlight[k] = {edits[k]}
        BY <3>2, <3>4
      <3>6. InFlight' = [InFlight EXCEPT ![k] = {}]
        BY <3>1, <3>3 DEF IInv, Types
      <3>7. Abstract!Finish(k)
        BY <3>1, <3>5, <3>6 DEF Abstract!Finish
      <3> QED BY <3>7
    <2> QED BY <2>1, <2>2, <2>3, <2>4, <2>5 DEF Next, Abstract!Next
  <1> QED BY <1>1, <1>2, PushQueueInvariant, PTL DEF Spec
=============================================================================
