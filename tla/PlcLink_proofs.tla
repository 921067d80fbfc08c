---------------------------- MODULE PlcLink_proofs ----------------------------
(***************************************************************************)
(* The connection to a PLC, for every set of tags and of overlapping calls, *)
(* any patience with failing cycles, and any number of requests and turns.  *)
(*                                                                         *)
(* As long as no call has crossed another, one call is at work (Alone), and *)
(* what is in the map while it creates tags is what it has created itself   *)
(* (Creating): so no handle is replaced, and a connected client reads.      *)
(*                                                                         *)
(* The bound on the loops that were stopped and have not ended needs an     *)
(* account of where loops come from (Spending): each has been started by a  *)
(* call, each call by an operator or by the timer, and the timer by a       *)
(* failed call or by the loss of a PLC that was there, which takes a turn.  *)
(***************************************************************************)
EXTENDS PlcLink, FiniteSetTheorems, TLAPS

Alone == ~crossed => \A c, d \in Call :
           calls[c].pc # "idle" /\ calls[d].pc # "idle" => c = d

Creating == ~crossed => \A c \in Call : calls[c].pc = "creating" =>
              held = calls[c].got /\ calls[c].got \cap calls[c].todo = {}

\* A client that has been disposed of starts nothing.
Quiet == disposed => ~timer /\ (~crossed => \A c \in Call : calls[c].pc = "idle")

\* A PLC that has never been there has given no handle.
Unseen == plc # "up" /\ turns = 0 => held = {} /\ ~reading /\ \A c \in Call : calls[c].got = {}

\* What may still become an aborted loop has been paid for.
One(b)  == IF b THEN 1 ELSE 0
Working == At("reset") \cup At("creating")
Losable == isConn /\ plc # "up" /\ turns > 0
Spending ==
  /\ IsFiniteSet(Working)
  /\ old + One(reading) + One(timer) + Cardinality(Working) + One(Losable) <= asks + turns

IInv == /\ TypeOK /\ Alone /\ Creating /\ Quiet /\ Unseen /\ Spending
        /\ HandlesAreHeld /\ ConnectedIsRead

-----------------------------------------------------------------------------
LEMMA Flags == TypeOK => /\ timer \in BOOLEAN /\ ever \in BOOLEAN /\ disposed \in BOOLEAN
                         /\ reading \in BOOLEAN /\ isConn \in BOOLEAN /\ wanted \in BOOLEAN
                         /\ leaked \in BOOLEAN /\ crossed \in BOOLEAN /\ late \in BOOLEAN
  BY DEF TypeOK

LEMMA CallsTyped ==
  /\ Idle \in CallType /\ Idle.pc = "idle" /\ Idle.got = {}
  /\ \A w \in {"reset", "closing"} :
       [Idle EXCEPT !.pc = w] \in CallType /\ [Idle EXCEPT !.pc = w].pc = w
         /\ [Idle EXCEPT !.pc = w].got = {}
  <1>1. Idle \in CallType /\ Idle.pc = "idle" /\ Idle.got = {}
    BY DEF Idle, CallType
  <1> HIDE DEF Idle
  <1> QED BY <1>1 DEF CallType

\* What a call does once the old handles are gone.
LEMMA Beginning ==
  ASSUME NEW c \in Call, NEW tags \in SUBSET Tag, Begin(c, tags)
  PROVE  \E k \in CallType :
           /\ Becomes(c, k) /\ k.got = {} /\ late' = FALSE
           /\ \/ k.pc = "creating" /\ status' = "connecting"
              \/ k.pc = "idle" /\ status' = "connected" /\ tags = {}
  <1>1. CASE tags = {}
    <2>1. Becomes(c, Idle) /\ status' = "connected" /\ late' = FALSE
      BY <1>1 DEF Begin
    <2> QED BY <1>1, <2>1, CallsTyped
  <1>2. CASE tags # {}
    <2>1. /\ Becomes(c, [Idle EXCEPT !.pc = "creating", !.todo = tags])
          /\ status' = "connecting" /\ late' = FALSE
      BY <1>2 DEF Begin
    <2>2. /\ [Idle EXCEPT !.pc = "creating", !.todo = tags] \in CallType
          /\ [Idle EXCEPT !.pc = "creating", !.todo = tags].pc = "creating"
          /\ [Idle EXCEPT !.pc = "creating", !.todo = tags].got = {}
      BY CallsTyped DEF CallType
    <2> QED BY <2>1, <2>2
  <1> QED BY <1>1, <1>2

LEMMA Ones == \A b \in BOOLEAN : One(b) \in {0, 1} /\ (b => One(b) = 1) /\ (~b => One(b) = 0)
  BY DEF One

Work(pc) == pc \in {"reset", "creating"}

\* What a change of one call does to the calls at work.
LEMMA Becoming ==
  ASSUME TypeOK, IsFiniteSet(Working), NEW c \in Call, NEW k \in CallType, Becomes(c, k)
  PROVE  /\ calls' \in [Call -> CallType] /\ calls'[c] = k
         /\ \A d \in Call \ {c} : calls'[d] = calls[d]
         /\ IsFiniteSet(Working') /\ Cardinality(Working) \in Nat /\ Cardinality(Working') \in Nat
         /\ Cardinality(Working') + One(Work(calls[c].pc)) = Cardinality(Working) + One(Work(k.pc))
  <1>1. calls' \in [Call -> CallType] /\ calls'[c] = k /\ \A d \in Call \ {c} : calls'[d] = calls[d]
    BY DEF Becomes, TypeOK
  <1>2. Working = {d \in Call : Work(calls[d].pc)} /\ Working' = {d \in Call : Work(calls'[d].pc)}
    BY DEF Working, At, Work
  <1>3. Cardinality(Working) \in Nat
    BY FS_CardinalityType
  <1>4. CASE Work(calls[c].pc) /\ ~Work(k.pc)
    <2>1. Working' = Working \ {c} /\ c \in Working
      BY <1>1, <1>2, <1>4
    <2>2. IsFiniteSet(Working') /\ Cardinality(Working') = Cardinality(Working) - 1
      BY <2>1, FS_RemoveElement
    <2>3. Cardinality(Working') \in Nat
      BY <2>2, FS_CardinalityType
    <2> QED BY <1>1, <1>3, <1>4, <2>2, <2>3 DEF One
  <1>5. CASE ~Work(calls[c].pc) /\ Work(k.pc)
    <2>1. Working' = Working \cup {c} /\ c \notin Working
      BY <1>1, <1>2, <1>5
    <2>2. IsFiniteSet(Working') /\ Cardinality(Working') = Cardinality(Working) + 1
      BY <2>1, FS_AddElement
    <2> QED BY <1>1, <1>3, <1>5, <2>2 DEF One
  <1>6. CASE Work(calls[c].pc) <=> Work(k.pc)
    <2>1. Working' = Working
      BY <1>1, <1>2, <1>6
    <2> QED BY <1>1, <1>3, <1>6, <2>1 DEF One
  <1> QED BY <1>4, <1>5, <1>6

\* Stopping turns a running loop into an aborted one.
LEMMA Stopping ==
  ASSUME TypeOK, Stop
  PROVE  reading' = FALSE /\ old' \in Nat /\ old' + One(reading') = old + One(reading)
  BY Flags DEF Stop, TypeOK, One

LEMMA Losables == Losable \in BOOLEAN /\ One(Losable) \in {0, 1}
  <1>1. Losable \in BOOLEAN
    BY DEF Losable
  <1> QED BY <1>1, Ones

LEMMA InitInv == Init => IInv
  <1> SUFFICES ASSUME Init PROVE IInv
    OBVIOUS
  <1> USE PlcLinkAssumption DEF Init
  <1>1. {timer, ever, disposed, reading, isConn, wanted, leaked, crossed, late} \subseteq BOOLEAN
    BY Zenon
  <1>2. TypeOK
    BY <1>1, CallsTyped DEF TypeOK
  <1>3. Alone /\ Creating /\ Quiet /\ Unseen
    BY CallsTyped DEF Alone, Creating, Quiet, Unseen
  <1>4. Spending
    <2>1. Working = {} /\ ~Losable
      BY CallsTyped DEF Working, At, Losable
    <2>2. IsFiniteSet(Working) /\ Cardinality(Working) = 0
      BY <2>1, FS_EmptySet
    <2> QED BY <2>1, <2>2 DEF Spending, One
  <1>5. HandlesAreHeld /\ ConnectedIsRead
    BY DEF HandlesAreHeld, ConnectedIsRead
  <1> QED BY <1>2, <1>3, <1>4, <1>5 DEF IInv

\* A turn of the PLC pays for one loss.
LEMMA TurnInv == ASSUME IInv, Turn PROVE IInv'
  <1> USE PlcLinkAssumption DEF IInv
  <1>1. /\ turns < MaxTurns /\ turns' = turns + 1
        /\ plc' \in {"up", "down", "wrong"}
        /\ UNCHANGED <<loaded, status, timer, ever, calls, disposed, held, reading, old, isConn,
                       fails, asks, wanted, leaked, crossed, late>>
    BY DEF Turn, reader, history
  <1>2. TypeOK'
    BY <1>1 DEF TypeOK
  <1>3. Alone' /\ Creating' /\ Quiet' /\ HandlesAreHeld'
    BY <1>1 DEF Alone, Creating, Quiet, HandlesAreHeld
  <1>4. Unseen'
    BY <1>1 DEF Unseen, TypeOK
  <1>5. Spending'
    <2>1. Working' = Working
      BY <1>1 DEF Working, At
    <2>2. One(Losable') <= One(Losable) + 1 /\ One(Losable) \in {0, 1} /\ One(Losable') \in {0, 1}
      <3>1. Losable \in BOOLEAN /\ Losable' \in BOOLEAN
        BY DEF Losable
      <3> QED BY <3>1, Ones
    <2>3. /\ old \in Nat /\ asks \in Nat /\ turns \in Nat /\ Cardinality(Working) \in Nat
          /\ One(reading) \in {0, 1} /\ One(timer) \in {0, 1}
      BY Flags, Ones, FS_CardinalityType DEF TypeOK, Spending
    <2> QED BY <1>1, <2>1, <2>2, <2>3 DEF Spending
  <1>6. ConnectedIsRead'
    BY <1>1 DEF ConnectedIsRead, At
  <1> QED BY <1>2, <1>3, <1>4, <1>5, <1>6

\* The bound on the aborted loops, from the account.
LEMMA OldBound ==
  ASSUME Spending', old' \in Nat, asks' \in 0..MaxAsks, turns' \in 0..MaxTurns,
         reading' \in BOOLEAN, timer' \in BOOLEAN
  PROVE  old' \in 0..(MaxAsks + MaxTurns)
  <1>1. Cardinality(Working') \in Nat
    BY FS_CardinalityType DEF Spending
  <1>2. One(Losable') \in {0, 1}
    <2>1. Losable' \in BOOLEAN
      BY DEF Losable
    <2> QED BY <2>1, Ones
  <1>3. One(reading') \in {0, 1} /\ One(timer') \in {0, 1}
    BY Ones
  <1> QED BY <1>1, <1>2, <1>3, PlcLinkAssumption DEF Spending

\* A call that begins to connect, paid for by a request or by the timer.
LEMMA ConnectInv ==
  ASSUME IInv, NEW c \in Call, calls[c].pc = "idle", ~disposed,
         loaded' \in SUBSET Tag, Connecting(c, loaded'),
         asks' \in 0..MaxAsks, wanted' \in BOOLEAN, timer' \in BOOLEAN,
         asks + One(timer') + 1 <= asks' + One(timer),
         UNCHANGED <<plc, ever, disposed, turns, leaked>>
  PROVE  IInv'
  <1> USE PlcLinkAssumption DEF IInv
  <1>1. crossed' = (crossed \/ Busy) /\ UNCHANGED <<held, isConn, fails>>
    BY DEF Connecting
  <1>2. crossed' \in BOOLEAN /\ (~crossed' => ~crossed /\ \A d \in Call : calls[d].pc = "idle")
    <2>1. crossed' \in BOOLEAN
      BY <1>1, Flags, Zenon
    <2> QED BY <1>1, <2>1 DEF Busy, At
  <1>3. PICK k \in CallType :
          /\ Becomes(c, k) /\ k.got = {} /\ late' \in BOOLEAN
          /\ \/ k.pc = "reset" /\ held # {} /\ Stop /\ status' = status
             \/ k.pc = "creating" /\ held = {} /\ status' = "connecting"
                /\ reading' = reading /\ old' = old
             \/ k.pc = "idle" /\ held = {} /\ status' = "connected" /\ loaded' = {}
                /\ reading' = reading /\ old' = old
    <2>1. CASE held # {}
      <3>1. /\ Becomes(c, [Idle EXCEPT !.pc = "reset"]) /\ Stop
            /\ status' = status /\ late' = late
        BY <2>1 DEF Connecting
      <3> QED BY <2>1, <3>1, CallsTyped, Flags
    <2>2. CASE held = {}
      <3>1. Begin(c, loaded') /\ reading' = reading /\ old' = old
        BY <2>2 DEF Connecting
      <3> QED BY <2>2, <3>1, Beginning
    <2> QED BY <2>1, <2>2
  <1>4. /\ calls' \in [Call -> CallType] /\ calls'[c] = k
        /\ \A d \in Call \ {c} : calls'[d] = calls[d]
        /\ IsFiniteSet(Working') /\ Cardinality(Working) \in Nat /\ Cardinality(Working') \in Nat
        /\ Cardinality(Working') <= Cardinality(Working) + 1
    <2>1. One(Work(calls[c].pc)) = 0 /\ One(Work(k.pc)) \in {0, 1}
      BY <1>3 DEF One, Work
    <2> QED BY <1>3, <2>1, Becoming DEF Spending
  <1>5. reading' \in BOOLEAN /\ (reading' => reading) /\ old' \in Nat
        /\ old' + One(reading') = old + One(reading)
    <2>1. CASE Stop
      BY <2>1, Stopping
    <2>2. CASE reading' = reading /\ old' = old
      <3>1. old \in Nat /\ reading \in BOOLEAN
        BY Flags DEF TypeOK
      <3> QED BY <2>2, <3>1
    <2> QED BY <1>3, <2>1, <2>2
  <1>6. Spending'
    <2>1. One(Losable') = One(Losable)
      BY <1>1 DEF Losable
    <2>2. /\ One(reading) \in Nat /\ One(timer) \in Nat /\ One(timer') \in Nat
          /\ One(reading') \in Nat /\ One(Losable) \in Nat
      BY <1>5, Ones, Losables, Flags
    <2>3. old \in Nat /\ asks \in Nat /\ asks' \in Nat /\ turns \in Nat /\ turns' = turns
      BY DEF TypeOK
    <2> HIDE DEF IInv
    <2>4. old + One(reading) + One(timer) + Cardinality(Working) + One(Losable) <= asks + turns
      BY DEF IInv, Spending
    <2>5. old' + One(reading') + One(timer') + Cardinality(Working') + One(Losable')
            <= asks' + turns'
      BY <1>4, <1>5, <2>1, <2>2, <2>3, <2>4
    <2> QED BY <1>4, <2>5 DEF Spending
  <1>7. TypeOK'
    <2>1. old' \in 0..(MaxAsks + MaxTurns)
      BY <1>5, <1>6, OldBound DEF TypeOK
    <2>2. {timer, ever, disposed, reading, isConn, wanted, leaked, crossed, late}' \subseteq BOOLEAN
      BY <1>1, <1>2, <1>3, <1>5, Flags
    <2>3. status' \in {"disconnected", "connecting", "connected", "error"}
      BY <1>3 DEF TypeOK
    <2> QED BY <1>1, <1>4, <2>1, <2>2, <2>3 DEF TypeOK
  <1>8. Alone'
    BY <1>2, <1>4 DEF Alone
  <1>9. Creating'
    BY <1>1, <1>2, <1>3, <1>4 DEF Creating
  <1>10. Quiet'
    BY DEF Quiet
  <1>11. Unseen'
    BY <1>1, <1>3, <1>4, <1>5 DEF Unseen
  <1>12. HandlesAreHeld'
    BY <1>2 DEF HandlesAreHeld
  <1>13. ConnectedIsRead'
    BY <1>3, <1>4 DEF ConnectedIsRead, At
  <1> QED BY <1>6, <1>7, <1>8, <1>9, <1>10, <1>11, <1>12, <1>13

\* The account after a step, from what the step pays and takes.
LEMMA Paying ==
  ASSUME TypeOK, Spending, IsFiniteSet(Working'), old' \in Nat,
         reading' \in BOOLEAN, timer' \in BOOLEAN, asks' \in 0..MaxAsks, turns' \in 0..MaxTurns,
         old' + One(reading') + One(timer') + Cardinality(Working') + One(Losable') + (asks + turns)
           <= old + One(reading) + One(timer) + Cardinality(Working) + One(Losable)
                + (asks' + turns')
  PROVE  Spending' /\ old' \in 0..(MaxAsks + MaxTurns)
  <1>1. Losable' \in BOOLEAN
    BY DEF Losable
  <1>2. /\ One(reading') \in Nat /\ One(timer') \in Nat /\ One(Losable') \in Nat
        /\ One(reading) \in Nat /\ One(timer) \in Nat /\ One(Losable) \in Nat
    BY <1>1, Ones, Losables, Flags
  <1>3. /\ Cardinality(Working) \in Nat /\ Cardinality(Working') \in Nat
        /\ asks \in Nat /\ turns \in Nat /\ asks' \in Nat /\ turns' \in Nat /\ old \in Nat
    BY FS_CardinalityType, PlcLinkAssumption DEF Spending, TypeOK
  <1>4. old + One(reading) + One(timer) + Cardinality(Working) + One(Losable) <= asks + turns
    BY DEF Spending
  <1>5. old' + One(reading') + One(timer') + Cardinality(Working') + One(Losable')
          <= asks' + turns'
    BY <1>2, <1>3, <1>4
  <1>6. Spending'
    BY <1>5 DEF Spending
  <1> QED BY <1>6, OldBound

\* A client that is connecting refuses, and keeps the tags it was sent for the next call.
LEMMA AskInv == ASSUME IInv, NEW c \in Call, Ask(c) PROVE IInv'
  <1> USE DEF IInv
  <1>1. /\ calls[c].pc = "idle" /\ ~disposed /\ asks < MaxAsks /\ asks' = asks + 1
        /\ loaded' \in SUBSET Tag
        /\ UNCHANGED <<plc, timer, ever, disposed, turns, leaked>>
    BY PlcLinkAssumption DEF Ask
  <1>2. asks' \in 0..MaxAsks /\ asks \in Nat
    BY <1>1, PlcLinkAssumption DEF TypeOK
  <1>3. timer' \in BOOLEAN /\ One(timer) \in Nat
    BY <1>1, Flags, Ones
  <1>4. CASE status = "connecting"
    <2>1. UNCHANGED <<calls, status, held, reading, old, isConn, fails, wanted, crossed, late>>
      BY <1>4 DEF Ask, reader
    <2>2. Working' = Working /\ Losable' = Losable
      BY <1>1, <2>1 DEF Working, At, Losable
    <2>3. Spending' /\ old' \in 0..(MaxAsks + MaxTurns)
      <3>1. /\ One(reading) \in Nat /\ One(Losable) \in Nat /\ Cardinality(Working) \in Nat
            /\ old \in Nat /\ turns \in Nat /\ turns' \in 0..MaxTurns /\ reading \in BOOLEAN
        BY <1>1, Ones, Losables, Flags, FS_CardinalityType DEF Spending, TypeOK
      <3>2. IsFiniteSet(Working')
        BY <2>2 DEF Spending
      <3> QED BY <1>1, <1>2, <1>3, <2>1, <2>2, <3>1, <3>2, Paying
    <2>4. TypeOK'
      BY <1>1, <1>2, <2>1, <2>3 DEF TypeOK
    <2>5. Alone' /\ Creating' /\ Quiet' /\ Unseen' /\ HandlesAreHeld' /\ ConnectedIsRead'
      BY <1>1, <1>4, <2>1 DEF Alone, Creating, Quiet, Unseen, HandlesAreHeld, ConnectedIsRead
    <2> QED BY <2>3, <2>4, <2>5
  <1>5. CASE status # "connecting"
    <2>1. wanted' = TRUE /\ Connecting(c, loaded')
      BY <1>5 DEF Ask
    <2>2. asks + One(timer') + 1 <= asks' + One(timer)
      BY <1>1, <1>2, <1>3
    <2> QED BY <1>1, <1>2, <1>3, <2>1, <2>2, ConnectInv
  <1> QED BY <1>4, <1>5

LEMMA TimerFiresInv == ASSUME IInv, TimerFires PROVE IInv'
  <1> USE DEF IInv
  <1>1. timer = TRUE /\ timer' = FALSE /\ ~disposed
        /\ UNCHANGED <<plc, loaded, ever, disposed, asks, turns, wanted, leaked>>
    BY Flags DEF TimerFires, Quiet
  <1>2. One(timer) = 1 /\ One(timer') = 0 /\ asks \in Nat /\ asks' \in 0..MaxAsks
        /\ timer' \in BOOLEAN /\ wanted' \in BOOLEAN
    <2>1. One(timer) = 1 /\ One(timer') = 0
      BY <1>1 DEF One
    <2>2. asks \in Nat /\ asks' \in 0..MaxAsks
      BY <1>1, PlcLinkAssumption DEF TypeOK, TimerFires
    <2>3. wanted' \in BOOLEAN
      BY <1>1, Flags
    <2> QED BY <1>1, <2>1, <2>2, <2>3
  <1>3. CASE status = "connecting"
    <2>1. UNCHANGED <<calls, status, held, reading, old, isConn, fails, crossed, late>>
      BY <1>3 DEF TimerFires, reader
    <2>2. Working' = Working /\ Losable' = Losable
      BY <1>1, <2>1 DEF Working, At, Losable
    <2>3. Spending' /\ old' \in 0..(MaxAsks + MaxTurns)
      <3>1. /\ One(reading) \in Nat /\ One(Losable) \in Nat /\ Cardinality(Working) \in Nat
            /\ old \in Nat /\ turns \in Nat /\ turns' \in 0..MaxTurns /\ reading \in BOOLEAN
        BY <1>1, Ones, Losables, Flags, FS_CardinalityType DEF Spending, TypeOK
      <3>2. IsFiniteSet(Working')
        BY <2>2 DEF Spending
      <3> QED BY <1>1, <1>2, <2>1, <2>2, <3>1, <3>2, Paying
    <2>4. TypeOK'
      BY <1>1, <1>2, <2>1, <2>3 DEF TypeOK
    <2>5. Alone' /\ Creating' /\ Quiet' /\ Unseen' /\ HandlesAreHeld' /\ ConnectedIsRead'
      BY <1>1, <2>1 DEF Alone, Creating, Quiet, Unseen, HandlesAreHeld, ConnectedIsRead, At
    <2> QED BY <2>3, <2>4, <2>5
  <1>4. CASE status # "connecting"
    <2>1. PICK c \in Call : calls[c].pc = "idle" /\ Connecting(c, loaded')
      BY <1>1, <1>4 DEF TimerFires, At
    <2>2. asks + One(timer') + 1 <= asks' + One(timer)
      BY <1>1, <1>2
    <2>3. loaded' \in SUBSET Tag
      BY <1>1 DEF TypeOK
    <2> QED BY <1>1, <1>2, <2>1, <2>2, <2>3, ConnectInv
  <1> QED BY <1>3, <1>4

\* A call that destroys the old handles and goes on to create, or has closed.
LEMMA DestroyInv == ASSUME IInv, NEW c \in Call, ResetDone(c) \/ Closed(c) PROVE IInv'
  <1> USE PlcLinkAssumption DEF IInv
  <1>1. PICK k \in CallType :
          /\ calls[c].pc \in {"reset", "closing"} /\ Becomes(c, k) /\ k.got = {} /\ late' = FALSE
          /\ \/ k.pc = "creating" /\ calls[c].pc = "reset" /\ status' = "connecting"
             \/ k.pc = "idle" /\ status' = "connected" /\ loaded = {}
             \/ k.pc = "idle" /\ status' = "disconnected"
    <2>1. CASE ResetDone(c)
      <3>1. loaded \in SUBSET Tag /\ Begin(c, loaded) /\ calls[c].pc = "reset"
        BY <2>1 DEF ResetDone, TypeOK
      <3> QED BY <3>1, Beginning
    <2>2. CASE Closed(c)
      BY <2>2, CallsTyped DEF Closed
    <2> QED BY <2>1, <2>2
  <1>2. /\ held' = {} /\ fails' = 0
        /\ UNCHANGED <<plc, loaded, timer, ever, disposed, reading, old, isConn, asks, turns,
                       wanted, leaked, crossed>>
    BY DEF ResetDone, Closed, DestroyAll
  <1>3. /\ calls' \in [Call -> CallType] /\ calls'[c] = k
        /\ \A d \in Call \ {c} : calls'[d] = calls[d]
        /\ IsFiniteSet(Working') /\ Cardinality(Working) \in Nat /\ Cardinality(Working') \in Nat
        /\ Cardinality(Working') <= Cardinality(Working)
    <2>1. /\ One(Work(calls[c].pc)) \in Nat /\ One(Work(k.pc)) \in Nat
          /\ One(Work(k.pc)) <= One(Work(calls[c].pc))
      BY <1>1 DEF One, Work
    <2> QED BY <1>1, <2>1, Becoming DEF Spending
  <1>4. TypeOK'
    <2>1. {timer, ever, disposed, reading, isConn, wanted, leaked, crossed, late}' \subseteq BOOLEAN
      BY <1>1, <1>2, Flags
    <2>2. status' \in {"disconnected", "connecting", "connected", "error"}
      BY <1>1
    <2> QED BY <1>2, <1>3, <2>1, <2>2 DEF TypeOK
  <1>5. Spending'
    <2>1. Losable' = Losable
      BY <1>2 DEF Losable
    <2>2. /\ old \in Nat /\ asks \in Nat /\ turns \in Nat /\ One(reading) \in Nat
          /\ One(timer) \in Nat /\ One(Losable) \in Nat
      BY Ones, Losables, Flags DEF TypeOK
    <2>3. old + One(reading) + One(timer) + Cardinality(Working) + One(Losable) <= asks + turns
      BY DEF Spending
    <2>4. old' + One(reading') + One(timer') + Cardinality(Working') + One(Losable')
            <= asks' + turns'
      BY <1>2, <1>3, <2>1, <2>2, <2>3
    <2> QED BY <1>3, <2>4 DEF Spending
  <1>6. Alone'
    BY <1>1, <1>2, <1>3 DEF Alone
  <1>7. Creating'
    <2> SUFFICES ASSUME ~crossed', NEW d \in Call, calls'[d].pc = "creating"
                 PROVE  held' = calls'[d].got /\ calls'[d].got \cap calls'[d].todo = {}
      BY DEF Creating
    <2>1. d = c
      BY <1>1, <1>2, <1>3 DEF Alone
    <2> QED BY <1>1, <1>2, <1>3, <2>1
  <1>8. Quiet'
    BY <1>1, <1>2 DEF Quiet
  <1>9. Unseen'
    BY <1>1, <1>2, <1>3 DEF Unseen
  <1>10. HandlesAreHeld'
    BY <1>2 DEF HandlesAreHeld
  <1>11. ConnectedIsRead'
    BY <1>1, <1>2 DEF ConnectedIsRead
  <1> QED BY <1>4, <1>5, <1>6, <1>7, <1>8, <1>9, <1>10, <1>11

\* A tag that is created is not in the map, if the call is the only one.
LEMMA CreateInv == ASSUME IInv, NEW c \in Call, NEW t \in Tag, Create(c, t) PROVE IInv'
  <1> USE PlcLinkAssumption DEF IInv
  <1> DEFINE k == [calls[c] EXCEPT !.todo = @ \ {t}]
             k1 == [k EXCEPT !.got = @ \cup {t}]
             k2 == [k EXCEPT !.unreachable = @ \/ plc = "down"]
  <1>1. /\ calls[c].pc = "creating" /\ t \in calls[c].todo
        /\ UNCHANGED <<plc, loaded, status, timer, ever, disposed, reading, old, isConn, fails,
                       asks, turns, wanted, crossed, late>>
    BY DEF Create
  <1>2. \/ /\ plc = "up" /\ Becomes(c, k1)
           /\ held' = held \cup {t} /\ leaked' = (leaked \/ t \in held)
        \/ plc # "up" /\ Becomes(c, k2) /\ held' = held /\ leaked' = leaked
    BY DEF Create
  <1>3. calls[c] \in CallType
    BY DEF TypeOK
  <1>4. k \in CallType /\ k.pc = "creating" /\ k.got = calls[c].got
        /\ k.todo = calls[c].todo \ {t} /\ k.unreachable \in BOOLEAN
    BY <1>1, <1>3 DEF CallType
  <1>5. k1 \in CallType /\ k1.pc = "creating" /\ k1.got = calls[c].got \cup {t}
        /\ k1.todo = calls[c].todo \ {t}
    <2> HIDE DEF k
    <2> QED BY <1>4 DEF CallType
  <1>6. k2 \in CallType /\ k2.pc = "creating" /\ k2.got = calls[c].got
        /\ k2.todo = calls[c].todo \ {t}
    <2> HIDE DEF k
    <2> DEFINE u == k.unreachable \/ plc = "down"
    <2>1. u \in BOOLEAN /\ k2 = [k EXCEPT !.unreachable = u]
      OBVIOUS
    <2> HIDE DEF u, k2
    <2> QED BY <1>4, <2>1 DEF CallType
  <1> HIDE DEF k1, k2, k
  <1>7. PICK j \in CallType :
          /\ Becomes(c, j) /\ j.pc = "creating" /\ j.todo = calls[c].todo \ {t}
          /\ \/ /\ plc = "up" /\ j.got = calls[c].got \cup {t}
                /\ held' = held \cup {t} /\ leaked' = (leaked \/ t \in held)
             \/ plc # "up" /\ j.got = calls[c].got /\ held' = held /\ leaked' = leaked
    BY <1>2, <1>5, <1>6
  <1>8. /\ calls' \in [Call -> CallType] /\ calls'[c] = j
        /\ \A d \in Call \ {c} : calls'[d] = calls[d]
        /\ IsFiniteSet(Working') /\ Cardinality(Working) \in Nat /\ Cardinality(Working') \in Nat
        /\ Cardinality(Working') = Cardinality(Working)
    <2>1. One(Work(calls[c].pc)) = One(Work(j.pc)) /\ One(Work(j.pc)) \in Nat
      BY <1>1, <1>7 DEF One, Work
    <2> QED BY <1>7, <2>1, Becoming DEF Spending
  <1>9. leaked' \in BOOLEAN
    BY <1>7, Flags
  <1>10. TypeOK'
    <2>1. {timer, ever, disposed, reading, isConn, wanted, leaked, crossed, late}' \subseteq BOOLEAN
      BY <1>1, <1>9, Flags
    <2>2. held' \subseteq Tag
      BY <1>7 DEF TypeOK
    <2> QED BY <1>1, <1>8, <2>1, <2>2 DEF TypeOK
  <1>11. Spending'
    BY <1>1, <1>8 DEF Spending, Losable
  <1>12. Alone'
    BY <1>1, <1>7, <1>8 DEF Alone
  <1>13. ~crossed => held = calls[c].got /\ calls[c].got \cap calls[c].todo = {}
    BY <1>1 DEF Creating
  <1>14. Creating'
    <2> SUFFICES ASSUME ~crossed, NEW d \in Call, calls'[d].pc = "creating"
                 PROVE  held' = calls'[d].got /\ calls'[d].got \cap calls'[d].todo = {}
      BY <1>1 DEF Creating
    <2>1. d = c
      BY <1>1, <1>8 DEF Alone
    <2> QED BY <1>7, <1>8, <1>13, <2>1
  <1>15. Quiet'
    BY <1>1 DEF Quiet
  <1>16. Unseen'
    BY <1>1, <1>7, <1>8 DEF Unseen
  <1>17. HandlesAreHeld'
    <2> SUFFICES ASSUME ~crossed PROVE HandlesAreHeld'
      BY <1>1 DEF HandlesAreHeld
    <2>1. ~leaked /\ ~disposed /\ t \notin held
      BY <1>1, <1>13 DEF HandlesAreHeld, Quiet
    <2> QED BY <1>1, <1>7, <2>1 DEF HandlesAreHeld
  <1>18. ConnectedIsRead'
    <2>1. held \subseteq held'
      BY <1>7
    <2>2. At("reset") \cup At("closing") \subseteq (At("reset") \cup At("closing"))'
      BY <1>1, <1>8 DEF At
    <2> QED BY <1>1, <2>1, <2>2 DEF ConnectedIsRead
  <1> QED BY <1>10, <1>11, <1>12, <1>14, <1>15, <1>16, <1>17, <1>18

\* An attempt ends: it leaves a timer or a loop, or neither, where there was a call.
LEMMA ConnectEndsInv == ASSUME IInv, NEW c \in Call, ConnectEnds(c) PROVE IInv'
  <1> USE PlcLinkAssumption DEF IInv
  <1>1. /\ calls[c].pc = "creating" /\ calls[c].todo = {} /\ Becomes(c, Idle) /\ late' = FALSE
        /\ UNCHANGED <<plc, loaded, disposed, held, old, isConn, asks, turns, leaked, crossed>>
        /\ fails' \in {0, fails}
    BY DEF ConnectEnds
  <1>2. \/ /\ calls[c].got = {} /\ status' = "error"
           /\ timer' = (timer \/ (Retried(calls[c].unreachable) /\ ~disposed))
           /\ wanted' = (wanted /\ (calls[c].unreachable \/ ever))
           /\ ever' = ever /\ reading' = reading
        \/ /\ calls[c].got # {} /\ status' = "connected" /\ ever' = TRUE
           /\ reading' = (reading \/ held # {})
           /\ timer' = timer /\ wanted' = wanted
    BY DEF ConnectEnds
  <1>3. /\ timer' \in BOOLEAN /\ wanted' \in BOOLEAN /\ ever' \in BOOLEAN /\ reading' \in BOOLEAN
    <2>1. CASE /\ timer' = (timer \/ (Retried(calls[c].unreachable) /\ ~disposed))
               /\ wanted' = (wanted /\ (calls[c].unreachable \/ ever))
               /\ ever' = ever /\ reading' = reading
      <3>1. timer' \in BOOLEAN /\ wanted' \in BOOLEAN
        BY <2>1, Zenon
      <3> QED BY <2>1, <3>1, Flags
    <2>2. CASE ever' = TRUE /\ reading' = (reading \/ held # {}) /\ timer' = timer
               /\ wanted' = wanted
      <3>1. reading' \in BOOLEAN
        BY <2>2, Zenon
      <3> QED BY <2>2, <3>1, Flags
    <2> QED BY <1>2, <2>1, <2>2
  <1>4. /\ calls' \in [Call -> CallType] /\ calls'[c] = Idle
        /\ \A d \in Call \ {c} : calls'[d] = calls[d]
        /\ IsFiniteSet(Working') /\ Cardinality(Working) \in Nat /\ Cardinality(Working') \in Nat
        /\ Cardinality(Working') + 1 = Cardinality(Working)
    <2>1. One(Work(calls[c].pc)) = 1 /\ One(Work(Idle.pc)) = 0
      BY <1>1, CallsTyped DEF One, Work
    <2> QED BY <1>1, <2>1, CallsTyped, Becoming DEF Spending
  <1>5. One(reading') + One(timer') <= One(reading) + One(timer) + 1
    <2>1. One(reading) \in {0, 1} /\ One(timer) \in {0, 1} /\ One(reading') \in {0, 1}
          /\ One(timer') \in {0, 1}
      BY <1>3, Ones, Flags
    <2>2. One(reading') = One(reading) \/ One(timer') = One(timer)
      BY <1>2
    <2> QED BY <2>1, <2>2
  <1>6. Spending'
    <2>1. Losable' = Losable
      BY <1>1 DEF Losable
    <2>2. /\ One(reading) \in Nat /\ One(timer) \in Nat /\ One(Losable) \in Nat
          /\ One(reading') \in Nat /\ One(timer') \in Nat
          /\ old \in Nat /\ asks \in Nat /\ turns \in Nat
          /\ asks' \in 0..MaxAsks /\ turns' \in 0..MaxTurns
      BY <1>1, <1>3, Ones, Losables, Flags DEF TypeOK
    <2>3. old' + One(reading') + One(timer') + Cardinality(Working') + One(Losable') + (asks + turns)
            <= old + One(reading) + One(timer) + Cardinality(Working) + One(Losable)
                 + (asks' + turns')
      BY <1>1, <1>4, <1>5, <2>1, <2>2
    <2> QED BY <1>1, <1>3, <1>4, <2>2, <2>3, Paying
  <1>7. TypeOK'
    <2>1. {timer, ever, disposed, reading, isConn, wanted, leaked, crossed, late}' \subseteq BOOLEAN
      BY <1>1, <1>3, Flags
    <2>2. status' \in {"disconnected", "connecting", "connected", "error"}
      BY <1>2
    <2>3. fails' \in 0..Cycles
      BY <1>1 DEF TypeOK
    <2> QED BY <1>1, <1>4, <2>1, <2>2, <2>3 DEF TypeOK
  <1>8. Alone'
    BY <1>1, <1>4, CallsTyped DEF Alone
  <1>9. Creating'
    BY <1>1, <1>4, CallsTyped DEF Creating
  <1>10. disposed => timer' = timer /\ crossed
    BY <1>1, <1>2, <1>3, Flags DEF Quiet
  <1>11. Quiet'
    BY <1>1, <1>10 DEF Quiet
  <1>12. Unseen'
    BY <1>1, <1>2, <1>4, CallsTyped DEF Unseen
  <1>13. HandlesAreHeld'
    BY <1>1, <1>10 DEF HandlesAreHeld
  <1>14. ConnectedIsRead'
    BY <1>1, <1>2 DEF ConnectedIsRead, Creating
  <1> QED BY <1>6, <1>7, <1>8, <1>9, <1>11, <1>12, <1>13, <1>14

\* Disconnecting and disposing stop the loop and the timer, for one request.
LEMMA DisconnectInv == ASSUME IInv, NEW c \in Call, Disconnect(c) PROVE IInv'
  <1> USE PlcLinkAssumption DEF IInv
  <1> DEFINE k == [Idle EXCEPT !.pc = "closing"]
  <1>1. /\ calls[c].pc = "idle" /\ ~disposed /\ asks < MaxAsks /\ asks' = asks + 1
        /\ wanted' = FALSE /\ crossed' = (crossed \/ Busy) /\ timer' = FALSE
        /\ Stop /\ Becomes(c, k)
        /\ UNCHANGED <<plc, loaded, status, ever, disposed, held, isConn, fails, turns, leaked,
                       late>>
    BY DEF Disconnect
  <1>2. k \in CallType /\ k.pc = "closing" /\ k.got = {}
    BY CallsTyped
  <1> HIDE DEF k
  <1>3. crossed' \in BOOLEAN /\ (~crossed' => ~crossed /\ \A d \in Call : calls[d].pc = "idle")
    <2>1. crossed' \in BOOLEAN
      BY <1>1, Flags, Zenon
    <2> QED BY <1>1, <2>1 DEF Busy, At
  <1>4. /\ calls' \in [Call -> CallType] /\ calls'[c] = k
        /\ \A d \in Call \ {c} : calls'[d] = calls[d]
        /\ IsFiniteSet(Working') /\ Cardinality(Working) \in Nat /\ Cardinality(Working') \in Nat
        /\ Cardinality(Working') = Cardinality(Working)
    <2>1. One(Work(calls[c].pc)) = 0 /\ One(Work(k.pc)) = 0
      BY <1>1, <1>2 DEF One, Work
    <2> QED BY <1>1, <1>2, <2>1, Becoming DEF Spending
  <1>5. reading' = FALSE /\ old' \in Nat /\ old' + One(reading') = old + One(reading)
    BY <1>1, Stopping
  <1>6. Spending' /\ old' \in 0..(MaxAsks + MaxTurns)
    <2>1. Losable' = Losable
      BY <1>1 DEF Losable
    <2>2. /\ One(reading) \in Nat /\ One(timer) \in Nat /\ One(Losable) \in Nat
          /\ One(reading') \in Nat /\ One(timer') = 0
          /\ old \in Nat /\ asks \in Nat /\ turns \in Nat
          /\ asks' \in 0..MaxAsks /\ turns' \in 0..MaxTurns
          /\ reading' \in BOOLEAN /\ timer' \in BOOLEAN
      <3>1. One(timer') = 0 /\ One(reading') = 0
        BY <1>1, <1>5 DEF One
      <3>2. asks' \in 0..MaxAsks /\ turns' \in 0..MaxTurns
            /\ old \in Nat /\ asks \in Nat /\ turns \in Nat
        BY <1>1, PlcLinkAssumption DEF TypeOK
      <3>3. reading' \in BOOLEAN /\ timer' \in BOOLEAN
        BY <1>1, <1>5
      <3> QED BY <3>1, <3>2, <3>3, Ones, Losables, Flags
    <2>3. old' + One(reading') + One(timer') + Cardinality(Working') + One(Losable') + (asks + turns)
            <= old + One(reading) + One(timer) + Cardinality(Working) + One(Losable)
                 + (asks' + turns')
      BY <1>1, <1>4, <1>5, <2>1, <2>2
    <2> QED BY <1>4, <1>5, <2>2, <2>3, Paying
  <1>7. TypeOK'
    <2>1. {timer, ever, disposed, reading, isConn, wanted, leaked, crossed, late}' \subseteq BOOLEAN
      BY <1>1, <1>3, <1>5, Flags
    <2>2. asks' \in 0..MaxAsks
      BY <1>1 DEF TypeOK
    <2> QED BY <1>1, <1>4, <1>6, <2>1, <2>2 DEF TypeOK
  <1>8. Alone' /\ Creating'
    BY <1>1, <1>2, <1>3, <1>4 DEF Alone, Creating
  <1>9. Quiet' /\ HandlesAreHeld'
    BY <1>1, <1>3 DEF Quiet, HandlesAreHeld
  <1>10. Unseen'
    BY <1>1, <1>2, <1>4, <1>5 DEF Unseen
  <1>11. ConnectedIsRead'
    BY <1>2, <1>4 DEF ConnectedIsRead, At
  <1> QED BY <1>6, <1>7, <1>8, <1>9, <1>10, <1>11

LEMMA DisposeInv == ASSUME IInv, Dispose PROVE IInv'
  <1> USE PlcLinkAssumption DEF IInv
  <1>1. /\ disposed' = TRUE /\ asks < MaxAsks /\ asks' = asks + 1
        /\ wanted' = FALSE /\ crossed' = (crossed \/ Busy) /\ timer' = FALSE
        /\ Stop /\ held' = {} /\ loaded' = {}
        /\ UNCHANGED <<plc, status, ever, calls, isConn, fails, turns, leaked, late>>
    BY DEF Dispose
  <1>2. crossed' \in BOOLEAN /\ (~crossed' => ~crossed /\ \A d \in Call : calls[d].pc = "idle")
    <2>1. crossed' \in BOOLEAN
      BY <1>1, Flags, Zenon
    <2> QED BY <1>1, <2>1 DEF Busy, At
  <1>3. reading' = FALSE /\ old' \in Nat /\ old' + One(reading') = old + One(reading)
    BY <1>1, Stopping
  <1>4. Spending' /\ old' \in 0..(MaxAsks + MaxTurns)
    <2>1. Losable' = Losable /\ Working' = Working
      BY <1>1 DEF Losable, Working, At
    <2>2. /\ One(reading) \in Nat /\ One(timer) \in Nat /\ One(Losable) \in Nat
          /\ One(reading') \in Nat /\ One(timer') = 0
          /\ old \in Nat /\ asks \in Nat /\ turns \in Nat /\ Cardinality(Working) \in Nat
          /\ asks' \in 0..MaxAsks /\ turns' \in 0..MaxTurns
          /\ reading' \in BOOLEAN /\ timer' \in BOOLEAN
      <3>1. One(timer') = 0 /\ One(reading') = 0
        BY <1>1, <1>3 DEF One
      <3>2. asks' \in 0..MaxAsks /\ turns' \in 0..MaxTurns
            /\ old \in Nat /\ asks \in Nat /\ turns \in Nat
        BY <1>1, PlcLinkAssumption DEF TypeOK
      <3>3. reading' \in BOOLEAN /\ timer' \in BOOLEAN
        BY <1>1, <1>3
      <3>4. Cardinality(Working) \in Nat
        BY FS_CardinalityType DEF Spending
      <3> QED BY <3>1, <3>2, <3>3, <3>4, Ones, Losables, Flags
    <2>3. old' + One(reading') + One(timer') + Cardinality(Working') + One(Losable') + (asks + turns)
            <= old + One(reading) + One(timer) + Cardinality(Working) + One(Losable)
                 + (asks' + turns')
      BY <1>1, <1>3, <2>1, <2>2
    <2>4. IsFiniteSet(Working')
      BY <2>1 DEF Spending
    <2> QED BY <1>3, <2>2, <2>3, <2>4, Paying
  <1>5. TypeOK'
    <2>1. {timer, ever, disposed, reading, isConn, wanted, leaked, crossed, late}' \subseteq BOOLEAN
      BY <1>1, <1>2, <1>3, Flags
    <2>2. asks' \in 0..MaxAsks
      BY <1>1 DEF TypeOK
    <2> QED BY <1>1, <1>4, <2>1, <2>2 DEF TypeOK
  <1>6. Alone' /\ Creating'
    BY <1>1, <1>2 DEF Alone, Creating
  <1>7. Quiet' /\ HandlesAreHeld'
    BY <1>1, <1>2, <1>3 DEF Quiet, HandlesAreHeld
  <1>8. Unseen' /\ ConnectedIsRead'
    BY <1>1, <1>3 DEF Unseen, ConnectedIsRead
  <1> QED BY <1>4, <1>5, <1>6, <1>7, <1>8

-----------------------------------------------------------------------------
(* The read loop *)

LEMMA Succeeding ==
  ASSUME TypeOK, Succeeds, UNCHANGED disposed
  PROVE  /\ fails' \in 0..Cycles /\ isConn' = TRUE
         /\ timer' \in BOOLEAN /\ One(timer') <= One(timer) /\ (disposed => timer' = timer)
         /\ status' \in {status, "connected"}
  <1>1. timer' = timer \/ timer' = FALSE
    BY DEF Succeeds
  <1>2. timer' \in BOOLEAN
    BY <1>1, Flags
  <1>3. One(timer') <= One(timer)
    BY <1>1, <1>2, Flags DEF One
  <1>4. fails' = 0 /\ isConn' = TRUE /\ status' \in {status, "connected"}
        /\ (disposed => timer' = timer)
    BY DEF Succeeds
  <1> QED BY <1>2, <1>3, <1>4, PlcLinkAssumption

\* The timer that a loss sets is paid for by the connection that is lost.
LEMMA Failing ==
  ASSUME TypeOK, AllFail
  PROVE  /\ fails' \in 0..Cycles /\ isConn' \in BOOLEAN /\ (isConn' => isConn)
         /\ timer' \in BOOLEAN /\ (disposed => timer' = timer)
         /\ timer' = timer \/ (isConn /\ ~isConn')
         /\ status' \in {status, "error"}
  <1>1. CASE /\ fails' = IF fails < Cycles THEN fails + 1 ELSE fails
             /\ UNCHANGED <<isConn, status, timer>>
    <2>1. fails' \in 0..Cycles
      BY <1>1, PlcLinkAssumption DEF TypeOK
    <2> QED BY <1>1, <2>1, Flags
  <1>2. CASE /\ isConn /\ fails + 1 >= Cycles
             /\ fails' = Cycles /\ isConn' = FALSE
             /\ IF disposed THEN UNCHANGED <<status, timer>> ELSE status' = "error" /\ timer' = TRUE
    <2>1. timer' = timer \/ timer' = TRUE
      BY <1>2
    <2>2. timer' \in BOOLEAN
      BY <2>1, Flags
    <2>3. (disposed => timer' = timer) /\ status' \in {status, "error"}
      BY <1>2
    <2>4. fails' \in 0..Cycles
      BY <1>2, PlcLinkAssumption
    <2> QED BY <1>2, <2>2, <2>3, <2>4
  <1> QED BY <1>1, <1>2 DEF AllFail

\* A verdict of a loop, with what pays for the timer it may set.
LEMMA VerdictInv ==
  ASSUME IInv, UNCHANGED <<plc, loaded, ever, calls, disposed, held, reading, asks, turns, wanted,
                           leaked, crossed>>,
         late' \in BOOLEAN,
         old' \in Nat, fails' \in 0..Cycles, isConn' \in BOOLEAN, timer' \in BOOLEAN,
         disposed => timer' = timer,
         old' + One(timer') + One(Losable') <= old + One(timer) + One(Losable),
         \/ status' = status /\ (late => late')
         \/ status' = "error"
         \/ status' = "connected" /\ ((reading /\ held # {}) \/ late')
  PROVE  IInv'
  <1> USE PlcLinkAssumption DEF IInv
  <1>1. Working' = Working
    BY DEF Working, At
  <1>2. Spending' /\ old' \in 0..(MaxAsks + MaxTurns)
    <2>1. Losable' \in BOOLEAN
      BY DEF Losable
    <2>2. /\ One(reading) \in Nat /\ One(timer) \in Nat /\ One(Losable) \in Nat
          /\ One(timer') \in Nat /\ One(Losable') \in Nat
      BY <2>1, Ones, Losables, Flags
    <2>3. /\ old \in Nat /\ asks \in Nat /\ turns \in Nat /\ Cardinality(Working) \in Nat
          /\ asks' \in 0..MaxAsks /\ turns' \in 0..MaxTurns /\ reading' \in BOOLEAN
      BY Flags, FS_CardinalityType DEF TypeOK, Spending
    <2>4. One(reading') = One(reading) /\ asks' = asks /\ turns' = turns
      OBVIOUS
    <2>5. old' + One(reading') + One(timer') + Cardinality(Working') + One(Losable') + (asks + turns)
            <= old + One(reading) + One(timer) + Cardinality(Working) + One(Losable)
                 + (asks' + turns')
      BY <1>1, <2>2, <2>3, <2>4
    <2>6. IsFiniteSet(Working')
      BY <1>1 DEF Spending
    <2> QED BY <2>3, <2>5, <2>6, Paying
  <1>3. TypeOK'
    <2>1. {timer, ever, disposed, reading, isConn, wanted, leaked, crossed, late}' \subseteq BOOLEAN
      BY Flags
    <2>2. status' \in {"disconnected", "connecting", "connected", "error"}
      BY DEF TypeOK
    <2> QED BY <1>2, <2>1, <2>2 DEF TypeOK
  <1>4. Alone' /\ Creating' /\ Unseen' /\ HandlesAreHeld'
    BY DEF Alone, Creating, Unseen, HandlesAreHeld
  <1>5. Quiet'
    BY DEF Quiet
  <1>6. ConnectedIsRead'
    <2>1. (At("reset") \cup At("closing"))' = At("reset") \cup At("closing")
      BY DEF At
    <2> QED BY <2>1 DEF ConnectedIsRead
  <1> QED BY <1>2, <1>3, <1>4, <1>5, <1>6

LEMMA LoopCycleInv == ASSUME IInv, LoopCycle PROVE IInv'
  <1> USE DEF IInv
  <1>1. /\ reading /\ held # {}
        /\ UNCHANGED <<plc, loaded, ever, calls, disposed, held, reading, old, asks, turns, wanted,
                       leaked, crossed, late>>
        /\ late' \in BOOLEAN
    BY Flags DEF LoopCycle, history
  <1>2. old \in Nat /\ old' = old /\ turns \in Nat
    BY <1>1 DEF TypeOK
  <1>3. One(timer) \in Nat /\ One(Losable) \in {0, 1}
    BY Flags, Ones, Losables
  <1>4. CASE plc = "up"
    <2>1. Succeeds
      BY <1>4 DEF LoopCycle
    <2>2. One(Losable') = 0
      BY <1>1, <1>4 DEF Losable, One
    <2>3. /\ fails' \in 0..Cycles /\ isConn' = TRUE
          /\ timer' \in BOOLEAN /\ One(timer') <= One(timer) /\ (disposed => timer' = timer)
          /\ status' \in {status, "connected"}
      BY <1>1, <2>1, Succeeding
    <2>4. One(timer') \in Nat
      BY <2>3, Ones
    <2>5. old' + One(timer') + One(Losable') <= old + One(timer) + One(Losable)
      BY <1>2, <1>3, <2>2, <2>3, <2>4
    <2>6. isConn' \in BOOLEAN
      BY <2>3
    <2> QED BY <1>1, <1>2, <2>3, <2>5, <2>6, VerdictInv
  <1>5. CASE plc # "up"
    <2>1. AllFail
      BY <1>5 DEF LoopCycle
    <2>2. turns > 0
      BY <1>1, <1>2, <1>5 DEF Unseen
    <2>3. /\ fails' \in 0..Cycles /\ isConn' \in BOOLEAN /\ (isConn' => isConn)
          /\ timer' \in BOOLEAN /\ (disposed => timer' = timer)
          /\ timer' = timer \/ (isConn /\ ~isConn')
          /\ status' \in {status, "error"}
      BY <2>1, Failing
    <2>4. One(timer') + One(Losable') <= One(timer) + One(Losable)
      <3>1. CASE timer' = timer
        <4>1. Losable' => Losable
          BY <1>1, <2>3 DEF Losable
        <4>2. One(Losable') <= One(Losable)
          BY <4>1 DEF One
        <4> QED BY <1>3, <3>1, <4>1 DEF One
      <3>2. CASE isConn /\ ~isConn'
        <4>1. Losable /\ ~Losable'
          BY <1>1, <1>5, <2>2, <3>2 DEF Losable
        <4>2. One(Losable) = 1 /\ One(Losable') = 0
          BY <4>1 DEF One
        <4>3. One(timer') \in {0, 1}
          BY <2>3, Ones
        <4> QED BY <1>3, <4>2, <4>3
      <3> QED BY <2>3, <3>1, <3>2
    <2>5. One(timer') \in Nat /\ One(Losable') \in Nat
      <3>1. Losable' \in BOOLEAN
        BY DEF Losable
      <3> QED BY <2>3, <3>1, Ones
    <2>6. old' + One(timer') + One(Losable') <= old + One(timer) + One(Losable)
      BY <1>2, <1>3, <2>4, <2>5
    <2> QED BY <1>1, <1>2, <2>3, <2>6, VerdictInv
  <1> QED BY <1>4, <1>5

LEMMA OldLoopEndsInv == ASSUME IInv, OldLoopEnds PROVE IInv'
  <1> USE DEF IInv
  <1>1. /\ old > 0 /\ old' = old - 1
        /\ UNCHANGED <<plc, loaded, ever, calls, disposed, held, reading, asks, turns, wanted,
                       leaked, crossed>>
    BY DEF OldLoopEnds
  <1>2. old \in Nat /\ old' \in Nat
    BY <1>1 DEF TypeOK
  <1>3. One(timer) \in {0, 1} /\ One(Losable) \in {0, 1}
    BY Flags, Ones, Losables
  <1>4. CASE UNCHANGED <<isConn, fails, status, timer, late>>
    <2>1. Losable' = Losable
      BY <1>1, <1>4 DEF Losable
    <2>2. old' + One(timer') + One(Losable') <= old + One(timer) + One(Losable)
      BY <1>1, <1>2, <1>3, <1>4, <2>1
    <2>3. fails' \in 0..Cycles /\ isConn' \in BOOLEAN /\ timer' \in BOOLEAN /\ late' \in BOOLEAN
      BY <1>4, Flags DEF TypeOK
    <2> QED BY <1>1, <1>2, <1>4, <2>2, <2>3, VerdictInv
  <1>5. CASE Succeeds /\ late' = (late \/ status' # status)
    <2>1. /\ fails' \in 0..Cycles /\ isConn' = TRUE
          /\ timer' \in BOOLEAN /\ One(timer') <= One(timer) /\ (disposed => timer' = timer)
          /\ status' \in {status, "connected"}
      BY <1>1, <1>5, Succeeding
    <2>2. late' \in BOOLEAN /\ (late => late') /\ (status' # status => late')
      <3>1. late' \in BOOLEAN
        BY <1>5, Zenon
      <3> QED BY <1>5, <3>1, Flags
    <2>3. One(timer') \in {0, 1} /\ One(Losable') \in {0, 1}
      <3>1. Losable' \in BOOLEAN
        BY DEF Losable
      <3> QED BY <2>1, <3>1, Ones
    <2>4. old' + One(timer') + One(Losable') <= old + One(timer) + One(Losable)
      BY <1>1, <1>2, <1>3, <2>1, <2>3
    <2>5. isConn' \in BOOLEAN
      BY <2>1
    <2> QED BY <1>1, <1>2, <2>1, <2>2, <2>4, <2>5, VerdictInv
  <1>6. CASE AllFail /\ UNCHANGED late
    <2>1. /\ fails' \in 0..Cycles /\ isConn' \in BOOLEAN /\ (isConn' => isConn)
          /\ timer' \in BOOLEAN /\ (disposed => timer' = timer)
          /\ status' \in {status, "error"}
      BY <1>6, Failing
    <2>2. One(timer') \in {0, 1}
      BY <2>1, Ones
    <2>3. One(Losable') <= One(Losable) /\ One(Losable') \in {0, 1}
      <3>1. Losable' => Losable
        BY <1>1, <2>1 DEF Losable
      <3> QED BY <3>1 DEF One
    <2>4. old' + One(timer') + One(Losable') <= old + One(timer) + One(Losable)
      BY <1>1, <1>2, <1>3, <2>2, <2>3
    <2>5. late' \in BOOLEAN /\ (late => late')
      BY <1>6, Flags
    <2> QED BY <1>1, <1>2, <2>1, <2>4, <2>5, VerdictInv
  <1> QED BY <1>4, <1>5, <1>6 DEF OldLoopEnds

LEMMA NextInv == IInv /\ [Next]_vars => IInv'
  <1> SUFFICES ASSUME IInv, [Next]_vars PROVE IInv'
    OBVIOUS
  <1>1. CASE Turn \/ TimerFires \/ Dispose \/ LoopCycle \/ OldLoopEnds
    BY <1>1, TurnInv, TimerFiresInv, DisposeInv, LoopCycleInv, OldLoopEndsInv
  <1>2. ASSUME NEW c \in Call, Ask(c) \/ ResetDone(c) \/ ConnectEnds(c) \/ Disconnect(c) \/ Closed(c)
        PROVE  IInv'
    BY <1>2, AskInv, DestroyInv, ConnectEndsInv, DisconnectInv
  <1>3. ASSUME NEW c \in Call, NEW t \in Tag, Create(c, t) PROVE IInv'
    BY <1>3, CreateInv
  <1>4. CASE UNCHANGED vars
    BY <1>4 DEF vars, reader, history, IInv, TypeOK, Alone, Creating, Quiet, Unseen, Spending, Working,
                Losable, At, HandlesAreHeld, ConnectedIsRead
  <1> QED BY <1>1, <1>2, <1>3, <1>4 DEF Next

-----------------------------------------------------------------------------
\* Types, and with them a bound: the read loops that were aborted and have not ended
\* are never more than the requests and the turns of the PLC so far (PlcLink!TypeOK).
THEOREM LinkTypes == Spec => []TypeOK
  <1>1. IInv => TypeOK
    BY DEF IInv
  <1> QED BY InitInv, NextInv, <1>1, PTL DEF Spec

\* No native handle drops out of the reader's map, and a client that has been disposed
\* of holds none and reads nothing, unless calls of connect and disconnect overlapped.
THEOREM NoHandleIsLost == Spec => []HandlesAreHeld
  <1>1. IInv => HandlesAreHeld
    BY DEF IInv
  <1> QED BY InitInv, NextInv, <1>1, PTL DEF Spec

\* A client that says it is connected and has tags is reading them, or its reader is being
\* reset, unless calls of connect and disconnect overlapped.  An aborted read loop may say
\* so too late, and then it is wrong until a call ends.
THEOREM ConnectedClientsRead == Spec => []ConnectedIsRead
  <1>1. IInv => ConnectedIsRead
    BY DEF IInv
  <1> QED BY InitInv, NextInv, <1>1, PTL DEF Spec
=============================================================================
