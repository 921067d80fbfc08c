------------------------- MODULE SimpleQueue_proofs -------------------------
(***************************************************************************)
(* What holds of the e-stop and guided queues for every set of keys and    *)
(* MCMs, every cap, batch limit and bound.  The inductive invariant counts *)
(* refusals: the strikes of a row, and the refusals that senders have been *)
(* told of and not yet written down (Owed), never exceed what the cloud    *)
(* has refused.  It relates the copies that a run of the drain holds to    *)
(* the table (Held), and each push to what is stored and to what the cloud *)
(* has (Covered).                                                          *)
(***************************************************************************)
EXTENDS SimpleQueue, WellFoundedInduction, TLAPS

\* What the inductive invariant says of a push with edit c.edit, where e is
\* the latest edit of its key and f the one the cloud has.
Covered(c, e, f) ==
  /\ c.edit <= e
  /\ c.pc = "answered" /\ c.reply = "ok" => c.edit <= f

One(c) == IF c.pc = "answered" /\ c.reply = "refused" THEN 1 ELSE 0

\* The refusals of k whose strikes have still to be written.
Owed(k) == One(push[k]) + (IF bg.busy /\ bg.row.key = k THEN One(bg.call) ELSE 0)

Edited ==
  \A k \in Key : /\ edits[k] < nextId /\ cloud[k] <= edits[k]
                 /\ push[k] # Idle => Covered(push[k], edits[k], cloud[k])

Counted ==
  /\ \A k \in Key : Owed(k) <= refusals[k]
  /\ \A r \in queue : /\ r.strikes + Owed(r.key) <= refusals[r.key]
                      /\ r.dead => Cap <= refusals[r.key]

Identified ==
  /\ \A r \in queue : r.id < nextId /\ r.edit <= edits[r.key]
  /\ \A x, y \in queue : x.id = y.id => x.key = y.key

Held ==
  bg.busy =>
    /\ Covered(bg.call, edits[bg.row.key], cloud[bg.row.key])
    /\ \A r \in bg.todo \cup {bg.row} :
         /\ r.id < nextId /\ r.edit <= edits[r.key] /\ r.strikes <= refusals[r.key]
         /\ \A x \in queue : x.id = r.id => x.key = r.key

IInv == TypeOK /\ Edited /\ Counted /\ Identified /\ Held

-----------------------------------------------------------------------------
\* Of rows with natural ids one is the oldest, and of rows with bounded ids one is the newest.
LEMMA FirstAndLast ==
  ASSUME NEW rows \in SUBSET RowType, rows # {}
  PROVE  Oldest(rows) \in rows /\ Newest(rows) \in rows
  <1>0. MaxEdits \in Nat /\ \A r \in rows : r.id \in 1..MaxEdits
    BY SimpleQueueAssumption DEF RowType
  <1>1. ASSUME NEW ids \in SUBSET Nat, ids # {}
        PROVE  \E n \in ids : \A m \in ids : n <= m
    <2>1. PICK n \in ids : \A m \in ids : ~(<<m, n>> \in OpToRel(<, Nat))
      BY <1>1, WFMin, NatLessThanWellFounded
    <2>2. ASSUME NEW m \in ids PROVE n <= m
      <3>1. m \in Nat /\ n \in Nat
        OBVIOUS
      <3>2. <<m, n>> \in Nat \X Nat /\ ~(m < n)
        BY <2>1, <3>1 DEF OpToRel
      <3> QED BY <3>1, <3>2
    <2> QED BY <2>2
  <1>2. \E r \in rows : \A x \in rows : r.id <= x.id
    <2> DEFINE ids == {r.id : r \in rows}
    <2>1. ids \in SUBSET Nat /\ ids # {}
      BY <1>0
    <2>2. PICK n \in ids : \A m \in ids : n <= m
      <3> HIDE DEF ids
      <3> QED BY <1>1, <2>1
    <2>3. PICK r \in rows : r.id = n
      OBVIOUS
    <2> QED BY <2>2, <2>3
  <1>3. \E r \in rows : \A x \in rows : x.id <= r.id
    <2> DEFINE ids == {MaxEdits - r.id : r \in rows}
    <2>1. ids \in SUBSET Nat /\ ids # {}
      BY <1>0
    <2>2. PICK n \in ids : \A m \in ids : n <= m
      <3> HIDE DEF ids
      <3> QED BY <1>1, <2>1
    <2>3. PICK r \in rows : MaxEdits - r.id = n
      OBVIOUS
    <2>4. ASSUME NEW x \in rows PROVE x.id <= r.id
      <3>1. MaxEdits - r.id <= MaxEdits - x.id
        BY <2>2, <2>3
      <3> QED BY <1>0, <3>1
    <2> QED BY <2>4
  <1> QED BY <1>2, <1>3 DEF Oldest, Newest

\* The states of a push and what they owe.
LEMMA Calls ==
  /\ Idle.pc = "idle" /\ One(Idle) = 0 /\ ~BgIdle.busy /\ BgIdle \in BgState
  /\ \A e \in 1..MaxEdits :
       /\ Sent(e) \in CallState /\ Sent(e) # Idle /\ One(Sent(e)) = 0
       /\ Sent(e).pc = "sent" /\ Sent(e).edit = e
  /\ \A e \in 1..MaxEdits, x \in Reply :
       /\ Answered(e, x) \in CallState /\ Answered(e, x) # Idle
       /\ Answered(e, x).pc = "answered" /\ Answered(e, x).edit = e /\ Answered(e, x).reply = x
  /\ \A e \in 1..MaxEdits, x \in Reply :
       One(Answered(e, x)) = IF x = "refused" THEN 1 ELSE 0
  /\ \A c \in CallState : c.pc \in {"sent", "answered"} /\ c.edit \in 1..MaxEdits /\ c # Idle
  /\ \A c : One(c) \in {0, 1}
  <1>1. Idle.pc = "idle" /\ One(Idle) = 0 /\ ~BgIdle.busy /\ BgIdle \in BgState
    BY DEF Idle, One, BgIdle, BgState
  <1>2. \A e \in 1..MaxEdits :
          /\ Sent(e) \in CallState /\ Sent(e) # Idle /\ One(Sent(e)) = 0
          /\ Sent(e).pc = "sent" /\ Sent(e).edit = e
    BY <1>1 DEF One, Sent, CallState
  <1>3. ASSUME NEW e \in 1..MaxEdits, NEW x \in Reply
        PROVE  /\ Answered(e, x) \in CallState /\ Answered(e, x) # Idle
               /\ Answered(e, x).pc = "answered" /\ Answered(e, x).edit = e
               /\ Answered(e, x).reply = x
    BY <1>1 DEF Answered, CallState
  <1>4. \A e \in 1..MaxEdits, x \in Reply :
          One(Answered(e, x)) = IF x = "refused" THEN 1 ELSE 0
    BY <1>3 DEF One
  <1>5. \A c \in CallState : c.pc \in {"sent", "answered"} /\ c.edit \in 1..MaxEdits /\ c # Idle
    BY <1>1 DEF CallState
  <1>6. \A c : One(c) \in {0, 1}
    BY DEF One
  <1> QED BY <1>1, <1>2, <1>3, <1>4, <1>5, <1>6

\* A busy drain holds rows and a push.
LEMMA BusyType ==
  ASSUME TypeOK, bg.busy
  PROVE  /\ bg.todo \in SUBSET RowType /\ bg.deferred \in SUBSET Mcm
         /\ bg.row \in RowType /\ bg.call \in CallState
         /\ bg \in [busy : {TRUE}, todo : SUBSET RowType, deferred : SUBSET Mcm,
                   row : RowType, call : CallState]
  <1>1. bg # BgIdle
    BY DEF BgIdle
  <1> QED BY <1>1 DEF TypeOK, BgState

\* What Start does to the push of k, where q is the table and latest the latest edit.
LEMMA Started ==
  ASSUME TypeOK, NEW k \in Key, NEW q \in SUBSET RowType, NEW latest \in 1..MaxEdits,
         \A r \in q : r.key = k => r.edit <= latest,
         Start(k, q, latest)
  PROVE  /\ push' \in [Key -> {Idle} \cup CallState]
         /\ \A j \in Key \ {k} : push'[j] = push[j]
         /\ \/ push'[k] = Idle /\ Kind # "estop"
            \/ \E e \in 1..MaxEdits : /\ push'[k] = Sent(e) /\ e <= latest
                                      /\ Kind = "estop" => e = latest
  <1>1. CASE Kind = "estop"
    BY <1>1, Calls DEF Start, TypeOK
  <1>2. CASE Kind # "estop" /\ RowsOf(q, k) = {}
    BY <1>2, Calls DEF Start, TypeOK
  <1>3. CASE Kind # "estop" /\ RowsOf(q, k) # {}
    <2> DEFINE r == Newest(RowsOf(q, k))
    <2>1. r \in q /\ r.key = k /\ r \in RowType
      BY <1>3, FirstAndLast DEF RowsOf
    <2>2. r.edit \in 1..MaxEdits /\ r.edit <= latest
      BY <2>1 DEF RowType
    <2>3. push' = [push EXCEPT ![k] = Sent(r.edit)]
      BY <1>3 DEF Start
    <2> HIDE DEF r
    <2> QED BY <1>3, <2>2, <2>3, Calls DEF TypeOK
  <1> QED BY <1>1, <1>2, <1>3

\* Parking and striking change neither the identity nor the edit of a row.
LEMMA Parked ==
  ASSUME NEW q \in SUBSET RowType, NEW rows
  PROVE  /\ Park(q, rows) \in SUBSET RowType
         /\ \A y \in Park(q, rows) :
              \E x \in q : /\ y.id = x.id /\ y.key = x.key /\ y.edit = x.edit /\ y.strikes = x.strikes
                           /\ y.dead => x.dead \/ \E r \in rows : r.id = x.id
         /\ \A x \in q : \E y \in Park(q, rows) : y.key = x.key
  <1> DEFINE parked(x) == IF \E r \in rows : r.id = x.id THEN [x EXCEPT !.dead = TRUE] ELSE x
  <1>1. ASSUME NEW x \in q
        PROVE  /\ parked(x) \in RowType
               /\ parked(x).id = x.id /\ parked(x).key = x.key /\ parked(x).edit = x.edit
               /\ parked(x).strikes = x.strikes
               /\ parked(x).dead => x.dead \/ \E r \in rows : r.id = x.id
    BY DEF RowType
  <1>2. Park(q, rows) = {parked(x) : x \in q}
    BY DEF Park
  <1> HIDE DEF parked
  <1> QED BY <1>1, <1>2

LEMMA StruckRows ==
  ASSUME NEW q \in SUBSET RowType, NEW reply
  PROVE  /\ Struck(q, reply) \in SUBSET RowType
         /\ \A y \in Struck(q, reply) :
              \E x \in q : /\ y.id = x.id /\ y.key = x.key /\ y.edit = x.edit /\ y.dead = x.dead
                           /\ y.strikes = x.strikes + (IF reply = "refused" THEN 1 ELSE 0)
         /\ \A x \in q : \E y \in Struck(q, reply) : y.key = x.key
  <1>1. ASSUME NEW x \in q
        PROVE  [x EXCEPT !.strikes = @ + 1] \in RowType
    BY <1>1 DEF RowType
  <1>2. CASE reply = "refused"
    <2> DEFINE struck(x) == [x EXCEPT !.strikes = @ + 1]
    <2>1. ASSUME NEW x \in q
          PROVE  /\ struck(x) \in RowType
                 /\ struck(x).id = x.id /\ struck(x).key = x.key /\ struck(x).edit = x.edit
                 /\ struck(x).dead = x.dead /\ struck(x).strikes = x.strikes + 1
      BY <1>1 DEF RowType
    <2>2. Struck(q, reply) = {struck(x) : x \in q}
      BY <1>2 DEF Struck
    <2> HIDE DEF struck
    <2> QED BY <1>2, <2>1, <2>2
  <1>3. CASE reply # "refused"
    BY <1>3 DEF Struck, RowType
  <1> QED BY <1>2, <1>3

\* The loop up to its next request: what it parks was at the cap, what it holds it
\* held before, and what it sends is stored.
LEMMA GoneOn ==
  ASSUME TypeOK, NEW todo \in SUBSET RowType, NEW deferred \in SUBSET Mcm, NEW q,
         \A r \in todo : r.edit <= edits[r.key],
         GoOn(todo, deferred, q)
  PROVE  /\ bg' \in BgState
         /\ \E now \in SUBSET todo : /\ queue' = Park(q, now)
                                     /\ \A r \in now : Cap <= r.strikes
         /\ bg'.busy =>
              /\ bg'.row \in todo /\ bg'.todo \subseteq todo
              /\ \E e \in 1..MaxEdits :
                   /\ bg'.call = Sent(e) /\ e <= edits[bg'.row.key]
                   /\ Kind = "estop" => e = edits[bg'.row.key]
  <1>0. Cap \in Nat /\ MaxEdits \in Nat
    BY SimpleQueueAssumption
  <1> DEFINE capped == {r \in todo : r.strikes >= Cap}
             rest   == {r \in todo \ capped : McmOf[r.key] \notin deferred}
  <1>1. \A r \in capped : Cap <= r.strikes
    BY <1>0 DEF RowType
  <1>2. CASE rest = {} /\ bg' = BgIdle /\ queue' = Park(q, capped)
    BY <1>1, <1>2, Calls
  <1>3. ASSUME NEW r \in rest, NEW now \in SUBSET capped,
               bg' = Draining((rest \ {r}) \cup (capped \ now), deferred, r,
                              Sent(IF Kind = "estop" THEN edits[r.key] ELSE r.edit)),
               queue' = Park(q, now)
        PROVE  bg' \in BgState /\ bg'.row \in todo /\ bg'.todo \subseteq todo
               /\ \E e \in 1..MaxEdits :
                    /\ bg'.call = Sent(e) /\ e <= edits[bg'.row.key]
                    /\ Kind = "estop" => e = edits[bg'.row.key]
    <2> DEFINE e  == IF Kind = "estop" THEN edits[r.key] ELSE r.edit
               td == (rest \ {r}) \cup (capped \ now)
    <2>1. /\ r \in RowType /\ r.edit \in 1..MaxEdits /\ r.edit <= edits[r.key]
          /\ edits[r.key] \in 0..MaxEdits
      BY DEF RowType, TypeOK
    <2>2. e \in 1..MaxEdits /\ e <= edits[r.key] /\ (Kind = "estop" => e = edits[r.key])
      BY <1>0, <2>1
    <2>3. td \subseteq todo
      OBVIOUS
    <2>4. bg' = Draining(td, deferred, r, Sent(e))
      BY <1>3
    <2> HIDE DEF e, td
    <2>5. Sent(e) \in CallState
      BY <2>2, Calls
    <2>6. bg' \in BgState
      BY <2>1, <2>3, <2>4, <2>5 DEF Draining, BgState
    <2>7. bg'.row = r /\ bg'.todo = td /\ bg'.call = Sent(e)
      BY <2>4 DEF Draining
    <2> QED BY <2>2, <2>3, <2>6, <2>7
  <1>4. \/ rest = {} /\ bg' = BgIdle /\ queue' = Park(q, capped)
        \/ \E r \in rest, now \in SUBSET capped :
             /\ bg' = Draining((rest \ {r}) \cup (capped \ now), deferred, r,
                              Sent(IF Kind = "estop" THEN edits[r.key] ELSE r.edit))
             /\ queue' = Park(q, now)
    BY DEF GoOn
  <1>5. CASE \E r \in rest, now \in SUBSET capped :
             /\ bg' = Draining((rest \ {r}) \cup (capped \ now), deferred, r,
                              Sent(IF Kind = "estop" THEN edits[r.key] ELSE r.edit))
             /\ queue' = Park(q, now)
    <2>1. PICK r \in rest, now \in SUBSET capped :
             /\ bg' = Draining((rest \ {r}) \cup (capped \ now), deferred, r,
                              Sent(IF Kind = "estop" THEN edits[r.key] ELSE r.edit))
             /\ queue' = Park(q, now)
      BY <1>5
    <2>2. now \in SUBSET todo /\ \A x \in now : Cap <= x.strikes
      BY <1>1
    <2> HIDE DEF rest, capped
    <2> QED BY <1>3, <2>1, <2>2
  <1> HIDE DEF rest, capped
  <1> QED BY <1>2, <1>4, <1>5

\* The drain goes on with table q and the rows todo: the invariant holds of what it
\* leaves if q and todo are as the invariant wants the table and the copies.
LEMMA LoopSound ==
  ASSUME IInv, NEW todo \in SUBSET RowType, NEW deferred \in SUBSET Mcm, NEW q \in SUBSET RowType,
         \A r \in todo : /\ r.id < nextId /\ r.edit <= edits[r.key]
                         /\ r.strikes <= refusals[r.key]
                         /\ \A x \in q : x.id = r.id => x.key = r.key,
         \A r \in q : /\ r.id < nextId /\ r.edit <= edits[r.key]
                      /\ r.strikes + One(push[r.key]) <= refusals[r.key]
                      /\ r.dead => Cap <= refusals[r.key],
         \A x, y \in q : x.id = y.id => x.key = y.key,
         GoOn(todo, deferred, q),
         UNCHANGED <<edits, nextId, cloud, push, dirty, left, refusals, atRisk>>
  PROVE  IInv'
  <1> TypeOK /\ Edited /\ Counted /\ \A r \in todo : r.edit <= edits[r.key]
    BY DEF IInv
  <1>0. Cap \in Nat /\ MaxEdits \in Nat
    BY SimpleQueueAssumption
  <1>1. PICK now \in SUBSET todo : queue' = Park(q, now) /\ \A r \in now : Cap <= r.strikes
    BY GoneOn
  <1>2. bg' \in BgState /\ (bg'.busy => bg'.row \in todo /\ bg'.todo \subseteq todo)
    BY GoneOn
  <1>3. bg'.busy => \E e \in 1..MaxEdits : bg'.call = Sent(e) /\ e <= edits[bg'.row.key]
    BY GoneOn
  <1>4. /\ queue' \in SUBSET RowType
        /\ \A y \in queue' :
             \E x \in q : /\ y.id = x.id /\ y.key = x.key /\ y.edit = x.edit /\ y.strikes = x.strikes
                          /\ y.dead => x.dead \/ \E r \in now : r.id = x.id
    BY <1>1, Parked
  <1>5. TypeOK'
    BY <1>2, <1>4 DEF TypeOK
  <1>6. Edited'
    BY DEF Edited
  <1>7. \A k \in Key : Owed(k)' = One(push[k])
    BY <1>2, <1>3, Calls DEF Owed
  <1>8. Counted'
    <2>1. ASSUME NEW k \in Key PROVE Owed(k)' <= refusals'[k]
      <3>1. One(push[k]) \in Nat /\ One(bg.call) \in Nat /\ One(push[k]) + 0 = One(push[k])
        BY Calls
      <3>2. Owed(k) \in Nat /\ One(push[k]) <= Owed(k) /\ Owed(k) <= refusals[k] /\ refusals[k] \in Nat
        BY <3>1 DEF Owed, Counted, TypeOK
      <3> QED BY <1>7, <3>1, <3>2
    <2>2. ASSUME NEW y \in queue'
          PROVE  /\ y.strikes + Owed(y.key)' <= refusals'[y.key]
                 /\ y.dead => Cap <= refusals'[y.key]
      <3>1. PICK x \in q : /\ y.id = x.id /\ y.key = x.key /\ y.edit = x.edit /\ y.strikes = x.strikes
                           /\ y.dead => x.dead \/ \E r \in now : r.id = x.id
        BY <1>4
      <3>2. x.key \in Key /\ refusals[x.key] \in Nat
        BY DEF RowType, TypeOK
      <3>3. y.strikes + Owed(y.key)' <= refusals'[y.key]
        BY <1>7, <3>1, <3>2
      <3>4. ASSUME NEW r \in now, r.id = x.id PROVE Cap <= refusals[x.key]
        <4>1. Cap <= r.strikes /\ r.strikes \in Nat /\ r.strikes <= refusals[r.key] /\ x.key = r.key
          BY <1>1, <3>4 DEF RowType
        <4> QED BY <1>0, <3>2, <4>1
      <3> QED BY <3>1, <3>3, <3>4
    <2> QED BY <2>1, <2>2 DEF Counted
  <1>9. Identified'
    BY <1>4 DEF Identified
  <1>10. Held'
    <2> SUFFICES ASSUME bg'.busy PROVE Held'
      BY DEF Held
    <2>1. Covered(bg.call, edits[bg.row.key], cloud[bg.row.key])'
      BY <1>3, Calls DEF Covered
    <2>2. ASSUME NEW r \in bg'.todo \cup {bg'.row}
          PROVE  /\ r.id < nextId' /\ r.edit <= edits'[r.key] /\ r.strikes <= refusals'[r.key]
                 /\ \A y \in queue' : y.id = r.id => y.key = r.key
      BY <1>2, <1>4
    <2> QED BY <2>1, <2>2 DEF Held
  <1> QED BY <1>5, <1>6, <1>8, <1>9, <1>10 DEF IInv

\* A run of the drain begins: it holds rows of the table, and deletes some.
LEMMA TickSound ==
  ASSUME IInv, TickDrain
  PROVE  IInv'
  <1> DEFINE q == queue \ (Batch \ Kept)
  <1>1. q \in SUBSET RowType /\ q \subseteq queue /\ Kept \in SUBSET RowType /\ Kept \subseteq queue
    BY DEF IInv, TypeOK, Kept, Batch, Active
  <1>2. {} \in SUBSET Mcm /\ GoOn(Kept, {}, q)
        /\ UNCHANGED <<edits, nextId, cloud, push, dirty, left, refusals, atRisk>>
    BY DEF TickDrain
  <1>3. ASSUME NEW r \in queue
        PROVE  /\ r.id < nextId /\ r.edit <= edits[r.key]
               /\ r.strikes + One(push[r.key]) <= refusals[r.key] /\ r.strikes <= refusals[r.key]
               /\ r.dead => Cap <= refusals[r.key]
               /\ \A x \in queue : x.id = r.id => x.key = r.key
    <2>1. r.id < nextId /\ r.edit <= edits[r.key] /\ \A x \in queue : x.id = r.id => x.key = r.key
      BY DEF IInv, Identified
    <2>2. r.strikes + Owed(r.key) <= refusals[r.key] /\ (r.dead => Cap <= refusals[r.key])
      BY DEF IInv, Counted
    <2>3. r.strikes \in Nat /\ refusals[r.key] \in Nat
      BY DEF IInv, TypeOK, RowType
    <2>4. Owed(r.key) = One(push[r.key]) + 0 /\ One(push[r.key]) \in {0, 1}
      BY Calls DEF Owed, TickDrain
    <2> QED BY <2>1, <2>2, <2>3, <2>4
  <1> HIDE DEF q
  <1> QED BY <1>1, <1>2, <1>3, LoopSound

\* A push reaches the cloud or not, and what the cloud answers is counted.
LEMMA DeliveredType ==
  ASSUME TypeOK, NEW k \in Key, NEW e \in 1..MaxEdits, e <= edits[k], NEW reply \in Reply,
         Delivered(k, e, reply)
  PROVE  /\ cloud' \in [Key -> 0..MaxEdits] /\ refusals' \in [Key -> Nat]
         /\ \A j \in Key : /\ cloud[j] <= cloud'[j]
                           /\ cloud[j] <= edits[j] => cloud'[j] <= edits[j]
         /\ reply = "ok" => e <= cloud'[k]
         /\ \A j \in Key :
              refusals'[j] = refusals[j] + (IF j = k /\ reply = "refused" THEN 1 ELSE 0)
  <1>0. MaxEdits \in Nat /\ cloud \in [Key -> 0..MaxEdits] /\ edits \in [Key -> 0..MaxEdits]
        /\ refusals \in [Key -> Nat]
    BY SimpleQueueAssumption DEF TypeOK
  <1>1. \/ cloud' = cloud /\ reply # "ok"
        \/ Reach(k, e)
    BY DEF Delivered
  <1>2. \/ refusals' = refusals /\ reply # "refused"
        \/ refusals' = [refusals EXCEPT ![k] = @ + 1] /\ reply = "refused"
    BY DEF Delivered
  <1>3. CASE cloud' = cloud /\ reply # "ok"
    BY <1>0, <1>2, <1>3
  <1>4. CASE Reach(k, e)
    <2> DEFINE n == IF e > cloud[k] THEN e ELSE cloud[k]
    <2>1. n \in 0..MaxEdits /\ e <= n /\ cloud[k] <= n /\ (cloud[k] <= edits[k] => n <= edits[k])
      BY <1>0
    <2>2. cloud' = [cloud EXCEPT ![k] = n]
      BY <1>4 DEF Reach
    <2> HIDE DEF n
    <2>3. /\ cloud' \in [Key -> 0..MaxEdits] /\ cloud'[k] = n
          /\ \A j \in Key \ {k} : cloud'[j] = cloud[j]
      BY <1>0, <2>1, <2>2
    <2>4. \A j \in Key : /\ cloud[j] <= cloud'[j]
                         /\ cloud[j] <= edits[j] => cloud'[j] <= edits[j]
      <3> TAKE j \in Key
      <3>1. CASE j = k
        BY <2>1, <2>3, <3>1
      <3>2. CASE j # k
        BY <1>0, <2>3, <3>2
      <3> QED BY <3>1, <3>2
    <2>5. refusals' \in [Key -> Nat]
          /\ \A j \in Key :
               refusals'[j] = refusals[j] + (IF j = k /\ reply = "refused" THEN 1 ELSE 0)
      BY <1>0, <1>2
    <2> QED BY <2>1, <2>3, <2>4, <2>5
  <1> QED BY <1>1, <1>3, <1>4

\* Covered survives whatever the cloud is sent.
LEMMA StillCovered ==
  ASSUME TypeOK, NEW j \in Key, NEW c \in CallState, Covered(c, edits[j], cloud[j]),
         cloud' \in [Key -> 0..MaxEdits], cloud[j] <= cloud'[j]
  PROVE  Covered(c, edits[j], cloud'[j])
  <1>1. c.edit \in Nat /\ cloud[j] \in Nat /\ cloud'[j] \in Nat
    BY Calls, SimpleQueueAssumption DEF TypeOK
  <1> QED BY <1>1 DEF Covered

\* The cloud answers, or the network fails: the rows are as they were, and a
\* refusal is owed to them.
LEMMA RowsOwed ==
  ASSUME IInv, NEW k \in Key, NEW reply \in Reply,
         UNCHANGED <<queue, nextId, edits>>,
         refusals' \in [Key -> Nat],
         \A j \in Key : refusals'[j] = refusals[j] + (IF j = k /\ reply = "refused" THEN 1 ELSE 0),
         \A j \in Key : Owed(j)' = Owed(j) + (IF j = k /\ reply = "refused" THEN 1 ELSE 0)
  PROVE  Counted' /\ Identified' /\ \A j \in Key : refusals[j] <= refusals'[j]
  <1>1. \A j \in Key : Owed(j) \in Nat /\ refusals[j] \in Nat /\ refusals'[j] \in Nat
    <2> TAKE j \in Key
    <2>1. One(push[j]) \in Nat /\ One(bg.call) \in Nat
      BY Calls
    <2> QED BY <2>1 DEF Owed, IInv, TypeOK
  <1>2. ASSUME NEW r \in queue
        PROVE  /\ r.strikes + Owed(r.key)' <= refusals'[r.key]
               /\ r.dead => Cap <= refusals'[r.key]
    <2>1. r.key \in Key /\ r.strikes \in Nat /\ Cap \in Nat
      BY SimpleQueueAssumption DEF IInv, TypeOK, RowType
    <2>2. r.strikes + Owed(r.key) <= refusals[r.key] /\ (r.dead => Cap <= refusals[r.key])
      BY DEF IInv, Counted
    <2> QED BY <1>1, <2>1, <2>2
  <1>3. \A j \in Key : Owed(j)' <= refusals'[j] /\ refusals[j] <= refusals'[j]
    BY <1>1 DEF IInv, Counted
  <1>4. Counted'
    BY <1>2, <1>3 DEF Counted
  <1> QED BY <1>3, <1>4 DEF Identified, IInv

LEMMA AnswerSound ==
  ASSUME IInv, NEW k \in Key, Answer(k)
  PROVE  IInv'
  <1> TypeOK
    BY DEF IInv
  <1>1. PICK reply \in Reply :
          Delivered(k, push[k].edit, reply) /\ push' = [push EXCEPT ![k] = Answered(@.edit, reply)]
    BY DEF Answer, Reply
  <1>2. push[k] \in CallState /\ push[k].edit \in 1..MaxEdits /\ push[k].pc = "sent"
    BY Calls DEF Answer, TypeOK
  <1>3. push[k].edit <= edits[k]
    BY <1>2, Calls DEF IInv, Edited, Covered
  <1> DEFINE c == Answered(push[k].edit, reply)
  <1>4. /\ c \in CallState /\ c.edit = push[k].edit /\ c.pc = "answered" /\ c.reply = reply
        /\ One(c) = IF reply = "refused" THEN 1 ELSE 0
    BY <1>2, Calls
  <1>5. push' = [push EXCEPT ![k] = c]
    BY <1>1
  <1> HIDE DEF c
  <1>6. push' \in [Key -> {Idle} \cup CallState] /\ push'[k] = c /\ \A j \in Key \ {k} : push'[j] = push[j]
    BY <1>4, <1>5 DEF TypeOK
  <1>7. /\ cloud' \in [Key -> 0..MaxEdits] /\ refusals' \in [Key -> Nat]
        /\ \A j \in Key : /\ cloud[j] <= cloud'[j]
                          /\ cloud[j] <= edits[j] => cloud'[j] <= edits[j]
        /\ reply = "ok" => push[k].edit <= cloud'[k]
        /\ \A j \in Key :
             refusals'[j] = refusals[j] + (IF j = k /\ reply = "refused" THEN 1 ELSE 0)
    BY <1>1, <1>2, <1>3, DeliveredType
  <1>8. UNCHANGED <<edits, queue, nextId, dirty, bg, atRisk>>
    BY DEF Answer
  <1>9. TypeOK'
    BY <1>6, <1>7, <1>8 DEF TypeOK
  <1>10. \A j \in Key : Owed(j)' = Owed(j) + (IF j = k /\ reply = "refused" THEN 1 ELSE 0)
    <2> TAKE j \in Key
    <2>1. One(push[k]) = 0
      BY <1>2 DEF One
    <2>2. One(push[j]) \in Nat /\ One(bg.call) \in Nat
      BY Calls
    <2>3. CASE j = k
      BY <1>4, <1>6, <1>8, <2>1, <2>2, <2>3 DEF Owed
    <2>4. CASE j # k
      BY <1>6, <1>8, <2>2, <2>4 DEF Owed
    <2> QED BY <2>3, <2>4
  <1>11. Counted' /\ Identified' /\ \A j \in Key : refusals[j] <= refusals'[j]
    BY <1>7, <1>8, <1>10, RowsOwed
  <1>12. Edited'
    <2>1. ASSUME NEW j \in Key, push'[j] # Idle
          PROVE  Covered(push'[j], edits[j], cloud'[j])
      <3>1. CASE j = k
        BY <1>3, <1>4, <1>6, <1>7, <3>1 DEF Covered
      <3>2. CASE j # k
        <4>1. push'[j] = push[j] /\ push[j] \in CallState /\ Covered(push[j], edits[j], cloud[j])
          BY <1>6, <2>1, <3>2 DEF IInv, Edited, TypeOK
        <4> QED BY <1>7, <4>1, StillCovered
      <3> QED BY <3>1, <3>2
    <2>2. \A j \in Key : edits'[j] < nextId' /\ cloud'[j] <= edits'[j]
      BY <1>7, <1>8 DEF IInv, Edited
    <2> QED BY <1>8, <2>1, <2>2 DEF Edited
  <1>13. Held'
    <2> SUFFICES ASSUME bg.busy PROVE Held'
      BY <1>8 DEF Held
    <2>1. bg.row \in RowType /\ bg.call \in CallState /\ bg.row.key \in Key /\ bg.todo \in SUBSET RowType
      BY BusyType DEF RowType
    <2>2. Covered(bg.call, edits[bg.row.key], cloud'[bg.row.key])
      BY <1>7, <2>1, StillCovered DEF IInv, Held
    <2>3. ASSUME NEW r \in bg.todo \cup {bg.row} PROVE r.strikes <= refusals'[r.key]
      <3>1. r.key \in Key /\ r.strikes \in Nat
        BY <2>1 DEF RowType
      <3>2. r.strikes <= refusals[r.key]
        BY DEF IInv, Held
      <3> QED BY <1>7, <1>11, <3>1, <3>2 DEF TypeOK
    <2> QED BY <1>8, <2>2, <2>3 DEF IInv, Held
  <1> QED BY <1>9, <1>11, <1>12, <1>13 DEF IInv

LEMMA BgAnswerSound ==
  ASSUME IInv, BgAnswer
  PROVE  IInv'
  <1> TypeOK /\ bg.busy
    BY DEF IInv, BgAnswer
  <1>1. /\ bg.row \in RowType /\ bg.call \in CallState /\ bg.todo \in SUBSET RowType
        /\ bg \in [busy : {TRUE}, todo : SUBSET RowType, deferred : SUBSET Mcm,
                   row : RowType, call : CallState]
    BY BusyType
  <1> DEFINE k == bg.row.key
  <1>2. PICK reply \in Reply :
          Delivered(k, bg.call.edit, reply) /\ bg' = [bg EXCEPT !.call = Answered(@.edit, reply)]
    BY DEF BgAnswer, Reply
  <1>3. k \in Key /\ bg.call.edit \in 1..MaxEdits /\ bg.call.pc = "sent" /\ bg.call.edit <= edits[k]
    BY <1>1, Calls DEF BgAnswer, RowType, IInv, Held, Covered
  <1> DEFINE c == Answered(bg.call.edit, reply)
  <1>4. /\ c \in CallState /\ c.edit = bg.call.edit /\ c.pc = "answered" /\ c.reply = reply
        /\ One(c) = IF reply = "refused" THEN 1 ELSE 0
    BY <1>3, Calls
  <1>5. bg' = [bg EXCEPT !.call = c]
    BY <1>2
  <1> HIDE DEF c
  <1>6. /\ bg' \in [busy : {TRUE}, todo : SUBSET RowType, deferred : SUBSET Mcm,
                    row : RowType, call : CallState]
        /\ bg'.busy /\ bg'.row = bg.row /\ bg'.todo = bg.todo /\ bg'.call = c
    BY <1>1, <1>4, <1>5
  <1>7. /\ cloud' \in [Key -> 0..MaxEdits] /\ refusals' \in [Key -> Nat]
        /\ \A j \in Key : /\ cloud[j] <= cloud'[j]
                          /\ cloud[j] <= edits[j] => cloud'[j] <= edits[j]
        /\ reply = "ok" => bg.call.edit <= cloud'[k]
        /\ \A j \in Key :
             refusals'[j] = refusals[j] + (IF j = k /\ reply = "refused" THEN 1 ELSE 0)
    <2> HIDE DEF k
    <2> QED BY <1>2, <1>3, DeliveredType
  <1>8. UNCHANGED <<edits, queue, nextId, push, dirty, atRisk>>
    BY DEF BgAnswer
  <1>9. TypeOK'
    BY <1>6, <1>7, <1>8 DEF TypeOK, BgState
  <1>10. \A j \in Key : Owed(j)' = Owed(j) + (IF j = k /\ reply = "refused" THEN 1 ELSE 0)
    <2> TAKE j \in Key
    <2>1. One(bg.call) = 0
      BY <1>3 DEF One
    <2>2. One(push[j]) \in Nat
      BY Calls
    <2>3. CASE j = k
      BY <1>4, <1>6, <1>8, <2>1, <2>2, <2>3 DEF Owed
    <2>4. CASE j # k
      BY <1>6, <1>8, <2>2, <2>4 DEF Owed
    <2> QED BY <2>3, <2>4
  <1>11. Counted' /\ Identified' /\ \A j \in Key : refusals[j] <= refusals'[j]
    <2> HIDE DEF k
    <2> QED BY <1>3, <1>7, <1>8, <1>10, RowsOwed
  <1>12. Edited'
    <2>1. ASSUME NEW j \in Key, push[j] # Idle
          PROVE  Covered(push[j], edits[j], cloud'[j])
      <3>1. push[j] \in CallState /\ Covered(push[j], edits[j], cloud[j])
        BY <2>1 DEF IInv, Edited, TypeOK
      <3> QED BY <1>7, <3>1, StillCovered
    <2> QED BY <1>7, <1>8, <2>1 DEF IInv, Edited
  <1>13. Held'
    <2>1. Covered(bg.call, edits[bg.row.key], cloud[bg.row.key])'
      BY <1>3, <1>4, <1>6, <1>7, <1>8 DEF Covered
    <2>2. ASSUME NEW r \in bg.todo \cup {bg.row} PROVE r.strikes <= refusals'[r.key]
      <3>1. r.key \in Key /\ r.strikes \in Nat
        BY <1>1 DEF RowType
      <3>2. r.strikes <= refusals[r.key]
        BY DEF IInv, Held
      <3> QED BY <1>7, <1>11, <3>1, <3>2 DEF TypeOK
    <2> QED BY <1>6, <1>8, <2>1, <2>2 DEF IInv, Held
  <1> QED BY <1>9, <1>11, <1>12, <1>13 DEF IInv

\* The answer of a push: the rows go, or some are struck, for a refusal that was owed.
LEMMA BgReplySound ==
  ASSUME IInv, BgReply
  PROVE  IInv'
  <1> TypeOK /\ bg.busy
    BY DEF IInv, BgReply
  <1>1. /\ bg.row \in RowType /\ bg.call \in CallState /\ bg.todo \in SUBSET RowType
        /\ bg.deferred \in SUBSET Mcm /\ bg.row.key \in Key
    BY BusyType DEF RowType
  <1> DEFINE r     == bg.row
             reply == bg.call.reply
             same  == {x \in queue : x.id = r.id}
             q     == IF reply = "ok" THEN queue \ RowsOf(queue, r.key)
                      ELSE (queue \ same) \cup Struck(same, reply)
             gone  == bg.deferred \cup {m \in {McmOf[r.key]} : reply = "network"}
  <1>2. /\ GoOn(bg.todo, gone, q) /\ bg.call.pc = "answered"
        /\ UNCHANGED <<edits, nextId, cloud, push, dirty, left, refusals, atRisk>>
    BY DEF BgReply
  <1>3. gone \in SUBSET Mcm
    BY <1>1, SimpleQueueAssumption
  <1>4. same \in SUBSET RowType /\ queue \in SUBSET RowType
    BY DEF TypeOK
  <1>5. ASSUME NEW y \in q
        PROVE  /\ y \in RowType
               /\ \E x \in queue : /\ y.id = x.id /\ y.key = x.key /\ y.edit = x.edit /\ y.dead = x.dead
                                   /\ \/ y.strikes = x.strikes
                                      \/ reply = "refused" /\ x.id = r.id /\ y.strikes = x.strikes + 1
    <2>1. CASE y \in queue
      BY <1>4, <2>1
    <2>2. CASE y \in Struck(same, reply)
      <3> HIDE DEF same
      <3>1. y \in RowType
        BY <1>4, <2>2, StruckRows
      <3>2. PICK x \in same : /\ y.id = x.id /\ y.key = x.key /\ y.edit = x.edit /\ y.dead = x.dead
                              /\ y.strikes = x.strikes + (IF reply = "refused" THEN 1 ELSE 0)
        BY <1>4, <2>2, StruckRows
      <3>3. x \in queue /\ x.id = r.id /\ x.strikes \in Nat
        BY <1>4 DEF same, RowType
      <3> QED BY <3>1, <3>2, <3>3
    <2> QED BY <1>5, <2>1, <2>2 DEF RowsOf
  <1> HIDE DEF q, gone, same
  <1>6. ASSUME NEW y \in q
        PROVE  /\ y.id < nextId /\ y.edit <= edits[y.key]
               /\ y.strikes + One(push[y.key]) <= refusals[y.key]
               /\ y.dead => Cap <= refusals[y.key]
    <2>1. PICK x \in queue : /\ y.id = x.id /\ y.key = x.key /\ y.edit = x.edit /\ y.dead = x.dead
                             /\ \/ y.strikes = x.strikes
                                \/ reply = "refused" /\ x.id = r.id /\ y.strikes = x.strikes + 1
      BY <1>5
    <2>2. x.strikes + Owed(x.key) <= refusals[x.key] /\ (x.dead => Cap <= refusals[x.key])
      BY DEF IInv, Counted
    <2>3. /\ x.strikes \in Nat /\ refusals[x.key] \in Nat /\ x.key \in Key
          /\ One(push[x.key]) \in Nat /\ One(bg.call) \in Nat
      BY <1>4, Calls DEF RowType, TypeOK
    <2>4. x.id < nextId /\ x.edit <= edits[x.key] /\ (x.id = r.id => x.key = r.key)
      BY DEF IInv, Identified, Held
    <2>5. CASE y.strikes = x.strikes
      <3>1. One(push[x.key]) <= Owed(x.key) /\ Owed(x.key) \in Nat
        BY <2>3 DEF Owed
      <3> QED BY <2>1, <2>2, <2>3, <2>4, <2>5, <3>1
    <2>6. CASE reply = "refused" /\ x.id = r.id /\ y.strikes = x.strikes + 1
      <3>1. One(bg.call) = 1
        BY <1>2, <2>6 DEF One
      <3>2. Owed(x.key) = One(push[x.key]) + 1
        BY <2>4, <2>6, <3>1 DEF Owed
      <3> QED BY <2>1, <2>2, <2>3, <2>4, <2>6, <3>2
    <2> QED BY <2>1, <2>5, <2>6
  <1>7. \A x, y \in q : x.id = y.id => x.key = y.key
    BY <1>5 DEF IInv, Identified
  <1>8. ASSUME NEW t \in bg.todo
        PROVE  /\ t.id < nextId /\ t.edit <= edits[t.key] /\ t.strikes <= refusals[t.key]
               /\ \A x \in q : x.id = t.id => x.key = t.key
    BY <1>5 DEF IInv, Held
  <1> QED BY <1>1, <1>2, <1>3, <1>5, <1>6, <1>7, <1>8, LoopSound

-----------------------------------------------------------------------------
\* A push that begins or ends, and a drain that dies, owe no more than before.
LEMMA LessOwed ==
  ASSUME TypeOK, NEW k \in Key, bg' = bg \/ bg' = BgIdle,
         \/ push'[k] = push[k] \/ push'[k] = Idle
         \/ \E e \in 1..MaxEdits : push'[k] = Sent(e)
  PROVE  Owed(k)' \in Nat /\ Owed(k) \in Nat /\ Owed(k)' <= Owed(k)
  <1>1. One(push[k]) \in {0, 1} /\ One(bg.call) \in {0, 1}
    BY Calls
  <1>2. One(push'[k]) = One(push[k]) \/ One(push'[k]) = 0
    BY Calls
  <1>3. CASE bg' = bg
    BY <1>1, <1>2, <1>3 DEF Owed
  <1>4. CASE bg' = BgIdle
    BY <1>1, <1>2, <1>4, Calls DEF Owed
  <1> QED BY <1>3, <1>4

\* What a step of a route, of an operator or of the process may do.
LEMMA LocalSound ==
  ASSUME IInv,
         edits' \in [Key -> 0..MaxEdits], nextId' \in 1..MaxEdits + 1, nextId <= nextId',
         queue' \in SUBSET RowType, push' \in [Key -> {Idle} \cup CallState],
         dirty' \subseteq Key, atRisk' \subseteq Key, cloud' = cloud, refusals' = refusals,
         bg' = bg \/ bg' = BgIdle,
         \A k \in Key : edits[k] <= edits'[k] /\ edits'[k] < nextId',
         \A k \in Key : \/ push'[k] = push[k] \/ push'[k] = Idle
                        \/ \E e \in 1..MaxEdits : push'[k] = Sent(e) /\ e <= edits'[k],
         \A y \in queue' : /\ y.id < nextId' /\ y.edit <= edits'[y.key]
                           /\ y.strikes + Owed(y.key)' <= refusals[y.key]
                           /\ y.dead => Cap <= refusals[y.key]
                           /\ y.id = nextId \/ \E x \in queue : x.id = y.id /\ x.key = y.key,
         \A x, y \in queue' : x.id = y.id => x.key = y.key
  PROVE  IInv'
  <1> TypeOK
    BY DEF IInv
  <1>1. MaxEdits \in Nat /\ \A k \in Key : /\ edits[k] \in Nat /\ edits'[k] \in Nat
                                           /\ cloud[k] \in Nat /\ refusals[k] \in Nat
    BY SimpleQueueAssumption DEF TypeOK
  <1>2. TypeOK'
    <2>1. bg' \in BgState
      BY Calls DEF TypeOK
    <2> QED BY <2>1 DEF TypeOK
  <1>3. Edited'
    <2>1. ASSUME NEW k \in Key, push'[k] # Idle
          PROVE  Covered(push'[k], edits'[k], cloud[k])
      <3>1. CASE push'[k] = push[k]
        <4>1. push[k] \in CallState /\ Covered(push[k], edits[k], cloud[k])
          BY <2>1, <3>1 DEF IInv, Edited, TypeOK
        <4>2. push[k].edit \in Nat
          BY <1>1, <4>1, Calls
        <4> QED BY <1>1, <3>1, <4>1, <4>2 DEF Covered
      <3>2. CASE \E e \in 1..MaxEdits : push'[k] = Sent(e) /\ e <= edits'[k]
        BY <3>2, Calls DEF Covered
      <3> QED BY <2>1, <3>1, <3>2
    <2>2. \A k \in Key : cloud[k] <= edits'[k]
      BY <1>1 DEF IInv, Edited
    <2> QED BY <2>1, <2>2 DEF Edited
  <1>4. Counted'
    <2>1. ASSUME NEW k \in Key PROVE Owed(k)' <= refusals[k]
      <3>1. Owed(k)' \in Nat /\ Owed(k) \in Nat /\ Owed(k)' <= Owed(k) /\ Owed(k) <= refusals[k]
        BY LessOwed DEF IInv, Counted
      <3> QED BY <1>1, <3>1
    <2> QED BY <2>1 DEF Counted
  <1>5. Identified'
    BY DEF Identified
  <1>6. Held'
    <2> SUFFICES ASSUME bg'.busy PROVE Held'
      BY DEF Held
    <2>1. bg' = bg /\ bg.busy
      BY Calls
    <2>2. /\ bg.row \in RowType /\ bg.call \in CallState /\ bg.todo \in SUBSET RowType
          /\ bg.row.key \in Key /\ bg.call.edit \in Nat
      BY <1>1, <2>1, BusyType, Calls DEF RowType
    <2>3. Covered(bg.call, edits'[bg.row.key], cloud[bg.row.key])
      BY <1>1, <2>1, <2>2 DEF IInv, Held, Covered
    <2>4. ASSUME NEW r \in bg.todo \cup {bg.row}
          PROVE  /\ r.id < nextId' /\ r.edit <= edits'[r.key] /\ r.strikes <= refusals[r.key]
                 /\ \A x \in queue' : x.id = r.id => x.key = r.key
      <3>1. /\ r.id < nextId /\ r.edit <= edits[r.key] /\ r.strikes <= refusals[r.key]
            /\ \A x \in queue : x.id = r.id => x.key = r.key
        BY <2>1 DEF IInv, Held
      <3>2. r.id \in Nat /\ r.edit \in Nat /\ r.key \in Key /\ nextId \in Nat /\ nextId' \in Nat
        BY <1>1, <2>2 DEF RowType, TypeOK
      <3> QED BY <1>1, <3>1, <3>2
    <2> QED BY <2>1, <2>3, <2>4 DEF Held
  <1> QED BY <1>2, <1>3, <1>4, <1>5, <1>6 DEF IInv

\* A row of the table, as the invariant has it.
LEMMA RowSound ==
  ASSUME IInv, NEW r \in queue
  PROVE  /\ r \in RowType /\ r.key \in Key /\ r.strikes \in Nat /\ refusals[r.key] \in Nat
         /\ r.id < nextId /\ r.edit <= edits[r.key]
         /\ r.strikes + Owed(r.key) <= refusals[r.key] /\ Owed(r.key) <= refusals[r.key]
         /\ r.dead => Cap <= refusals[r.key]
         /\ \A x \in queue : x.id = r.id => x.key = r.key
  <1>1. r \in RowType
    BY DEF IInv, TypeOK
  <1> QED BY <1>1 DEF IInv, TypeOK, Counted, Identified, RowType

\* The edits stay what they are, so they stay below the counter.
LEMMA SameEdits ==
  ASSUME IInv, UNCHANGED <<edits, nextId>>
  PROVE  /\ edits' \in [Key -> 0..MaxEdits] /\ nextId' \in 1..MaxEdits + 1 /\ nextId <= nextId'
         /\ \A k \in Key : edits[k] <= edits'[k] /\ edits'[k] < nextId'
  BY SimpleQueueAssumption DEF IInv, TypeOK, Edited

LEMMA CrashSound ==
  ASSUME IInv, Crash
  PROVE  IInv'
  <1>1. /\ UNCHANGED <<edits, queue, nextId, cloud, refusals, atRisk>> /\ dirty' = {}
        /\ bg' = BgIdle /\ push' = [k \in Key |-> Idle]
    BY DEF Crash
  <1>2. ASSUME NEW y \in queue PROVE y.strikes + Owed(y.key)' <= refusals[y.key]
    <2>1. Owed(y.key)' \in Nat /\ Owed(y.key) \in Nat /\ Owed(y.key)' <= Owed(y.key)
      BY <1>1, RowSound, LessOwed DEF IInv
    <2> QED BY <2>1, RowSound
  <1> QED BY <1>1, <1>2, RowSound, SameEdits, LocalSound DEF IInv, TypeOK

LEMMA OperatorSound ==
  ASSUME IInv, NEW r \in queue, Retry(r) \/ Discard(r)
  PROVE  IInv'
  <1> DEFINE new == [r EXCEPT !.dead = FALSE, !.strikes = 0]
  <1>1. /\ UNCHANGED <<edits, nextId, cloud, push, dirty, bg, refusals>>
        /\ queue' \subseteq queue \cup {new}
        /\ atRisk' \subseteq atRisk \cup {r.key}
    BY DEF Retry, Discard
  <1>2. r \in RowType /\ r.key \in Key
    BY RowSound
  <1>3. /\ new \in RowType /\ new.id = r.id /\ new.key = r.key /\ new.edit = r.edit
        /\ new.strikes = 0 /\ ~new.dead
    BY <1>2 DEF RowType
  <1> HIDE DEF new
  <1>4. \A k \in Key : Owed(k)' = Owed(k) /\ Owed(k) \in Nat
    BY <1>1, LessOwed DEF IInv, Owed
  <1>5. ASSUME NEW y \in queue'
        PROVE  /\ y \in RowType /\ y.id < nextId /\ y.edit <= edits[y.key]
               /\ y.strikes + Owed(y.key)' <= refusals[y.key]
               /\ y.dead => Cap <= refusals[y.key]
               /\ \E x \in queue : x.id = y.id /\ x.key = y.key
    <2>1. CASE y \in queue
      BY <1>4, <2>1, RowSound
    <2>2. CASE y = new
      <3>1. 0 + Owed(r.key)' <= refusals[r.key]
        BY <1>2, <1>4, RowSound
      <3> QED BY <1>3, <2>2, <3>1, RowSound
    <2> QED BY <1>1, <1>5, <2>1, <2>2
  <1>6. \A x, y \in queue' : x.id = y.id => x.key = y.key
    BY <1>5 DEF IInv, Identified
  <1>7. /\ queue' \in SUBSET RowType /\ atRisk' \subseteq Key /\ dirty' \subseteq Key
        /\ push' \in [Key -> {Idle} \cup CallState]
    BY <1>1, <1>2, <1>5 DEF IInv, TypeOK
  <1> QED BY <1>1, <1>5, <1>6, <1>7, SameEdits, LocalSound

\* An instant push is answered: its key's rows go, or are struck for the refusal.
LEMMA SettleSound ==
  ASSUME IInv, NEW k \in Key, Settle(k)
  PROVE  IInv'
  <1> TypeOK
    BY DEF IInv
  <1> DEFINE others == queue \ RowsOf(queue, k)
             mine   == Struck(RowsOf(queue, k), push[k].reply)
  <1>1. /\ UNCHANGED <<edits, nextId, cloud, bg, left, refusals, atRisk>> /\ dirty' = dirty \ {k}
        /\ push[k].pc = "answered"
        /\ queue' = IF push[k].reply = "ok" THEN others ELSE others \cup mine
    BY DEF Settle
  <1>2. push[k] \in CallState /\ push[k].edit \in 1..MaxEdits /\ push[k].edit <= edits[k]
        /\ edits[k] \in 1..MaxEdits
    <2>1. push[k] # Idle /\ push[k] \in CallState
      BY <1>1, Calls DEF TypeOK
    <2>2. push[k].edit \in 1..MaxEdits /\ push[k].edit <= edits[k] /\ edits[k] \in 0..MaxEdits
      BY <2>1, Calls DEF IInv, Edited, Covered, TypeOK
    <2> QED BY <2>1, <2>2, SimpleQueueAssumption
  <1>3. RowsOf(queue, k) \in SUBSET RowType /\ queue \in SUBSET RowType
    BY DEF TypeOK, RowsOf
  <1>4. ASSUME NEW y \in queue'
        PROVE  /\ y \in RowType
               /\ \E x \in queue : /\ y.id = x.id /\ y.key = x.key /\ y.edit = x.edit /\ y.dead = x.dead
                                   /\ \/ y.strikes = x.strikes
                                      \/ push[k].reply = "refused" /\ x.key = k /\ y.strikes = x.strikes + 1
    <2>1. CASE y \in queue
      BY <1>3, <2>1
    <2>2. CASE y \in mine
      <3>1. y \in RowType
        BY <1>3, <2>2, StruckRows
      <3>2. PICK x \in RowsOf(queue, k) :
              /\ y.id = x.id /\ y.key = x.key /\ y.edit = x.edit /\ y.dead = x.dead
              /\ y.strikes = x.strikes + (IF push[k].reply = "refused" THEN 1 ELSE 0)
        BY <1>3, <2>2, StruckRows
      <3>3. x \in queue /\ x.key = k /\ x.strikes \in Nat
        BY <1>3 DEF RowsOf, RowType
      <3> QED BY <3>1, <3>2, <3>3
    <2> QED BY <1>1, <1>4, <2>1, <2>2
  <1>5. /\ push' \in [Key -> {Idle} \cup CallState]
        /\ \A j \in Key \ {k} : push'[j] = push[j]
        /\ push'[k] = Idle \/ \E e \in 1..MaxEdits : push'[k] = Sent(e) /\ e <= edits[k]
    <2>1. CASE k \in dirty
      <3>1. Start(k, queue', edits[k])
        BY <2>1 DEF Settle
      <3>2. ASSUME NEW y \in queue', y.key = k PROVE y.edit <= edits[k]
        BY <1>4, <3>2, RowSound
      <3>3. queue' \in SUBSET RowType
        BY <1>4
      <3> QED BY <1>2, <3>1, <3>2, <3>3, Started
    <2>2. CASE k \notin dirty
      BY <2>2 DEF Settle, TypeOK
    <2> QED BY <2>1, <2>2
  <1>6. \A j \in Key : Owed(j)' \in Nat /\ Owed(j) \in Nat /\ Owed(j)' <= Owed(j)
    BY <1>1, <1>5, LessOwed
  <1>7. ASSUME push[k].reply = "refused" PROVE Owed(k)' + 1 <= Owed(k)
    <2>1. One(push[k]) = 1 /\ One(push'[k]) = 0 /\ One(bg.call) \in Nat
      BY <1>1, <1>5, <1>7, Calls DEF One
    <2> QED BY <1>1, <2>1 DEF Owed
  <1> HIDE DEF others, mine
  <1>8. ASSUME NEW y \in queue'
        PROVE  /\ y.id < nextId /\ y.edit <= edits[y.key]
               /\ y.strikes + Owed(y.key)' <= refusals[y.key]
               /\ y.dead => Cap <= refusals[y.key]
               /\ \E x \in queue : x.id = y.id /\ x.key = y.key
    <2>1. PICK x \in queue : /\ y.id = x.id /\ y.key = x.key /\ y.edit = x.edit /\ y.dead = x.dead
                             /\ \/ y.strikes = x.strikes
                                \/ push[k].reply = "refused" /\ x.key = k /\ y.strikes = x.strikes + 1
      BY <1>4
    <2>2. y.strikes + Owed(y.key)' <= refusals[y.key]
      BY <1>6, <1>7, <2>1, RowSound
    <2> QED BY <2>1, <2>2, RowSound
  <1>9. \A x, y \in queue' : x.id = y.id => x.key = y.key
    BY <1>4 DEF IInv, Identified
  <1>10. /\ queue' \in SUBSET RowType /\ dirty' \subseteq Key /\ atRisk' \subseteq Key
         /\ \A j \in Key : \/ push'[j] = push[j] \/ push'[j] = Idle
                           \/ \E e \in 1..MaxEdits : push'[j] = Sent(e) /\ e <= edits'[j]
    BY <1>1, <1>4, <1>5 DEF TypeOK
  <1> QED BY <1>1, <1>5, <1>8, <1>9, <1>10, SameEdits, LocalSound

\* An edit is stored: its row has a new id, and its push carries it at most.
LEMMA StoreSound ==
  ASSUME IInv, NEW k \in Key, Store(k)
  PROVE  IInv'
  <1> TypeOK
    BY DEF IInv
  <1> DEFINE e   == edits[k] + 1
             new == Row(nextId, k, e)
  <1>1. /\ nextId <= MaxEdits /\ edits' = [edits EXCEPT ![k] = e] /\ nextId' = nextId + 1
        /\ UNCHANGED <<cloud, bg, refusals>>
    BY DEF Store
  <1>2. /\ e \in 1..MaxEdits /\ e < nextId' /\ edits[k] <= e /\ nextId \in 1..MaxEdits
        /\ nextId' \in 1..MaxEdits + 1 /\ nextId < nextId'
    BY <1>1, SimpleQueueAssumption DEF TypeOK, IInv, Edited
  <1> HIDE DEF e
  <1>3. /\ edits' \in [Key -> 0..MaxEdits] /\ edits'[k] = e
        /\ \A j \in Key \ {k} : edits'[j] = edits[j]
    BY <1>1, <1>2 DEF TypeOK
  <1>4. \A j \in Key : edits[j] <= edits'[j] /\ edits'[j] < nextId'
    <2> TAKE j \in Key
    <2>1. CASE j = k
      BY <1>2, <1>3, <2>1
    <2>2. CASE j # k
      BY <1>2, <1>3, <2>2 DEF TypeOK, IInv, Edited
    <2> QED BY <2>1, <2>2
  <1>5. /\ new \in RowType /\ new.id = nextId /\ new.key = k /\ new.edit = e
        /\ new.strikes = 0 /\ ~new.dead
    BY <1>2 DEF Row, RowType
  <1> HIDE DEF new
  <1>6. \/ /\ queue' = queue \cup {new}
           /\ IF push[k] = Idle THEN Start(k, queue', e) /\ UNCHANGED dirty
                                ELSE dirty' = dirty \cup {k} /\ UNCHANGED push
           /\ atRisk' \subseteq atRisk \cup {k}
        \/ UNCHANGED <<queue, push, dirty>> /\ atRisk' = atRisk \cup {k}
    BY <1>3 DEF Store, new
  <1>7. queue' \subseteq queue \cup {new}
    BY <1>6
  <1>8. ASSUME NEW y \in queue'
        PROVE  /\ y \in RowType /\ y.edit <= edits'[y.key] /\ y.id < nextId'
               /\ y.id = nextId \/ \E x \in queue : x.id = y.id /\ x.key = y.key
    <2>1. CASE y \in queue
      <3>1. y \in RowType /\ y.key \in Key /\ y.id < nextId /\ y.edit <= edits[y.key]
        BY <2>1, RowSound
      <3>2. y.edit \in Nat /\ y.id \in Nat /\ edits[y.key] \in Nat /\ edits'[y.key] \in Nat
        BY <1>3, <3>1 DEF RowType, TypeOK
      <3> QED BY <1>2, <1>4, <2>1, <3>1, <3>2
    <2>2. CASE y = new
      BY <1>2, <1>3, <1>5, <2>2
    <2> QED BY <1>7, <1>8, <2>1, <2>2
  <1>9. /\ push' \in [Key -> {Idle} \cup CallState] /\ dirty' \subseteq Key /\ atRisk' \subseteq Key
        /\ \A j \in Key : \/ push'[j] = push[j] \/ push'[j] = Idle
                          \/ \E x \in 1..MaxEdits : push'[j] = Sent(x) /\ x <= edits'[j]
    <2>1. CASE UNCHANGED <<queue, push, dirty>> /\ atRisk' = atRisk \cup {k}
      BY <2>1 DEF TypeOK
    <2>2. CASE /\ queue' = queue \cup {new}
               /\ IF push[k] = Idle THEN Start(k, queue', e) /\ UNCHANGED dirty
                                    ELSE dirty' = dirty \cup {k} /\ UNCHANGED push
               /\ atRisk' \subseteq atRisk \cup {k}
      <3>1. CASE push[k] = Idle
        <4>1. Start(k, queue', e) /\ queue' \in SUBSET RowType
          BY <1>8, <2>2, <3>1
        <4>2. \A y \in queue' : y.key = k => y.edit <= e
          BY <1>3, <1>8
        <4> QED BY <1>2, <1>3, <2>2, <3>1, <4>1, <4>2, Started DEF TypeOK
      <3>2. CASE push[k] # Idle
        BY <2>2, <3>2 DEF TypeOK
      <3> QED BY <3>1, <3>2
    <2> QED BY <1>6, <2>1, <2>2
  <1>10. \A j \in Key : Owed(j)' \in Nat /\ Owed(j) \in Nat /\ Owed(j)' <= Owed(j)
    BY <1>1, <1>9, LessOwed
  <1>11. ASSUME NEW y \in queue'
         PROVE  y.strikes + Owed(y.key)' <= refusals[y.key] /\ (y.dead => Cap <= refusals[y.key])
    <2>1. CASE y \in queue
      BY <1>10, <2>1, RowSound
    <2>2. CASE y = new
      <3>1. Owed(k) <= refusals[k] /\ refusals[k] \in Nat
        BY DEF IInv, Counted, TypeOK
      <3> QED BY <1>5, <1>10, <2>2, <3>1
    <2> QED BY <1>7, <1>11, <2>1, <2>2
  <1>12. \A x, y \in queue' : x.id = y.id => x.key = y.key
    <2>1. \A x \in queue : x.id < nextId /\ x.id \in Nat
      BY RowSound DEF RowType
    <2>2. \A x \in queue : x.id # nextId
      BY <1>2, <2>1
    <2> QED BY <1>5, <1>7, <2>2 DEF IInv, Identified
  <1> QED BY <1>1, <1>2, <1>3, <1>4, <1>8, <1>9, <1>11, <1>12, LocalSound

-----------------------------------------------------------------------------
LEMMA InitIInv == Init => IInv
  <1> SUFFICES ASSUME Init PROVE IInv
    OBVIOUS
  <1>1. TypeOK
    BY Calls, SimpleQueueAssumption DEF Init, TypeOK
  <1>2. \A k \in Key : Owed(k) = 0
    BY Calls DEF Init, Owed
  <1>3. Edited /\ Counted /\ Identified /\ Held
    BY <1>2, Calls DEF Init, Edited, Counted, Identified, Held
  <1> QED BY <1>1, <1>3 DEF IInv

\* Every step of the system preserves the invariant.
LEMMA NextIInv == IInv /\ [Next]_vars => IInv'
  <1> SUFFICES ASSUME IInv, [Next]_vars PROVE IInv'
    OBVIOUS
  <1>1. ASSUME NEW k \in Key, Store(k) \/ Answer(k) \/ Settle(k) PROVE IInv'
    BY <1>1, StoreSound, AnswerSound, SettleSound
  <1>2. CASE TickDrain \/ BgAnswer \/ BgReply
    BY <1>2, TickSound, BgAnswerSound, BgReplySound
  <1>3. ASSUME NEW r \in queue, Retry(r) \/ Discard(r) PROVE IInv'
    BY <1>3, OperatorSound
  <1>4. CASE Crash
    BY <1>4, CrashSound
  <1>5. CASE UNCHANGED vars
    BY <1>5 DEF vars, IInv, TypeOK, Edited, Counted, Identified, Held, Owed
  <1> QED BY <1>1, <1>2, <1>3, <1>4, <1>5 DEF Next

\* The types of the model are right in every state.
THEOREM QueueTypes == Spec => []TypeOK
  <1>1. IInv => TypeOK
    BY DEF IInv
  <1> QED BY InitIInv, NextIInv, <1>1, PTL DEF Spec

\* However often pushes fail at the network level, and whichever sender is told, a
\* row is parked only after the cloud has refused its key Cap times.
THEOREM OutagesNeverPark == Spec => []ParkedMeansRefused
  <1>1. IInv => ParkedMeansRefused
    BY SimpleQueueAssumption DEF IInv, Counted, ParkedMeansRefused, TypeOK, RowType
  <1> QED BY InitIInv, NextIInv, <1>1, PTL DEF Spec

-----------------------------------------------------------------------------
(* The e-stop queue, whose pushes carry what the table of checks holds. *)

Unraced ==
  /\ \A k \in Key : k \notin atRisk /\ push[k] # Idle => push[k].edit = edits[k]
  /\ bg.busy /\ bg.row.key \notin atRisk => bg.call.edit = edits[bg.row.key]
  /\ KeptUnlessRaced

Keeps(q) == \A k \in Key : cloud[k] = edits[k] \/ k \in atRisk \/ RowsOf(q, k) # {}

LEMMA LoopKeeps ==
  ASSUME Kind = "estop", IInv, Unraced,
         NEW todo \in SUBSET RowType, NEW deferred \in SUBSET Mcm, NEW q \in SUBSET RowType,
         \A r \in todo : r.edit <= edits[r.key],
         Keeps(q),
         GoOn(todo, deferred, q),
         UNCHANGED <<edits, nextId, cloud, push, dirty, left, refusals, atRisk>>
  PROVE  Unraced'
  <1> TypeOK
    BY DEF IInv
  <1>1. PICK now \in SUBSET todo : queue' = Park(q, now) /\ \A r \in now : Cap <= r.strikes
    BY GoneOn
  <1>2. bg'.busy => \E e \in 1..MaxEdits : bg'.call = Sent(e) /\ e = edits[bg'.row.key]
    BY GoneOn
  <1>3. \A k \in Key : RowsOf(q, k) # {} => RowsOf(queue', k) # {}
    BY <1>1, Parked DEF RowsOf
  <1>4. KeptUnlessRaced'
    BY <1>3 DEF Keeps, KeptUnlessRaced
  <1> QED BY <1>2, <1>4, Calls DEF Unraced

LEMMA TickKeeps ==
  ASSUME Kind = "estop", IInv, Unraced, TickDrain
  PROVE  Unraced'
  <1> DEFINE q == queue \ (Batch \ Kept)
  <1>1. q \in SUBSET RowType /\ Kept \in SUBSET RowType /\ Kept \subseteq queue /\ Batch \in SUBSET RowType
    BY DEF IInv, TypeOK, Kept, Batch, Active
  <1>2. {} \in SUBSET Mcm /\ GoOn(Kept, {}, q)
        /\ UNCHANGED <<edits, nextId, cloud, push, dirty, left, refusals, atRisk>>
    BY DEF TickDrain
  <1>3. ASSUME NEW k \in Key, RowsOf(queue, k) # {} PROVE RowsOf(q, k) # {}
    <2>1. CASE RowsOf(Batch, k) = {}
      BY <1>3, <2>1 DEF RowsOf
    <2>2. CASE RowsOf(Batch, k) # {}
      <3> DEFINE r == Oldest(RowsOf(Batch, k))
      <3>1. RowsOf(Batch, k) \in SUBSET RowType
        BY <1>1 DEF RowsOf
      <3>2. r \in RowsOf(Batch, k)
        BY <2>2, <3>1, FirstAndLast
      <3>3. r \in Batch /\ r.key = k
        BY <3>2 DEF RowsOf
      <3>4. r \in Kept
        BY <3>3 DEF Kept, Preferred
      <3> HIDE DEF r
      <3> QED BY <1>1, <3>3, <3>4 DEF RowsOf
    <2> QED BY <2>1, <2>2
  <1>4. Keeps(q)
    BY <1>3 DEF Unraced, KeptUnlessRaced, Keeps
  <1>5. \A r \in Kept : r.edit <= edits[r.key]
    BY <1>1, RowSound
  <1> HIDE DEF q
  <1> QED BY <1>1, <1>2, <1>4, <1>5, LoopKeeps

LEMMA BgReplyKeeps ==
  ASSUME Kind = "estop", IInv, Unraced, BgReply
  PROVE  Unraced'
  <1> TypeOK /\ bg.busy
    BY DEF IInv, BgReply
  <1>1. /\ bg.row \in RowType /\ bg.call \in CallState /\ bg.todo \in SUBSET RowType
        /\ bg.deferred \in SUBSET Mcm /\ bg.row.key \in Key
    BY BusyType DEF RowType
  <1> DEFINE r     == bg.row
             reply == bg.call.reply
             same  == {x \in queue : x.id = r.id}
             q     == IF reply = "ok" THEN queue \ RowsOf(queue, r.key)
                      ELSE (queue \ same) \cup Struck(same, reply)
             gone  == bg.deferred \cup {m \in {McmOf[r.key]} : reply = "network"}
  <1>2. /\ GoOn(bg.todo, gone, q) /\ bg.call.pc = "answered"
        /\ UNCHANGED <<edits, nextId, cloud, push, dirty, left, refusals, atRisk>>
    BY DEF BgReply
  <1>3. gone \in SUBSET Mcm
    BY <1>1, SimpleQueueAssumption
  <1>4. same \in SUBSET RowType /\ queue \in SUBSET RowType
    BY DEF TypeOK
  <1>5. q \in SUBSET RowType
    BY <1>4, StruckRows
  <1>6. ASSUME NEW k \in Key
        PROVE  cloud[k] = edits[k] \/ k \in atRisk \/ RowsOf(q, k) # {}
    <2>1. CASE reply = "ok" /\ k = r.key
      <3>1. /\ bg.call.edit <= cloud[k] /\ cloud[k] <= edits[k]
            /\ k \in atRisk \/ bg.call.edit = edits[k]
        BY <1>2, <2>1 DEF IInv, Held, Covered, Edited, Unraced
      <3>2. cloud[k] \in Nat /\ edits[k] \in Nat
        BY SimpleQueueAssumption DEF TypeOK
      <3> QED BY <3>1, <3>2
    <2>2. CASE reply = "ok" /\ k # r.key
      BY <2>2 DEF RowsOf, Unraced, KeptUnlessRaced
    <2>3. CASE reply # "ok"
      <3>1. ASSUME NEW x \in queue PROVE \E y \in q : y.key = x.key
        <4>1. CASE x \in same
          <5>1. \E y \in Struck(same, reply) : y.key = x.key
            <6> HIDE DEF same
            <6> QED BY <1>4, <4>1, StruckRows
          <5> QED BY <2>3, <5>1
        <4>2. CASE x \notin same
          BY <2>3, <4>2
        <4> QED BY <4>1, <4>2
      <3> HIDE DEF q
      <3> QED BY <3>1 DEF RowsOf, Unraced, KeptUnlessRaced
    <2> QED BY <2>1, <2>2, <2>3
  <1>7. Keeps(q)
    BY <1>6 DEF Keeps
  <1>8. \A x \in bg.todo : x.edit <= edits[x.key]
    BY DEF IInv, Held
  <1> HIDE DEF q, gone, same
  <1> QED BY <1>1, <1>2, <1>3, <1>5, <1>7, <1>8, LoopKeeps

\* An answered push holds the latest edit, or its key is at risk.
LEMMA AnswerKeeps ==
  ASSUME Kind = "estop", IInv, Unraced, NEW k \in Key, Answer(k)
  PROVE  Unraced'
  <1> TypeOK
    BY DEF IInv
  <1>1. PICK reply \in Reply :
          Delivered(k, push[k].edit, reply) /\ push' = [push EXCEPT ![k] = Answered(@.edit, reply)]
    BY DEF Answer, Reply
  <1>2. /\ push[k] \in CallState /\ push[k].edit \in 1..MaxEdits /\ push[k] # Idle
        /\ push[k].edit <= edits[k]
    BY Calls DEF Answer, TypeOK, IInv, Edited, Covered
  <1>3. /\ push'[k].edit = push[k].edit /\ \A j \in Key \ {k} : push'[j] = push[j]
    BY <1>1, <1>2, Calls DEF TypeOK
  <1>4. /\ cloud' \in [Key -> 0..MaxEdits]
        /\ \A j \in Key : /\ cloud[j] <= cloud'[j]
                          /\ cloud[j] <= edits[j] => cloud'[j] <= edits[j]
    BY <1>1, <1>2, DeliveredType
  <1>5. UNCHANGED <<edits, queue, nextId, dirty, bg, atRisk>>
    BY DEF Answer
  <1>6. ASSUME NEW j \in Key, cloud[j] = edits[j] PROVE cloud'[j] = edits[j]
    <2>1. cloud[j] \in Nat /\ cloud'[j] \in Nat /\ edits[j] \in Nat
      BY <1>4, SimpleQueueAssumption DEF TypeOK
    <2> QED BY <1>4, <1>6, <2>1
  <1>7. KeptUnlessRaced'
    BY <1>5, <1>6 DEF Unraced, KeptUnlessRaced, RowsOf
  <1>8. \A j \in Key : j \notin atRisk /\ push'[j] # Idle => push'[j].edit = edits[j]
    BY <1>2, <1>3 DEF Unraced
  <1> QED BY <1>5, <1>7, <1>8 DEF Unraced

LEMMA BgAnswerKeeps ==
  ASSUME Kind = "estop", IInv, Unraced, BgAnswer
  PROVE  Unraced'
  <1> TypeOK /\ bg.busy
    BY DEF IInv, BgAnswer
  <1>1. /\ bg.row \in RowType /\ bg.call \in CallState
        /\ bg \in [busy : {TRUE}, todo : SUBSET RowType, deferred : SUBSET Mcm,
                   row : RowType, call : CallState]
    BY BusyType
  <1> DEFINE k == bg.row.key
  <1>2. PICK reply \in Reply :
          Delivered(k, bg.call.edit, reply) /\ bg' = [bg EXCEPT !.call = Answered(@.edit, reply)]
    BY DEF BgAnswer, Reply
  <1>3. k \in Key /\ bg.call.edit \in 1..MaxEdits /\ bg.call.edit <= edits[k]
    BY <1>1, Calls DEF RowType, IInv, Held, Covered
  <1>4. bg'.row = bg.row /\ bg'.call.edit = bg.call.edit
    <2>1. bg'.call = Answered(bg.call.edit, reply) /\ bg'.row = bg.row
      BY <1>1, <1>2
    <2> QED BY <1>3, <2>1, Calls
  <1> HIDE DEF k
  <1>5. /\ cloud' \in [Key -> 0..MaxEdits]
        /\ \A j \in Key : /\ cloud[j] <= cloud'[j]
                          /\ cloud[j] <= edits[j] => cloud'[j] <= edits[j]
    BY <1>2, <1>3, DeliveredType
  <1>6. UNCHANGED <<edits, queue, nextId, push, dirty, atRisk>>
    BY DEF BgAnswer
  <1>7. ASSUME NEW j \in Key, cloud[j] = edits[j] PROVE cloud'[j] = edits[j]
    <2>1. cloud[j] \in Nat /\ cloud'[j] \in Nat /\ edits[j] \in Nat
      BY <1>5, SimpleQueueAssumption DEF TypeOK
    <2> QED BY <1>5, <1>7, <2>1
  <1>8. KeptUnlessRaced'
    BY <1>6, <1>7 DEF Unraced, KeptUnlessRaced, RowsOf
  <1> QED BY <1>4, <1>6, <1>8 DEF Unraced

\* The push function of the e-stop route sends the latest edit.
LEMMA StartsLatest ==
  ASSUME Kind = "estop", TypeOK, NEW k \in Key, NEW q, NEW latest \in 1..MaxEdits, Start(k, q, latest)
  PROVE  push'[k] = Sent(latest) /\ push'[k].edit = latest /\ \A j \in Key \ {k} : push'[j] = push[j]
  BY Calls DEF Start, TypeOK

LEMMA SettleKeeps ==
  ASSUME Kind = "estop", IInv, Unraced, NEW k \in Key, Settle(k)
  PROVE  Unraced'
  <1> TypeOK
    BY DEF IInv
  <1>1. /\ UNCHANGED <<edits, nextId, cloud, bg, left, refusals, atRisk>>
        /\ push[k].pc = "answered"
        /\ queue' = IF push[k].reply = "ok" THEN queue \ RowsOf(queue, k)
                    ELSE (queue \ RowsOf(queue, k)) \cup Struck(RowsOf(queue, k), push[k].reply)
    BY DEF Settle
  <1>2. /\ push[k] # Idle /\ push[k].edit <= edits[k] /\ push[k].edit \in 1..MaxEdits
        /\ edits[k] \in 1..MaxEdits /\ cloud[k] \in 0..MaxEdits /\ cloud[k] <= edits[k]
        /\ push[k].reply = "ok" => push[k].edit <= cloud[k]
    <2>1. push[k] # Idle /\ push[k] \in CallState
      BY <1>1, Calls DEF TypeOK
    <2>2. /\ push[k].edit \in 1..MaxEdits /\ push[k].edit <= edits[k] /\ edits[k] \in 0..MaxEdits
          /\ cloud[k] \in 0..MaxEdits /\ cloud[k] <= edits[k]
          /\ push[k].reply = "ok" => push[k].edit <= cloud[k]
      BY <1>1, <2>1, Calls DEF IInv, Edited, Covered, TypeOK
    <2> QED BY <2>1, <2>2, SimpleQueueAssumption
  <1>3. \A j \in Key : j \notin atRisk /\ push'[j] # Idle => push'[j].edit = edits[j]
    <2>1. CASE k \in dirty
      <3>1. Start(k, queue', edits[k])
        BY <2>1 DEF Settle
      <3>2. push'[k].edit = edits[k] /\ \A j \in Key \ {k} : push'[j] = push[j]
        BY <1>2, <3>1, StartsLatest
      <3> QED BY <3>2 DEF Unraced
    <2>2. CASE k \notin dirty
      <3>1. push'[k] = Idle /\ \A j \in Key \ {k} : push'[j] = push[j]
        BY <2>2 DEF Settle, TypeOK
      <3> QED BY <3>1 DEF Unraced
    <2> QED BY <2>1, <2>2
  <1>4. ASSUME NEW j \in Key
        PROVE  cloud[j] = edits[j] \/ j \in atRisk \/ RowsOf(queue', j) # {}
    <2>1. CASE push[k].reply = "ok" /\ j = k
      <3>1. k \in atRisk \/ push[k].edit = edits[k]
        BY <1>2 DEF Unraced
      <3>2. push[k].edit <= cloud[k] /\ cloud[k] \in Nat /\ edits[k] \in Nat /\ cloud[k] <= edits[k]
        BY <1>2, <2>1, SimpleQueueAssumption
      <3> QED BY <2>1, <3>1, <3>2
    <2>2. CASE push[k].reply = "ok" /\ j # k
      <3>1. RowsOf(queue', j) = RowsOf(queue, j)
        BY <1>1, <2>2 DEF RowsOf
      <3> QED BY <3>1 DEF Unraced, KeptUnlessRaced
    <2>3. CASE push[k].reply # "ok"
      <3>1. RowsOf(queue, k) \in SUBSET RowType
        BY DEF RowsOf, TypeOK
      <3>2. ASSUME NEW x \in queue PROVE \E y \in queue' : y.key = x.key
        <4>1. CASE x \in RowsOf(queue, k)
          BY <1>1, <2>3, <3>1, <4>1, StruckRows
        <4>2. CASE x \notin RowsOf(queue, k)
          BY <1>1, <2>3, <4>2
        <4> QED BY <4>1, <4>2
      <3> QED BY <3>2 DEF RowsOf, Unraced, KeptUnlessRaced
    <2> QED BY <2>1, <2>2, <2>3
  <1> QED BY <1>1, <1>3, <1>4 DEF Unraced, KeptUnlessRaced

\* An edit has its row, unless a push of its key is under way or the row is lost.
LEMMA StoreKeeps ==
  ASSUME Kind = "estop", IInv, Unraced, NEW k \in Key, Store(k)
  PROVE  Unraced'
  <1> TypeOK
    BY DEF IInv
  <1> DEFINE e   == edits[k] + 1
             new == Row(nextId, k, e)
  <1>1. nextId <= MaxEdits /\ edits' = [edits EXCEPT ![k] = e] /\ UNCHANGED <<cloud, bg, refusals>>
    BY DEF Store
  <1>2. e \in 1..MaxEdits
    BY <1>1, SimpleQueueAssumption DEF TypeOK, IInv, Edited
  <1> HIDE DEF e
  <1>3. edits'[k] = e /\ \A j \in Key \ {k} : edits'[j] = edits[j]
    BY <1>1 DEF TypeOK
  <1>4. new.key = k
    BY DEF Row
  <1> HIDE DEF new
  <1>5. CASE UNCHANGED <<queue, push, dirty>> /\ atRisk' = atRisk \cup {k}
    <2>1. KeptUnlessRaced'
      BY <1>1, <1>3, <1>5 DEF Unraced, KeptUnlessRaced, RowsOf
    <2>2. bg.busy => bg.row.key \in Key
      BY BusyType DEF RowType
    <2> QED BY <1>1, <1>3, <1>5, <2>1, <2>2 DEF Unraced
  <1>6. CASE /\ queue' = queue \cup {new}
             /\ IF push[k] = Idle THEN Start(k, queue', e) /\ UNCHANGED dirty
                                  ELSE dirty' = dirty \cup {k} /\ UNCHANGED push
             /\ atRisk' = IF Busy(k) THEN atRisk \cup {k} ELSE atRisk \ {k}
    <2>1. \A j \in Key : RowsOf(queue, j) \subseteq RowsOf(queue', j) /\ RowsOf(queue', k) # {}
      BY <1>4, <1>6 DEF RowsOf
    <2>2. \A j \in Key \ {k} : (j \in atRisk' <=> j \in atRisk)
      BY <1>6
    <2>3. KeptUnlessRaced'
      BY <1>1, <1>3, <2>1, <2>2 DEF Unraced, KeptUnlessRaced
    <2>4. ASSUME NEW j \in Key, j \notin atRisk', push'[j] # Idle PROVE push'[j].edit = edits'[j]
      <3>1. CASE push[k] = Idle
        <4>1. Start(k, queue', e)
          BY <1>6, <3>1
        <4>2. push'[k].edit = e /\ \A i \in Key \ {k} : push'[i] = push[i]
          BY <1>2, <4>1, StartsLatest
        <4> QED BY <1>3, <2>2, <2>4, <4>2 DEF Unraced
      <3>2. CASE push[k] # Idle
        <4>1. Busy(k) /\ k \in atRisk' /\ push' = push
          BY <1>6, <3>2 DEF Busy
        <4> QED BY <1>3, <2>2, <2>4, <4>1 DEF Unraced
      <3> QED BY <3>1, <3>2
    <2>5. bg.busy /\ bg.row.key \notin atRisk' => bg.call.edit = edits'[bg.row.key]
      <3> SUFFICES ASSUME bg.busy, bg.row.key \notin atRisk' PROVE bg.call.edit = edits'[bg.row.key]
        OBVIOUS
      <3>1. bg.row.key \in Key
        BY BusyType DEF RowType
      <3>2. bg.row.key # k
        BY <1>6 DEF Busy
      <3> QED BY <1>3, <2>2, <3>1, <3>2 DEF Unraced
    <2> QED BY <1>1, <2>3, <2>4, <2>5 DEF Unraced
  <1>7. \/ /\ queue' = queue \cup {new}
           /\ IF push[k] = Idle THEN Start(k, queue', e) /\ UNCHANGED dirty
                                ELSE dirty' = dirty \cup {k} /\ UNCHANGED push
           /\ atRisk' = IF Busy(k) THEN atRisk \cup {k} ELSE atRisk \ {k}
        \/ UNCHANGED <<queue, push, dirty>> /\ atRisk' = atRisk \cup {k}
    BY <1>3 DEF Store, new
  <1> QED BY <1>5, <1>6, <1>7

LEMMA OperatorKeeps ==
  ASSUME IInv, Unraced, NEW r \in queue, Retry(r) \/ Discard(r)
  PROVE  Unraced'
  <1> DEFINE new == [r EXCEPT !.dead = FALSE, !.strikes = 0]
  <1>1. /\ UNCHANGED <<edits, nextId, cloud, push, dirty, bg, refusals>>
        /\ \/ queue' = (queue \ {r}) \cup {new} /\ atRisk' = atRisk
           \/ queue' = queue \ {r} /\ atRisk' = atRisk \cup {r.key}
    BY DEF Retry, Discard
  <1>2. new.key = r.key
    BY RowSound DEF RowType
  <1> HIDE DEF new
  <1>3. \A k \in Key : RowsOf(queue, k) # {} => k \in atRisk' \/ RowsOf(queue', k) # {}
    BY <1>1, <1>2 DEF RowsOf
  <1> QED BY <1>1, <1>3 DEF Unraced, KeptUnlessRaced

LEMMA NextKeeps == Kind = "estop" /\ IInv /\ Unraced /\ [Next]_vars => Unraced'
  <1> SUFFICES ASSUME Kind = "estop", IInv, Unraced, [Next]_vars PROVE Unraced'
    OBVIOUS
  <1>1. ASSUME NEW k \in Key, Store(k) \/ Answer(k) \/ Settle(k) PROVE Unraced'
    BY <1>1, StoreKeeps, AnswerKeeps, SettleKeeps
  <1>2. CASE TickDrain \/ BgAnswer \/ BgReply
    BY <1>2, TickKeeps, BgAnswerKeeps, BgReplyKeeps
  <1>3. ASSUME NEW r \in queue, Retry(r) \/ Discard(r) PROVE Unraced'
    BY <1>3, OperatorKeeps
  <1>4. CASE Crash
    BY <1>4, Calls DEF Crash, Unraced, KeptUnlessRaced, RowsOf
  <1>5. CASE UNCHANGED vars
    BY <1>5 DEF vars, Unraced, KeptUnlessRaced, RowsOf
  <1> QED BY <1>1, <1>2, <1>3, <1>4, <1>5 DEF Next

\* An e-stop edit that was stored while no push of its check was under way keeps a
\* row until the cloud holds it, whatever is lost, retried, parked or restarted.
THEOREM QuietEditsAreKept == ASSUME Kind = "estop" PROVE Spec => []KeptUnlessRaced
  <1>1. Init => Unraced
    BY Calls DEF Init, Unraced, KeptUnlessRaced
  <1>2. IInv /\ Unraced /\ [Next]_vars => (IInv /\ Unraced)'
    BY NextIInv, NextKeeps
  <1>3. Unraced => KeptUnlessRaced
    BY DEF Unraced
  <1> QED BY InitIInv, <1>1, <1>2, <1>3, PTL DEF Spec
=============================================================================
