---------------------------- MODULE L2Cells_proofs ----------------------------
(***************************************************************************)
(* The L2 cell queue for every set of actors, any number of edits, rows,    *)
(* misfortunes and requests of the operator.                               *)
(*                                                                         *)
(* The row of an edit that the cloud has not taken goes only with the       *)
(* acceptance of a push, which `raced` records: KeptUnlessRaced is then      *)
(* inductive by itself.  That the value in the table stands against what    *)
(* comes down needs more: the wanted value is the one in the table (Held),  *)
(* and a merge that may overwrite it began before the edit or found its     *)
(* row gone (MergeKnows).                                                  *)
(***************************************************************************)
EXTENDS L2Cells, FiniteSetTheorems, WellFoundedInduction, TLAPS

\* The wanted value is in the table; what has a value, or comes down, exists.
Held ==
  /\ want # None => local.val = want
  /\ local.val # 0 => local.ver > 0
  /\ \A i \in 1..Len(events) : events[i].ver > 0

\* A merge that has seen no row came before the edit, or a push took the row along.
MergeKnows == pull.pc = "merging" /\ ~pull.late /\ ~pull.queued /\ want # None => raced

IInv == TypeOK /\ KeptUnlessRaced /\ Held /\ MergeKnows

-----------------------------------------------------------------------------
(* Values of the operators *)

LEMMA CellTyped == ASSUME NEW v \in 0..MaxEdits, NEW n \in Nat
                   PROVE  Cell(v, n) \in CellType /\ Cell(v, n).val = v /\ Cell(v, n).ver = n
  BY DEF Cell, CellType

LEMMA Nones == /\ NoPush \in PushType /\ NoPush.pc = "idle"
               /\ NoPull \in PullType /\ NoPull.pc = "idle"
               /\ Cell(0, 0) \in CellType /\ Cell(0, 0).val = 0 /\ Cell(0, 0).ver = 0
  <1> USE L2CellsAssumption
  <1>1. Cell(0, 0) \in CellType /\ Cell(0, 0).val = 0 /\ Cell(0, 0).ver = 0
    BY DEF Cell, CellType
  <1>2. NoPush \in PushType /\ NoPush.pc = "idle"
    BY DEF NoPush, PushType
  <1>3. NoPull \in PullType /\ NoPull.pc = "idle"
    BY <1>1 DEF NoPull, PullType
  <1> QED BY <1>1, <1>2, <1>3

\* A set of rows with ids of their own is finite, and of size at most MaxRows + 3.
LEMMA RowsFinite ==
  ASSUME NEW rs, rs \subseteq RowType, \A r, s \in rs : r.id = s.id => r = s
  PROVE  IsFiniteSet(rs)
  <1> USE L2CellsAssumption
  <1> DEFINE f == [r \in rs |-> r.id]
             ids == 1..(MaxRows + 3)
  <1>1. f \in [rs -> ids]
    BY DEF RowType
  <1>2. \A r, s \in rs : f[r] = f[s] => r = s
    OBVIOUS
  <1>3. f \in Injection(rs, ids)
    BY <1>1, <1>2 DEF Injection, IsInjective
  <1>4. IsFiniteSet(ids)
    BY FS_Interval
  <1> HIDE DEF f, ids
  <1> QED BY <1>3, <1>4, FS_Injection

\* The new row is a row, with an id that no row of the queue has: there are more ids
\* than rows and pushes that hold one.
LEMMA FreshRow ==
  ASSUME TypeOK, NEW rs \in SUBSET rows, Cardinality(rs) <= MaxRows, NEW n \in Nat
  PROVE  Row(rs, n) \in RowType /\ Row(rs, n).base = n /\ \A r \in rs : r.id # Row(rs, n).id
  <1> USE L2CellsAssumption
  <1>1. rs \subseteq RowType /\ IsFiniteSet(rs)
    BY RowsFinite DEF TypeOK, RowsOK
  <1>2. Cardinality(rs) \in Nat
    BY <1>1, FS_CardinalityType
  <1> DEFINE k == Cardinality(rs) + 3
             ids == {r.id : r \in rs}
             used == (ids \cup {drain.id}) \cup {manual.id}
  <1>3. IsFiniteSet(ids) /\ Cardinality(ids) <= Cardinality(rs)
    <2> DEFINE f == [r \in rs |-> r.id]
    <2>1. f \in Surjection(rs, ids)
      BY DEF Surjection
    <2> HIDE DEF f
    <2> QED BY <1>1, <2>1, FS_Surjection
  <1>4. IsFiniteSet(used) /\ Cardinality(used) <= Cardinality(rs) + 2
    <2> HIDE DEF ids
    <2>1. /\ IsFiniteSet(ids \cup {drain.id})
          /\ Cardinality(ids \cup {drain.id}) \in {Cardinality(ids), Cardinality(ids) + 1}
      BY <1>3, FS_AddElement
    <2>2. /\ IsFiniteSet(used)
          /\ Cardinality(used) \in {Cardinality(ids \cup {drain.id}),
                                    Cardinality(ids \cup {drain.id}) + 1}
      BY <2>1, FS_AddElement
    <2>3. Cardinality(ids) \in Nat
      BY <1>3, FS_CardinalityType
    <2> QED BY <1>2, <1>3, <2>1, <2>2, <2>3
  <1>5. \E i \in 1..k : i \notin used
    <2> SUFFICES ASSUME 1..k \subseteq used PROVE FALSE
      OBVIOUS
    <2> HIDE DEF used
    <2>1. Cardinality(1..k) = k
      BY <1>2, FS_Interval
    <2>2. Cardinality(1..k) <= Cardinality(used)
      BY <1>4, FS_Subset
    <2>3. Cardinality(used) \in Nat
      BY <1>4, FS_CardinalityType
    <2> QED BY <1>2, <1>4, <2>1, <2>2, <2>3
  <1> DEFINE P(i) == i \notin {drain.id, manual.id} /\ \A r \in rs : r.id # i
             c == CHOOSE i \in 1..k : P(i)
  <1>6. \E i \in 1..k : P(i)
    BY <1>5
  <1>7. c \in 1..k /\ P(c)
    <2> HIDE DEF P
    <2> QED BY <1>6
  <1>8. Row(rs, n) = [id |-> c, base |-> n, strikes |-> 0, parked |-> FALSE, orphan |-> FALSE]
    BY DEF Row
  <1>9. k \in Nat /\ k <= MaxRows + 3
    BY <1>2
  <1>10. c \in 1..(MaxRows + 3) /\ \A r \in rs : r.id # c
    <2> HIDE DEF c, k
    <2> QED BY <1>7, <1>9
  <1> HIDE DEF c, k, P
  <1> QED BY <1>8, <1>10 DEF RowType

\* The version a push builds on is a number: a queue that has rows has a lowest one.
LEMMA BaseTyped == ASSUME NEW rs, rs \subseteq RowType, NEW n \in Nat PROVE Base(rs, n) \in Int
  <1>1. CASE rs = {}
    BY <1>1 DEF Base
  <1>2. CASE rs # {}
    <2> DEFINE bases == {r.base : r \in rs}
    <2>1. bases \subseteq Nat /\ bases # {}
      BY <1>2 DEF RowType
    <2>2. PICK b \in bases : \A c \in bases : ~(<<c, b>> \in OpToRel(<, Nat))
      BY <2>1, WFMin, NatLessThanWellFounded
    <2>3. \A c \in bases : b <= c
      <3> SUFFICES ASSUME NEW c \in bases PROVE b <= c
        OBVIOUS
      <3>1. b \in Nat /\ c \in Nat
        BY <2>1
      <3>2. ~(c < b)
        BY <2>2, <3>1 DEF OpToRel
      <3> QED BY <3>1, <3>2
    <2>4. \E c \in bases : \A r \in rs : c <= r.base
      BY <2>3
    <2> DEFINE m == CHOOSE low \in bases : \A r \in rs : low <= r.base
    <2>5. m \in bases
      BY <2>4
    <2>6. Base(rs, n) = m
      BY <1>2, Zenon DEF Base
    <2> HIDE DEF m
    <2> QED BY <2>1, <2>5, <2>6
  <1> QED BY <1>1, <1>2

LEMMA PushTyped ==
  ASSUME NEW cell \in CellType, NEW rs, rs \subseteq RowType
  PROVE  Push(cell, rs) \in PushType /\ Push(cell, rs).pc = "sent"
  <1>1. Base(rs, cell.ver) \in Int /\ cell.val \in 0..MaxEdits
    BY BaseTyped DEF CellType
  <1> QED BY <1>1, Nones DEF Push, PushType

LEMMA PushOfTyped ==
  ASSUME TypeOK, NEW r \in RowType
  PROVE  PushOf(r) \in PushType
  <1>1. r.id \in 0..(MaxRows + 3) /\ r.base \in Int /\ local.val \in 0..MaxEdits
    BY L2CellsAssumption DEF RowType, TypeOK, CellType
  <1> QED BY <1>1, Nones DEF PushOf, PushType

\* Steps that derive every row from a row of the same id keep the queue in order.
LEMMA RowsMapped ==
  ASSUME RowsOK, NEW g \in [rows -> RowType], \A r \in rows : g[r].id = r.id,
         rows' \subseteq {g[r] : r \in rows}, rows # {} => device' /\ local'.ver > 0
  PROVE  RowsOK'
  BY DEF RowsOK

LEMMA RowsDropped ==
  ASSUME RowsOK, rows' \subseteq rows, rows' # {} => device' /\ local'.ver > 0
  PROVE  RowsOK'
  BY DEF RowsOK

LEMMA RowsAdded ==
  ASSUME RowsOK, NEW r \in RowType, \A q \in rows : q.id # r.id,
         rows' = rows \cup {r}, device', local'.ver > 0
  PROVE  RowsOK'
  BY DEF RowsOK

\* An instance of PushesOK that names its parts.
LEMMA Calls ==
  PushesOK <=> /\ instant \in PushType /\ drain \in PushType /\ manual \in PushType
               /\ strays \subseteq PushType
               /\ again \in BOOLEAN /\ (again => instant.pc # "idle")
  BY DEF PushesOK

-----------------------------------------------------------------------------
LEMMA InitInv == Init => IInv
  <1> SUFFICES ASSUME Init PROVE IInv
    OBVIOUS
  <1> USE L2CellsAssumption DEF Init
  <1>1. RowsOK
    BY DEF RowsOK
  <1>2. PushesOK
    BY Nones DEF PushesOK
  <1>3. left \in [budget : 0..Budget, asks : 0..Asks]
    OBVIOUS
  <1>4. owned \in BOOLEAN /\ gone \in BOOLEAN /\ device \in BOOLEAN /\ tracked \in BOOLEAN
        /\ raced \in BOOLEAN
    BY Zenon
  <1>5. events \in Seq(CellType) /\ Len(events) = 0
    OBVIOUS
  <1>6. TypeOK
    BY <1>1, <1>2, <1>3, <1>4, <1>5, Nones DEF TypeOK
  <1>7. KeptUnlessRaced /\ MergeKnows
    BY Nones DEF KeptUnlessRaced, MergeKnows
  <1>8. Held
    BY <1>5, Nones DEF Held
  <1> QED BY <1>6, <1>7, <1>8 DEF IInv

\* An edit and its row are there together.
LEMMA EditInv == ASSUME IInv, Edit PROVE IInv'
  <1> USE L2CellsAssumption DEF IInv
  <1>1. PICK v \in {0, edits + 1} : local' = Cell(v, local.ver + 1) /\ want' = v
    BY DEF Edit
  <1>2. /\ device /\ edits < MaxEdits /\ Cardinality(rows) < MaxRows
        /\ rows' = rows \cup {Row(rows, local.ver)}
        /\ IF instant.pc = "idle" THEN instant' = Push(local', rows') /\ again' = again
                                  ELSE again' = TRUE /\ instant' = instant
        /\ edits' = edits + 1 /\ raced' = FALSE
        /\ pull' = [pull EXCEPT !.late = pull.pc = "merging"]
        /\ UNCHANGED <<acting, owned, cloud, gone, events, device, drain, manual, strays,
                       recon, tracked, left>>
    BY DEF Edit, Queued, fixed, server
  <1>3. v \in 0..MaxEdits /\ edits' \in 0..MaxEdits
    BY <1>2 DEF TypeOK
  <1>4. local.ver \in Nat /\ local'.val = v /\ local'.ver = local.ver + 1 /\ local' \in CellType
    <2>1. local.ver \in Nat
      BY DEF TypeOK, CellType
    <2> QED BY <1>1, <1>3, <2>1, CellTyped
  <1>5. IsFiniteSet(rows)
    BY RowsFinite DEF TypeOK, RowsOK
  <1>6. Cardinality(rows) <= MaxRows
    BY <1>2, <1>5, FS_CardinalityType
  <1>7. /\ Row(rows, local.ver) \in RowType
        /\ \A r \in rows : r.id # Row(rows, local.ver).id
    BY <1>4, <1>6, FreshRow
  <1>8. RowsOK'
    BY <1>2, <1>4, <1>7, RowsAdded DEF TypeOK
  <1>9. PushesOK'
    <2>1. rows' \subseteq RowType
      BY <1>8 DEF RowsOK
    <2>2. Push(local', rows') \in PushType /\ Push(local', rows').pc = "sent"
      BY <1>4, <2>1, PushTyped
    <2>3. CASE instant.pc = "idle"
      BY <1>2, <2>2, <2>3 DEF TypeOK, PushesOK
    <2>4. CASE instant.pc # "idle"
      BY <1>2, <2>4 DEF TypeOK, PushesOK
    <2> QED BY <2>3, <2>4
  <1>10. pull' \in PullType /\ pull'.pc = pull.pc /\ (pull'.pc = "merging" => pull'.late)
    BY <1>2 DEF TypeOK, PullType
  <1>11. raced' \in BOOLEAN
    BY <1>2
  <1>12. TypeOK'
    BY <1>1, <1>2, <1>3, <1>4, <1>8, <1>9, <1>10, <1>11 DEF TypeOK
  <1>13. KeptUnlessRaced' /\ MergeKnows'
    BY <1>2, <1>10 DEF KeptUnlessRaced, MergeKnows
  <1>14. Held'
    BY <1>1, <1>2, <1>4 DEF Held
  <1> QED BY <1>12, <1>13, <1>14

\* Steps that change the queue and the pushes, or the record of a race, and nothing
\* that the merge or the table rests on.
LEMMA QueueInv ==
  ASSUME IInv, RowsOK', PushesOK', tracked' \in BOOLEAN, left' \in [budget : 0..Budget, asks : 0..Asks],
         UNCHANGED <<acting, owned, cloud, gone, events, local, device, pull, recon, edits>>,
         \/ want' = want /\ raced' \in BOOLEAN /\ (raced => raced')
              /\ (rows' = {} => rows = {} \/ want = None \/ raced')
         \/ want' = None /\ raced' = FALSE
  PROVE  IInv'
  <1> USE DEF IInv
  <1>1. want' \in {None} \cup 0..MaxEdits /\ raced' \in BOOLEAN
    BY DEF TypeOK
  <1>2. TypeOK'
    BY <1>1 DEF TypeOK
  <1>3. KeptUnlessRaced'
    BY DEF KeptUnlessRaced
  <1>4. Held'
    BY DEF Held
  <1>5. MergeKnows'
    BY DEF MergeKnows
  <1> QED BY <1>2, <1>3, <1>4, <1>5

LEMMA RowChanges ==
  ASSUME NEW r \in RowType, NEW n \in Nat
  PROVE  /\ [r EXCEPT !.base = n, !.strikes = @ + 1] \in RowType
         /\ [r EXCEPT !.strikes = @ + 1] \in RowType
         /\ [r EXCEPT !.parked = TRUE] \in RowType
         /\ [r EXCEPT !.parked = TRUE, !.orphan = TRUE, !.strikes = 0] \in RowType
         /\ [r EXCEPT !.parked = FALSE, !.strikes = 0, !.orphan = FALSE] \in RowType
         /\ [r EXCEPT !.orphan = FALSE, !.parked = FALSE, !.strikes = 0] \in RowType
         /\ [r EXCEPT !.parked = FALSE, !.strikes = 0] \in RowType
         /\ [r EXCEPT !.base = n, !.strikes = @ + 1].id = r.id
         /\ [r EXCEPT !.strikes = @ + 1].id = r.id
         /\ [r EXCEPT !.parked = TRUE].id = r.id
         /\ [r EXCEPT !.parked = TRUE, !.orphan = TRUE, !.strikes = 0].id = r.id
         /\ [r EXCEPT !.parked = FALSE, !.strikes = 0, !.orphan = FALSE].id = r.id
         /\ [r EXCEPT !.orphan = FALSE, !.parked = FALSE, !.strikes = 0].id = r.id
         /\ [r EXCEPT !.parked = FALSE, !.strikes = 0].id = r.id
  <1>1. r.strikes + 1 \in Nat /\ 0 \in Nat /\ TRUE \in BOOLEAN /\ FALSE \in BOOLEAN
    BY DEF RowType
  <1>2. [r EXCEPT !.base = n, !.strikes = @ + 1] \in RowType
        /\ [r EXCEPT !.base = n, !.strikes = @ + 1].id = r.id
    BY <1>1 DEF RowType
  <1>3. [r EXCEPT !.strikes = @ + 1] \in RowType /\ [r EXCEPT !.strikes = @ + 1].id = r.id
    BY <1>1 DEF RowType
  <1>4. [r EXCEPT !.parked = TRUE] \in RowType /\ [r EXCEPT !.parked = TRUE].id = r.id
    BY <1>1 DEF RowType
  <1>5. [r EXCEPT !.parked = TRUE, !.orphan = TRUE, !.strikes = 0] \in RowType
        /\ [r EXCEPT !.parked = TRUE, !.orphan = TRUE, !.strikes = 0].id = r.id
    BY <1>1 DEF RowType
  <1>6. [r EXCEPT !.parked = FALSE, !.strikes = 0, !.orphan = FALSE] \in RowType
        /\ [r EXCEPT !.parked = FALSE, !.strikes = 0, !.orphan = FALSE].id = r.id
    BY <1>1 DEF RowType
  <1>7. [r EXCEPT !.orphan = FALSE, !.parked = FALSE, !.strikes = 0] \in RowType
        /\ [r EXCEPT !.orphan = FALSE, !.parked = FALSE, !.strikes = 0].id = r.id
    BY <1>1 DEF RowType
  <1>8. [r EXCEPT !.parked = FALSE, !.strikes = 0] \in RowType
        /\ [r EXCEPT !.parked = FALSE, !.strikes = 0].id = r.id
    BY <1>1 DEF RowType
  <1> QED BY <1>2, <1>3, <1>4, <1>5, <1>6, <1>7, <1>8

\* What holds of the queue's place: a row's cell exists, and stays.
LEMMA RowsPlace == ASSUME TypeOK, UNCHANGED <<local, device>>
                   PROVE  RowsOK /\ (rows # {} => device' /\ local'.ver > 0)
  BY DEF TypeOK, RowsOK

LEMMA InstantAnswerInv == ASSUME IInv, InstantAnswer PROVE IInv'
  <1> USE DEF IInv
  <1>1. /\ instant.pc = "answered"
        /\ rows' = CASE instant.answer = "accepted" -> {}
                     [] instant.answer = "conflict" ->
                          {[r EXCEPT !.base = instant.ver, !.strikes = @ + 1] : r \in rows}
                     [] OTHER -> rows
        /\ tracked' = (tracked \/ instant.answer = "accepted")
        /\ raced' = (raced \/ (instant.answer = "accepted" /\ want # None))
        /\ Ended
        /\ UNCHANGED <<acting, owned, cloud, gone, events, local, device, drain, manual, strays,
                       pull, recon, edits, left, want>>
    BY DEF InstantAnswer, fixed, server
  <1>2. \A r \in rows : r \in RowType
    BY DEF TypeOK, RowsOK
  <1>3. instant.ver \in Nat /\ local \in CellType
    BY DEF TypeOK, PushesOK, PushType
  <1>4. RowsOK'
    <2>1. CASE instant.answer = "accepted"
      BY <1>1, <2>1, RowsPlace, RowsDropped
    <2>2. CASE instant.answer = "conflict"
      <3> DEFINE g == [r \in rows |-> [r EXCEPT !.base = instant.ver, !.strikes = @ + 1]]
      <3>1. g \in [rows -> RowType] /\ \A r \in rows : g[r].id = r.id
        BY <1>2, <1>3, RowChanges
      <3>2. rows' \subseteq {g[r] : r \in rows}
        BY <1>1, <2>2
      <3> HIDE DEF g
      <3> QED BY <1>1, <3>1, <3>2, RowsPlace, RowsMapped
    <2>3. CASE instant.answer \notin {"accepted", "conflict"}
      BY <1>1, <2>3, RowsPlace, RowsDropped
    <2> QED BY <2>1, <2>2, <2>3
  <1>5. PushesOK'
    <2>1. rows' \subseteq RowType
      BY <1>4 DEF RowsOK
    <2>2. Push(local, rows') \in PushType /\ Push(local, rows').pc = "sent"
      BY <1>3, <2>1, PushTyped
    <2>3. instant' \in PushType /\ again' \in BOOLEAN /\ (again' => instant'.pc # "idle")
      BY <1>1, <2>2, Nones DEF Ended, TypeOK, PushesOK
    <2> QED BY <1>1, <2>3 DEF TypeOK, PushesOK
  <1>6. tracked' \in BOOLEAN /\ raced' \in BOOLEAN
    BY <1>1, Zenon
  <1>7. left' \in [budget : 0..Budget, asks : 0..Asks]
    BY <1>1 DEF TypeOK
  <1>8. rows' = {} => rows = {} \/ instant.answer = "accepted"
    BY <1>1
  <1>9. raced => raced'
    BY <1>1
  <1>10. rows' = {} => rows = {} \/ want = None \/ raced'
    BY <1>1, <1>8
  <1> QED BY <1>1, <1>4, <1>5, <1>6, <1>7, <1>9, <1>10, QueueInv

\* The drain parks rows at the cap and keeps one of the others: some row stays.
LEMMA DrainSendInv == ASSUME IInv, DrainSend PROVE IInv'
  <1> USE DEF IInv
  <1> DEFINE live == {r \in Active : r.strikes < Cap}
             parked == {[r EXCEPT !.parked = TRUE] : r \in Active \ live}
             kept == {r \in rows : r.parked} \cup parked
  <1>1. /\ Active # {}
        /\ UNCHANGED <<acting, owned, cloud, gone, events, local, device, instant, again, manual,
                       strays, pull, recon, tracked, edits, left, want, raced>>
    BY DEF DrainSend, fixed, server
  <1>2. \/ live = {} /\ rows' = kept /\ drain' = drain
        \/ \E p \in Lowest(live) : rows' = kept \cup {p} /\ drain' = PushOf(p)
    BY DEF DrainSend
  <1>3. \A r \in rows : r \in RowType
    BY DEF TypeOK, RowsOK
  <1>4. RowsOK'
    <2> DEFINE g == [r \in rows |-> IF r \in Active \ live THEN [r EXCEPT !.parked = TRUE] ELSE r]
    <2>1. g \in [rows -> RowType] /\ \A r \in rows : g[r].id = r.id
      BY <1>3, RowChanges
    <2>2. \A r \in rows : r.parked => g[r] = r
      BY DEF Active
    <2>3. \A r \in live : r \in rows /\ g[r] = r
      BY DEF Active
    <2>4. \A r \in Active \ live : r \in rows /\ g[r] = [r EXCEPT !.parked = TRUE]
      BY DEF Active
    <2>5. kept \subseteq {g[r] : r \in rows}
      BY <2>2, <2>4
    <2>6. Lowest(live) \subseteq live
      BY DEF Lowest
    <2> HIDE DEF g, live, kept
    <2>7. rows' \subseteq {g[r] : r \in rows}
      BY <1>2, <2>3, <2>5, <2>6
    <2> QED BY <1>1, <2>1, <2>7, RowsPlace, RowsMapped
  <1>5. PushesOK'
    <2>1. Lowest(live) \subseteq RowType
      BY <1>3 DEF Lowest, Active
    <2> HIDE DEF live, kept
    <2>2. drain' = drain \/ drain' \in PushType
      BY <1>2, <2>1, PushOfTyped
    <2> QED BY <1>1, <2>2 DEF TypeOK, PushesOK
  <1>6. rows' # {}
    <2>1. live = {} => parked # {}
      BY <1>1
    <2> QED BY <1>2, <2>1
  <1>7. left' \in [budget : 0..Budget, asks : 0..Asks] /\ raced' \in BOOLEAN
        /\ tracked' \in BOOLEAN
    BY <1>1 DEF TypeOK
  <1> HIDE DEF live, kept, parked
  <1> QED BY <1>1, <1>4, <1>5, <1>6, <1>7, QueueInv

LEMMA DrainAnswerInv == ASSUME IInv, DrainAnswer PROVE IInv'
  <1> USE DEF IInv
  <1>1. /\ rows' = IF drain.answer = "accepted" THEN {r \in rows : r.parked}
                                                ELSE {Verdict(r) : r \in rows}
        /\ raced' = (raced \/ (drain.answer = "accepted" /\ want # None))
        /\ drain' = NoPush
        /\ UNCHANGED <<acting, owned, cloud, gone, events, local, device, instant, again, manual,
                       strays, pull, recon, tracked, edits, left, want>>
    BY DEF DrainAnswer, fixed, server
  <1>2. \A r \in rows : r \in RowType
    BY DEF TypeOK, RowsOK
  <1>3. drain.ver \in Nat
    BY DEF TypeOK, PushesOK, PushType
  <1>4. RowsOK'
    <2>1. CASE drain.answer = "accepted"
      <3>1. rows' \subseteq rows
        BY <1>1, <2>1
      <3> QED BY <1>1, <3>1, RowsPlace, RowsDropped
    <2>2. CASE drain.answer # "accepted"
      <3> DEFINE g == [r \in rows |-> Verdict(r)]
      <3>1. \A r \in rows : Verdict(r) \in RowType /\ Verdict(r).id = r.id
        BY <1>2, <1>3, RowChanges DEF Verdict
      <3>2. g \in [rows -> RowType] /\ \A r \in rows : g[r].id = r.id
        BY <3>1
      <3>3. rows' \subseteq {g[r] : r \in rows}
        BY <1>1, <2>2
      <3> HIDE DEF g
      <3> QED BY <1>1, <3>2, <3>3, RowsPlace, RowsMapped
    <2> QED BY <2>1, <2>2
  <1>5. PushesOK'
    BY <1>1, Nones DEF TypeOK, PushesOK
  <1>6. raced' \in BOOLEAN
    BY <1>1, Zenon
  <1>7. left' \in [budget : 0..Budget, asks : 0..Asks] /\ tracked' \in BOOLEAN
    BY <1>1 DEF TypeOK
  <1>8. rows' = {} => rows = {} \/ drain.answer = "accepted"
    BY <1>1
  <1>9. raced => raced'
    BY <1>1
  <1>10. rows' = {} => rows = {} \/ want = None \/ raced'
    BY <1>1, <1>8
  <1> QED BY <1>1, <1>4, <1>5, <1>6, <1>7, <1>9, <1>10, QueueInv

LEMMA AskedLeft == ASSUME TypeOK, Asked \/ Misfortune \/ left' = left
                   PROVE  left' \in [budget : 0..Budget, asks : 0..Asks]
  <1>1. left \in [budget : 0..Budget, asks : 0..Asks]
    BY DEF TypeOK
  <1>2. CASE Asked
    <2>1. left.asks - 1 \in 0..Asks /\ left' = [left EXCEPT !.asks = left.asks - 1]
      BY <1>1, <1>2, L2CellsAssumption DEF Asked
    <2> QED BY <1>1, <2>1
  <1>3. CASE Misfortune
    <2>1. left.budget - 1 \in 0..Budget /\ left' = [left EXCEPT !.budget = left.budget - 1]
      BY <1>1, <1>3, L2CellsAssumption DEF Misfortune
    <2> QED BY <1>1, <2>1
  <1> QED BY <1>1, <1>2, <1>3

LEMMA ManualSendInv == ASSUME IInv, ManualSend PROVE IInv'
  <1> USE DEF IInv
  <1>1. /\ Asked
        /\ UNCHANGED <<acting, owned, cloud, gone, events, local, device, instant, again, drain,
                       strays, pull, recon, tracked, edits, want, raced>>
    BY DEF ManualSend, fixed, server
  <1>2. PICK p \in Lowest(Active) : rows' = {r \in rows : r.parked} \cup {p} /\ manual' = PushOf(p)
    BY DEF ManualSend
  <1>3. p \in rows /\ p \in RowType /\ rows' \subseteq rows /\ rows' # {}
    BY <1>2 DEF Lowest, Active, TypeOK, RowsOK
  <1>4. RowsOK'
    BY <1>1, <1>3, RowsPlace, RowsDropped
  <1>5. PushesOK'
    BY <1>1, <1>2, <1>3, PushOfTyped DEF TypeOK, PushesOK
  <1>6. left' \in [budget : 0..Budget, asks : 0..Asks]
    BY <1>1, AskedLeft
  <1>7. raced' \in BOOLEAN /\ tracked' \in BOOLEAN
    BY <1>1 DEF TypeOK
  <1> QED BY <1>1, <1>3, <1>4, <1>5, <1>6, <1>7, QueueInv

LEMMA ManualAnswerInv == ASSUME IInv, ManualAnswer PROVE IInv'
  <1> USE DEF IInv
  <1>1. /\ tracked' = (tracked \/ manual.answer = "accepted")
        /\ raced' = (raced \/ (manual.answer = "accepted" /\ want # None))
        /\ manual' = NoPush
        /\ UNCHANGED <<acting, owned, cloud, gone, events, local, device, instant, again, drain,
                       strays, pull, recon, edits, left, want>>
    BY DEF ManualAnswer, fixed, server
  <1>2. /\ \A r \in rows : r \in RowType
        /\ manual.ver \in Nat
    BY DEF TypeOK, RowsOK, PushesOK, PushType
  <1>3. RowsOK' /\ (rows' = {} => rows = {} \/ manual.answer = "accepted")
    <2>1. CASE manual.answer = "accepted"
      <3>1. rows' = {}
        BY <2>1 DEF ManualAnswer
      <3> QED BY <1>1, <2>1, <3>1, RowsPlace, RowsDropped
    <2>2. CASE manual.answer # "accepted"
      <3>1. PICK f \in [rows -> UNION {ManualVerdict(r) : r \in rows}] :
              (\A r \in rows : f[r] \in ManualVerdict(r)) /\ rows' = {f[r] : r \in rows}
        BY <2>2 DEF ManualAnswer
      <3>2. ASSUME NEW r \in rows, NEW v \in ManualVerdict(r) PROVE v \in RowType /\ v.id = r.id
        <4>1. r \in RowType
          BY <1>2
        <4>2. v \in {r, [r EXCEPT !.strikes = @ + 1], [r EXCEPT !.base = manual.ver, !.strikes = @ + 1]}
          BY DEF ManualVerdict
        <4> DEFINE q1 == [r EXCEPT !.strikes = @ + 1]
                   q2 == [r EXCEPT !.base = manual.ver, !.strikes = @ + 1]
        <4>3. /\ q1 \in RowType /\ q1.id = r.id
              /\ q2 \in RowType /\ q2.id = r.id
          BY <1>2, <4>1, RowChanges
        <4>4. v \in {r, q1, q2}
          BY <4>2
        <4> HIDE DEF q1, q2
        <4> QED BY <4>1, <4>3, <4>4
      <3>3. f \in [rows -> RowType] /\ \A r \in rows : f[r].id = r.id
        <4> DEFINE all == UNION {ManualVerdict(r) : r \in rows}
        <4>1. f \in [rows -> all] /\ \A r \in rows : f[r] \in RowType /\ f[r].id = r.id
          BY <3>1, <3>2
        <4> HIDE DEF all
        <4> QED BY <4>1
      <3>4. RowsOK'
        BY <1>1, <3>1, <3>3, RowsPlace, RowsMapped
      <3> QED BY <3>1, <3>4
    <2> QED BY <2>1, <2>2
  <1>4. PushesOK'
    BY <1>1, Nones DEF TypeOK, PushesOK
  <1>5. tracked' \in BOOLEAN /\ raced' \in BOOLEAN
    BY <1>1, Zenon
  <1>6. left' \in [budget : 0..Budget, asks : 0..Asks]
    BY <1>1 DEF TypeOK
  <1>7. raced => raced'
    BY <1>1
  <1>8. rows' = {} => rows = {} \/ want = None \/ raced'
    BY <1>1, <1>3
  <1> QED BY <1>1, <1>3, <1>4, <1>5, <1>6, <1>7, <1>8, QueueInv

LEMMA ReleaseInv == ASSUME IInv, NEW r \in rows, Retry(r) \/ Unpark(r) PROVE IInv'
  <1> USE DEF IInv
  <1>1. PICK q : /\ q \in {[r EXCEPT !.parked = FALSE, !.strikes = 0, !.orphan = FALSE],
                           [r EXCEPT !.parked = FALSE, !.strikes = 0]}
                 /\ Asked /\ rows' = (rows \ {r}) \cup {q}
                 /\ UNCHANGED <<fixed, server, local, device, pushes, pull, recon, tracked, edits,
                                want, raced>>
    BY DEF Retry, Unpark, Release
  <1>2. \A s \in rows : s \in RowType
    BY DEF TypeOK, RowsOK
  <1>3. q \in RowType /\ q.id = r.id
    BY <1>1, <1>2, RowChanges
  <1>4. RowsOK'
    <2> DEFINE g == [s \in rows |-> IF s = r THEN q ELSE s]
    <2>1. g \in [rows -> RowType] /\ \A s \in rows : g[s].id = s.id
      BY <1>2, <1>3
    <2>2. rows' \subseteq {g[s] : s \in rows}
      BY <1>1
    <2> HIDE DEF g
    <2> QED BY <1>1, <2>1, <2>2, RowsPlace, RowsMapped
  <1>5. PushesOK'
    BY <1>1 DEF TypeOK, PushesOK, pushes
  <1>6. left' \in [budget : 0..Budget, asks : 0..Asks]
    BY <1>1, AskedLeft
  <1>7. raced' \in BOOLEAN /\ tracked' \in BOOLEAN /\ rows' # {}
    BY <1>1 DEF TypeOK
  <1>8. UNCHANGED <<acting, owned, cloud, gone, events, local, device, pull, recon, edits, want,
                    raced>>
    BY <1>1 DEF fixed, server
  <1> QED BY <1>4, <1>5, <1>6, <1>7, <1>8, QueueInv

LEMMA DiscardInv == ASSUME IInv, NEW r \in rows, Discard(r) PROVE IInv'
  <1> USE DEF IInv
  <1>1. /\ Asked /\ rows' = rows \ {r}
        /\ IF rows' = {} THEN want' = None /\ raced' = FALSE ELSE want' = want /\ raced' = raced
        /\ UNCHANGED <<acting, owned, cloud, gone, events, local, device, instant, again, drain,
                       manual, strays, pull, recon, tracked, edits>>
    BY DEF Discard, fixed, server, pushes
  <1>2. RowsOK'
    BY <1>1, RowsPlace, RowsDropped
  <1>3. PushesOK'
    BY <1>1 DEF TypeOK, PushesOK
  <1>4. left' \in [budget : 0..Budget, asks : 0..Asks]
    BY <1>1, AskedLeft
  <1>5. tracked' \in BOOLEAN /\ raced \in BOOLEAN
    BY <1>1 DEF TypeOK
  <1> QED BY <1>1, <1>2, <1>3, <1>4, <1>5, QueueInv

-----------------------------------------------------------------------------
(* The cloud *)

LEMMA EventsGrow ==
  ASSUME TypeOK, Held, NEW c \in CellType, c.ver > 0, events' \in {events, Emit(c)}
  PROVE  events' \in Seq(CellType) /\ \A i \in 1..Len(events') : events'[i].ver > 0
  <1>1. events \in Seq(CellType) /\ \A i \in 1..Len(events) : events[i].ver > 0
    BY DEF TypeOK, Held
  <1>2. events' = events \/ events' = Append(events, c)
    BY DEF Emit
  <1>3. CASE events' = events
    BY <1>1, <1>3
  <1>4. CASE events' = Append(events, c)
    <2>1. /\ events' \in Seq(CellType) /\ Len(events') = Len(events) + 1
          /\ \A i \in 1..Len(events) : events'[i] = events[i]
          /\ events'[Len(events) + 1] = c
      BY <1>1, <1>4
    <2>2. Len(events) \in Nat
      BY <1>1
    <2>3. ASSUME NEW i \in 1..Len(events') PROVE events'[i].ver > 0
      BY <1>1, <2>1, <2>2
    <2> QED BY <2>1, <2>3
  <1> QED BY <1>2, <1>3, <1>4

LEMMA EventsShrink ==
  ASSUME TypeOK, Held, events # <<>>, events' = Tail(events)
  PROVE  /\ events' \in Seq(CellType) /\ \A i \in 1..Len(events') : events'[i].ver > 0
         /\ events' # events
         /\ Head(events) \in CellType /\ Head(events).ver > 0
  <1>1. /\ events \in Seq(CellType) /\ \A i \in 1..Len(events) : events[i].ver > 0
        /\ Len(events) \in Nat \ {0}
    BY DEF TypeOK, Held
  <1>2. /\ events' \in Seq(CellType) /\ Len(events') = Len(events) - 1
        /\ \A i \in 1..Len(events') : events'[i] = events[i + 1]
    BY <1>1
  <1>3. Head(events) = events[1]
    BY <1>1
  <1>4. Head(events) \in CellType /\ Head(events).ver > 0
    BY <1>1, <1>3
  <1>5. events' # events
    <2>1. events[1] \in CellType /\ Len(events) - 1 # Len(events)
      BY <1>1
    <2> SUFFICES ASSUME events' = events PROVE FALSE
      OBVIOUS
    <2>2. Len(events') = Len(events)
      BY Zenon
    <2> QED BY <1>2, <2>1, <2>2, Zenon
  <1>6. ASSUME NEW i \in 1..Len(events') PROVE events'[i].ver > 0
    <2>1. i + 1 \in 1..Len(events)
      BY <1>1, <1>2
    <2> QED BY <1>1, <1>2, <2>1
  <1> QED BY <1>2, <1>4, <1>5, <1>6

\* Steps of the cloud: what it holds and sends changes, and an edit may have arrived.
LEMMA CloudInv ==
  ASSUME IInv, PushesOK', cloud' \in CellType, gone' \in BOOLEAN, edits' \in 0..MaxEdits,
         events' \in Seq(CellType), \A i \in 1..Len(events') : events'[i].ver > 0,
         left' = left \/ Misfortune,
         UNCHANGED <<acting, owned, local, device, rows, pull, recon, tracked>>,
         UNCHANGED <<want, raced>> \/ (want' = None /\ raced' = FALSE)
  PROVE  IInv'
  <1> USE DEF IInv
  <1>1. RowsOK'
    BY DEF TypeOK, RowsOK
  <1>2. left' \in [budget : 0..Budget, asks : 0..Asks]
    BY AskedLeft
  <1>3. want' \in {None} \cup 0..MaxEdits /\ raced' \in BOOLEAN
    BY DEF TypeOK
  <1>4. TypeOK'
    BY <1>1, <1>2, <1>3 DEF TypeOK
  <1>5. KeptUnlessRaced'
    BY DEF KeptUnlessRaced
  <1>6. Held'
    BY DEF Held
  <1>7. MergeKnows'
    BY DEF MergeKnows
  <1> QED BY <1>4, <1>5, <1>6, <1>7

LEMMA ReceiveInv ==
  ASSUME IInv, NEW p \in PushType, Receive(p), PushesOK', UNCHANGED left
  PROVE  IInv'
  <1> USE DEF IInv
  <1>1. /\ IF Takes(p) /\ p.val # cloud.val
           THEN cloud' = Cell(p.val, cloud.ver + 1) /\ events' = Emit(cloud')
           ELSE UNCHANGED <<cloud, events>>
        /\ UNCHANGED <<want, raced>> \/ (want' = None /\ raced' = FALSE)
        /\ UNCHANGED <<acting, owned, gone, local, device, rows, pull, recon, tracked, edits>>
    BY DEF Receive, fixed
  <1>2. cloud \in CellType /\ cloud.ver \in Nat /\ p.val \in 0..MaxEdits
    BY DEF TypeOK, CellType, PushType
  <1>3. /\ cloud' \in CellType /\ events' \in Seq(CellType)
        /\ \A i \in 1..Len(events') : events'[i].ver > 0
    <2>1. CASE Takes(p) /\ p.val # cloud.val
      <3>1. cloud' \in CellType /\ cloud'.ver > 0 /\ events' = Emit(cloud')
        BY <1>1, <1>2, <2>1, CellTyped
      <3> QED BY <3>1, EventsGrow
    <2>2. CASE ~(Takes(p) /\ p.val # cloud.val)
      BY <1>1, <1>2, <2>2 DEF TypeOK, Held
    <2> QED BY <2>1, <2>2
  <1>4. gone' \in BOOLEAN /\ edits' \in 0..MaxEdits
    BY <1>1 DEF TypeOK
  <1> QED BY <1>1, <1>3, <1>4, CloudInv

LEMMA AnsweredTyped == ASSUME TypeOK, NEW p \in PushType PROVE Answered(p) \in PushType
  <1> DEFINE a == IF gone THEN "gone" ELSE IF Takes(p) THEN "accepted" ELSE "conflict"
  <1>1. a \in {"accepted", "conflict", "gone"} /\ cloud.ver \in Nat
    BY DEF TypeOK, CellType
  <1>2. Answered(p) = [p EXCEPT !.pc = "answered", !.ver = cloud.ver, !.answer = a]
    BY DEF Answered
  <1> HIDE DEF a
  <1> QED BY <1>1, <1>2 DEF PushType

LEMMA ReceivesInv ==
  ASSUME IInv, ReceiveInstant \/ ReceiveDrain \/ ReceiveManual \/ ReceiveStray
  PROVE  IInv'
  <1> USE DEF IInv
  <1>1. \A p \in {instant, drain, manual} \cup strays : p \in PushType /\ Answered(p) \in PushType
    BY AnsweredTyped DEF TypeOK, PushesOK
  <1>2. \A p \in PushType : Answered(p).pc = "answered"
    BY DEF Answered, PushType
  <1>3. CASE ReceiveInstant
    BY <1>1, <1>2, <1>3, ReceiveInv DEF ReceiveInstant, TypeOK, PushesOK
  <1>4. CASE ReceiveDrain
    BY <1>1, <1>4, ReceiveInv DEF ReceiveDrain, TypeOK, PushesOK
  <1>5. CASE ReceiveManual
    BY <1>1, <1>5, ReceiveInv DEF ReceiveManual, TypeOK, PushesOK
  <1>6. CASE ReceiveStray
    <2>1. PICK p \in strays : /\ Receive(p) /\ strays' = strays \ {p}
                              /\ UNCHANGED <<instant, again, drain, manual, left>>
      BY <1>6 DEF ReceiveStray
    <2>2. PushesOK'
      BY <2>1 DEF TypeOK, PushesOK
    <2> QED BY <1>1, <2>1, <2>2, ReceiveInv
  <1> QED BY <1>3, <1>4, <1>5, <1>6

\* A call that fails ends with an answer of its own, and may become a stray.
LEMMA FailedTyped ==
  ASSUME NEW p \in PushType, NEW q, FailedCalls(p, q), strays \subseteq PushType
  PROVE  q \in PushType /\ q.pc = "answered" /\ strays' \subseteq PushType /\ Misfortune
  <1>1. PICK a \in {"refused", "down"} : q = [p EXCEPT !.pc = "answered", !.answer = a]
    BY DEF FailedCalls
  <1>2. strays' \subseteq strays \cup {p} /\ Misfortune
    BY DEF FailedCalls
  <1>3. q \in PushType /\ q.pc = "answered"
    BY <1>1 DEF PushType
  <1> QED BY <1>2, <1>3

LEMMA FailsInv == ASSUME IInv, InstantFails \/ DrainFails \/ ManualFails PROVE IInv'
  <1> USE DEF IInv
  <1>1. /\ instant \in PushType /\ drain \in PushType /\ manual \in PushType
        /\ strays \subseteq PushType /\ again \in BOOLEAN /\ (again => instant.pc # "idle")
    BY Calls DEF TypeOK
  <1>2. UNCHANGED <<acting, owned, cloud, gone, events, local, device, rows, pull, recon, tracked,
                    edits, want, raced>>
    BY DEF InstantFails, DrainFails, ManualFails, fixed, server
  <1>3. PushesOK' /\ Misfortune
    <2>1. CASE InstantFails
      <3>1. FailedCalls(instant, instant') /\ UNCHANGED <<again, drain, manual>>
        BY <2>1 DEF InstantFails
      <3>2. instant' \in PushType /\ instant'.pc = "answered" /\ strays' \subseteq PushType
            /\ Misfortune
        BY <1>1, <3>1, FailedTyped
      <3> QED BY <1>1, <3>1, <3>2 DEF PushesOK
    <2>2. CASE DrainFails
      <3>1. FailedCalls(drain, drain') /\ UNCHANGED <<instant, again, manual>>
        BY <2>2 DEF DrainFails
      <3>2. drain' \in PushType /\ strays' \subseteq PushType /\ Misfortune
        BY <1>1, <3>1, FailedTyped
      <3> QED BY <1>1, <3>1, <3>2 DEF PushesOK
    <2>3. CASE ManualFails
      <3>1. FailedCalls(manual, manual') /\ UNCHANGED <<instant, again, drain>>
        BY <2>3 DEF ManualFails
      <3>2. manual' \in PushType /\ strays' \subseteq PushType /\ Misfortune
        BY <1>1, <3>1, FailedTyped
      <3> QED BY <1>1, <3>1, <3>2 DEF PushesOK
    <2> QED BY <2>1, <2>2, <2>3
  <1>4. /\ cloud' \in CellType /\ gone' \in BOOLEAN /\ edits' \in 0..MaxEdits
        /\ events' \in Seq(CellType) /\ \A i \in 1..Len(events') : events'[i].ver > 0
    BY <1>2 DEF TypeOK, Held
  <1> QED BY <1>2, <1>3, <1>4, CloudInv

LEMMA CloudEditInv == ASSUME IInv, CloudEdit PROVE IInv'
  <1> USE DEF IInv
  <1>1. PICK v \in {0, edits + 1} : cloud' = Cell(v, cloud.ver + 1)
    BY DEF CloudEdit
  <1>2. /\ edits < MaxEdits /\ edits' = edits + 1 /\ events' = Emit(cloud')
        /\ UNCHANGED <<acting, owned, gone, local, device, rows, instant, again, drain, manual,
                       strays, pull, recon, tracked, left, want, raced>>
    BY DEF CloudEdit, fixed, pushes
  <1>3. cloud.ver \in Nat /\ v \in 0..MaxEdits /\ edits' \in 0..MaxEdits
    BY <1>2, L2CellsAssumption DEF TypeOK, CellType
  <1>4. cloud' \in CellType /\ cloud'.ver > 0
    BY <1>1, <1>3, CellTyped
  <1>5. events' \in Seq(CellType) /\ \A i \in 1..Len(events') : events'[i].ver > 0
    BY <1>2, <1>4, EventsGrow
  <1>6. PushesOK' /\ gone' \in BOOLEAN
    BY <1>2 DEF TypeOK, PushesOK
  <1> QED BY <1>2, <1>3, <1>4, <1>5, <1>6, CloudInv

LEMMA RemovalInv == ASSUME IInv, RemoveDevice \/ RestoreDevice \/ LoseEvent PROVE IInv'
  <1> USE DEF IInv
  <1>1. /\ UNCHANGED <<acting, owned, cloud, local, device, rows, instant, again, drain, manual,
                       strays, pull, recon, tracked, edits, want, raced>>
        /\ left' = left \/ Misfortune
    BY DEF RemoveDevice, RestoreDevice, LoseEvent, fixed, pushes
  <1>2. gone' \in BOOLEAN
    <2>1. gone' \in {TRUE, FALSE, gone} /\ gone \in BOOLEAN
      BY DEF RemoveDevice, RestoreDevice, LoseEvent, TypeOK
    <2> QED BY <2>1
  <1>3. events' \in Seq(CellType) /\ \A i \in 1..Len(events') : events'[i].ver > 0
    <2>1. CASE events' = events
      BY <2>1 DEF TypeOK, Held
    <2>2. CASE LoseEvent
      BY <2>2, EventsShrink DEF LoseEvent
    <2> QED BY <2>1, <2>2 DEF RemoveDevice, RestoreDevice
  <1>4. PushesOK' /\ cloud' \in CellType /\ edits' \in 0..MaxEdits
    BY <1>1 DEF TypeOK, PushesOK
  <1> QED BY <1>1, <1>2, <1>3, <1>4, CloudInv

-----------------------------------------------------------------------------
(* What comes down *)

\* A step of the pull before its transaction: MergeKnows is about the reading.
LEMMA PullInv == ASSUME IInv, PullStart \/ PullServed \/ PullRead \/ PullFails PROVE IInv'
  <1> USE DEF IInv
  <1>1. UNCHANGED <<acting, owned, cloud, gone, events, local, device, rows, instant, again, drain,
                    manual, strays, recon, tracked, edits, left, want, raced>>
    BY DEF PullStart, PullServed, PullRead, PullFails, fixed, server, pushes
  <1>2. pull \in PullType /\ gone \in BOOLEAN /\ cloud \in CellType
    BY DEF TypeOK
  <1>3. pull' \in PullType /\ (pull'.pc = "merging" => (~pull'.queued => rows = {}))
    <2>1. CASE PullStart \/ PullFails
      BY <2>1, Nones DEF PullStart, PullFails, PullType
    <2>2. CASE PullServed
      BY <2>2, <1>2 DEF PullServed, PullType
    <2>3. CASE PullRead
      <3> DEFINE b == rows # {}
      <3>1. pull' = [pull EXCEPT !.pc = "merging", !.queued = b] /\ b \in BOOLEAN
        BY <2>3 DEF PullRead, Protected
      <3>2. ~b => rows = {}
        OBVIOUS
      <3> HIDE DEF b
      <3>3. pull' \in PullType /\ pull'.queued = b
        BY <1>2, <3>1 DEF PullType
      <3> QED BY <3>2, <3>3
    <2> QED BY <2>1, <2>2, <2>3
  <1>4. RowsOK' /\ PushesOK'
    BY <1>1 DEF TypeOK, RowsOK, PushesOK
  <1>5. TypeOK'
    BY <1>1, <1>3, <1>4 DEF TypeOK
  <1>6. KeptUnlessRaced'
    BY <1>1 DEF KeptUnlessRaced
  <1>7. Held'
    BY <1>1 DEF Held
  <1>8. MergeKnows'
    BY <1>1, <1>3 DEF MergeKnows, KeptUnlessRaced
  <1> QED BY <1>5, <1>6, <1>7, <1>8

\* Steps that may replace the cell from below and lose no row.
LEMMA DownInv ==
  ASSUME IInv, NEW c \in CellType, c.val # 0 => c.ver > 0, Keep \/ Write(c),
         RowsOK', PushesOK', rows' = {} => rows = {}, pull' \in {pull, NoPull},
         recon' \subseteq [gone : BOOLEAN, cell : CellType],
         events' \in Seq(CellType), \A i \in 1..Len(events') : events'[i].ver > 0,
         device' \in BOOLEAN, tracked' \in BOOLEAN, left' = left \/ Misfortune,
         UNCHANGED <<acting, owned, cloud, gone, edits>>
  PROVE  IInv'
  <1> USE DEF IInv
  <1>1. left' \in [budget : 0..Budget, asks : 0..Asks]
    BY AskedLeft
  <1>2. /\ local' \in CellType /\ (local'.val # 0 => local'.ver > 0)
        /\ want' # None => want' = want /\ raced' = raced /\ local'.val = local.val
        /\ want' \in {None, want} /\ raced' \in {FALSE, raced}
    BY DEF Keep, Write, TypeOK, Held
  <1>3. raced' \in BOOLEAN /\ want' \in {None} \cup 0..MaxEdits
    <2>1. raced \in BOOLEAN /\ want \in {None} \cup 0..MaxEdits
      BY DEF TypeOK
    <2> QED BY <1>2, <2>1
  <1>4. pull' \in PullType
    BY Nones DEF TypeOK
  <1>5. TypeOK'
    BY <1>1, <1>2, <1>3, <1>4 DEF TypeOK
  <1>6. KeptUnlessRaced'
    BY <1>2 DEF KeptUnlessRaced
  <1>7. Held'
    BY <1>2 DEF Held
  <1>8. MergeKnows'
    BY <1>2, Nones DEF MergeKnows
  <1> QED BY <1>5, <1>6, <1>7, <1>8

\* The merge writes an existing cell only, so rows keep one.
LEMMA MergeInv == ASSUME IInv, Merge PROVE IInv'
  <1> USE DEF IInv
  <1> DEFINE g == [r \in rows |->
                     IF r.orphan THEN [r EXCEPT !.orphan = FALSE, !.parked = FALSE, !.strikes = 0]
                                 ELSE r]
  <1>1. /\ pull.pc = "merging" /\ pull' = NoPull /\ device' = TRUE
        /\ rows' = {g[r] : r \in rows}
        /\ UNCHANGED <<acting, owned, cloud, gone, events, instant, again, drain, manual, strays,
                       recon, tracked, edits, left>>
    BY DEF Merge, fixed, server, pushes
  <1>2. (Write(pull.cell) /\ pull.cell.ver > 0) \/ Keep
    BY DEF Merge, Lands
  <1>3. pull.cell \in CellType
    BY DEF TypeOK, PullType
  <1>4. local'.ver > 0 \/ local' = local
    BY <1>2 DEF Write, Keep
  <1>5. \A r \in rows : r \in RowType
    BY DEF TypeOK, RowsOK
  <1>6. g \in [rows -> RowType] /\ \A r \in rows : g[r].id = r.id
    BY <1>5, RowChanges
  <1> HIDE DEF g
  <1>7. RowsOK'
    BY <1>1, <1>4, <1>6, RowsMapped DEF TypeOK, RowsOK
  <1>8. PushesOK'
    BY <1>1 DEF TypeOK, PushesOK
  <1>9. rows' = {} => rows = {}
    BY <1>1
  <1>10. /\ recon' \subseteq [gone : BOOLEAN, cell : CellType] /\ events' \in Seq(CellType)
         /\ \A i \in 1..Len(events') : events'[i].ver > 0
         /\ device' \in BOOLEAN /\ tracked' \in BOOLEAN
    BY <1>1 DEF TypeOK, Held
  <1>11. CASE Keep
    <2>1. local \in CellType /\ (local.val # 0 => local.ver > 0)
      BY DEF TypeOK, Held
    <2> QED BY <1>1, <1>7, <1>8, <1>9, <1>10, <1>11, <2>1, DownInv
  <1>12. CASE Write(pull.cell) /\ pull.cell.ver > 0
    BY <1>1, <1>3, <1>7, <1>8, <1>9, <1>10, <1>12, DownInv
  <1> QED BY <1>2, <1>11, <1>12

LEMMA PruneInv == ASSUME IInv, Prune PROVE IInv'
  <1> USE DEF IInv
  <1>1. /\ pull' = NoPull
        /\ UNCHANGED <<acting, owned, cloud, gone, events, rows, instant, again, drain, manual,
                       strays, recon, tracked, edits, left>>
    BY DEF Prune, fixed, server, pushes
  <1>2. \/ rows = {} /\ device' = FALSE /\ Write(Cell(0, 0))
        \/ device' = device /\ Keep
    BY DEF Prune
  <1>3. PushesOK'
    BY <1>1 DEF TypeOK, PushesOK
  <1>4. RowsOK'
    BY <1>1, <1>2 DEF TypeOK, RowsOK, Keep
  <1>5. /\ recon' \subseteq [gone : BOOLEAN, cell : CellType] /\ events' \in Seq(CellType)
        /\ \A i \in 1..Len(events') : events'[i].ver > 0
        /\ device' \in BOOLEAN /\ tracked' \in BOOLEAN
    BY <1>1, <1>2 DEF TypeOK, Held
  <1> QED BY <1>1, <1>2, <1>3, <1>4, <1>5, Nones, DownInv

LEMMA EventInv == ASSUME IInv, Event PROVE IInv'
  <1> USE DEF IInv
  <1>1. /\ events # <<>> /\ events' = Tail(events)
        /\ Write(Head(events)) \/ Keep
        /\ UNCHANGED <<acting, owned, cloud, gone, device, rows, instant, again, drain, manual,
                       strays, pull, recon, tracked, edits, left>>
    BY DEF Event, fixed, pushes
  <1>2. /\ events' \in Seq(CellType) /\ \A i \in 1..Len(events') : events'[i].ver > 0
        /\ Head(events) \in CellType /\ Head(events).ver > 0
    BY <1>1, EventsShrink
  <1>3. PushesOK'
    BY <1>1 DEF TypeOK, PushesOK
  <1>4. RowsOK'
    BY <1>1, <1>2 DEF TypeOK, RowsOK, Keep, Write
  <1>5. /\ recon' \subseteq [gone : BOOLEAN, cell : CellType]
        /\ device' \in BOOLEAN /\ tracked' \in BOOLEAN
    BY <1>1 DEF TypeOK
  <1> QED BY <1>1, <1>2, <1>3, <1>4, <1>5, DownInv

\* The reconciler queues a cell that exists, with a fresh row.
LEMMA ReconInv == ASSUME IInv, ReconFetch \/ ReconAct PROVE IInv'
  <1> USE L2CellsAssumption DEF IInv
  <1>1. /\ UNCHANGED <<acting, owned, cloud, gone, events, local, device, instant, again, drain,
                       manual, strays, pull, tracked, edits, left, want, raced>>
    BY DEF ReconFetch, ReconAct, fixed, server, pushes
  <1>2. recon' \subseteq [gone : BOOLEAN, cell : CellType]
    BY DEF ReconFetch, ReconAct, Payload, TypeOK
  <1>3. RowsOK' /\ (rows' = {} => rows = {})
    <2>1. CASE rows' = rows
      BY <1>1, <2>1 DEF TypeOK, RowsOK
    <2>2. CASE rows' # rows
      <3>1. PICK p \in recon : /\ device /\ local.val # 0 /\ rows = {}
                               /\ rows' = {Row({}, IF p.gone THEN 0 ELSE p.cell.ver)}
        BY <2>2 DEF ReconFetch, ReconAct
      <3> DEFINE n == IF p.gone THEN 0 ELSE p.cell.ver
      <3>2. n \in Nat
        BY DEF TypeOK, CellType
      <3>3. Cardinality({}) <= MaxRows
        BY FS_EmptySet
      <3> HIDE DEF n
      <3>4. Row({}, n) \in RowType
        BY <3>2, <3>3, FreshRow
      <3>5. rows' = rows \cup {Row({}, n)} /\ device' /\ local'.ver > 0
        BY <1>1, <3>1 DEF Held, n
      <3>6. RowsOK'
        BY <3>1, <3>4, <3>5, RowsAdded DEF TypeOK
      <3> QED BY <3>5, <3>6
    <2> QED BY <2>1, <2>2
  <1>4. PushesOK'
    BY <1>1 DEF TypeOK, PushesOK
  <1>5. /\ events' \in Seq(CellType) /\ \A i \in 1..Len(events') : events'[i].ver > 0
        /\ device' \in BOOLEAN /\ tracked' \in BOOLEAN
        /\ local \in CellType /\ (local.val # 0 => local.ver > 0) /\ Keep
    BY <1>1 DEF TypeOK, Held, Keep
  <1> QED BY <1>1, <1>2, <1>3, <1>4, <1>5, DownInv

LEMMA ExpireCrashInv == ASSUME IInv, Expire \/ Crash PROVE IInv'
  <1> USE DEF IInv
  <1>1. /\ UNCHANGED <<acting, owned, cloud, gone, events, local, device, rows, edits, want, raced>>
        /\ tracked' = FALSE /\ recon' \subseteq recon /\ pull' \in {pull, NoPull}
        /\ left' = left \/ Misfortune
    BY DEF Expire, Crash, fixed, server
  <1>2. PushesOK'
    <2>1. CASE Expire
      BY <2>1 DEF Expire, TypeOK, PushesOK, pushes
    <2>2. CASE Crash
      <3>1. /\ instant' = NoPush /\ again' = FALSE /\ drain' = NoPush /\ manual' = NoPush
            /\ strays' = strays \cup {p \in {instant, drain, manual} : p.pc = "sent"}
        BY <2>2 DEF Crash
      <3> QED BY <3>1, Nones DEF TypeOK, PushesOK
    <2> QED BY <2>1, <2>2
  <1>3. RowsOK'
    BY <1>1 DEF TypeOK, RowsOK
  <1>4. /\ recon' \subseteq [gone : BOOLEAN, cell : CellType] /\ events' \in Seq(CellType)
        /\ \A i \in 1..Len(events') : events'[i].ver > 0
        /\ device' \in BOOLEAN /\ tracked' \in BOOLEAN
        /\ local \in CellType /\ (local.val # 0 => local.ver > 0) /\ Keep
    BY <1>1 DEF TypeOK, Held, Keep
  <1> QED BY <1>1, <1>2, <1>3, <1>4, DownInv

LEMMA NextInv == IInv /\ [Next]_vars => IInv'
  <1> SUFFICES ASSUME IInv, [Next]_vars PROVE IInv'
    OBVIOUS
  <1>1. CASE Edit \/ InstantAnswer \/ DrainSend \/ DrainAnswer \/ ManualSend \/ ManualAnswer
    BY <1>1, EditInv, InstantAnswerInv, DrainSendInv, DrainAnswerInv, ManualSendInv,
       ManualAnswerInv
  <1>2. ASSUME NEW r \in rows, Retry(r) \/ Unpark(r) \/ Discard(r) PROVE IInv'
    BY <1>2, ReleaseInv, DiscardInv
  <1>3. CASE \/ ReceiveInstant \/ ReceiveDrain \/ ReceiveManual \/ ReceiveStray
             \/ InstantFails \/ DrainFails \/ ManualFails
             \/ CloudEdit \/ RemoveDevice \/ RestoreDevice \/ LoseEvent
    BY <1>3, ReceivesInv, FailsInv, CloudEditInv, RemovalInv
  <1>4. CASE PullStart \/ PullServed \/ PullRead \/ Merge \/ Prune \/ PullFails \/ Event
    BY <1>4, PullInv, MergeInv, PruneInv, EventInv
  <1>5. CASE Expire \/ ReconFetch \/ ReconAct \/ Crash
    BY <1>5, ReconInv, ExpireCrashInv
  <1>6. CASE UNCHANGED vars
    BY <1>6 DEF vars, IInv, TypeOK, RowsOK, PushesOK, KeptUnlessRaced, Held, MergeKnows
  <1> QED BY <1>1, <1>2, <1>3, <1>4, <1>5, <1>6 DEF Next

-----------------------------------------------------------------------------
\* Types: every variable of the cell keeps its type (L2Cells!TypeOK); in particular
\* the ids of the rows stay distinct and within their range.
THEOREM CellTypes == Spec => []TypeOK
  <1>1. IInv => TypeOK
    BY DEF IInv
  <1> QED BY InitInv, NextInv, <1>1, PTL DEF Spec

\* The row of an edit that the cloud has not taken is in L2PendingSyncs until a push
\* of an earlier edit is accepted (the delete by cell of the l2/cell route and of
\* auto-sync.ts).
THEOREM EditsKeepTheirRow == Spec => []KeptUnlessRaced
  <1>1. IInv => KeptUnlessRaced
    BY DEF IInv
  <1> QED BY InitInv, NextInv, <1>1, PTL DEF Spec

\* One step: what replaces the value that the cloud has not taken.
LEMMA StepStands ==
  ASSUME IInv, [Next]_vars, want \notin {None, 0}, local' # local, edits' = edits
  PROVE  pull.late \/ raced \/ (owned /\ events' # events)
  <1> USE DEF IInv
  <1>1. local.val # 0 /\ local.ver > 0
    BY DEF Held
  <1>2. CASE Edit
    BY <1>2 DEF Edit, TypeOK
  <1>3. CASE Merge
    <2>1. pull.pc = "merging" /\ ~Keep
      BY <1>3 DEF Merge, Keep
    <2>2. local.ver = 0 \/ \E later \in BOOLEAN : Lands(pull.cell, later)
      BY <1>3, <2>1, Zenon DEF Merge
    <2>3. ~pull.queued
      BY <1>1, <2>2 DEF Lands, TypeOK, CellType
    <2> QED BY <2>1, <2>3 DEF MergeKnows
  <1>4. CASE Prune
    BY <1>1, <1>4 DEF Prune, Keep
  <1>5. CASE Event
    <2>1. events' # events
      BY <1>5, EventsShrink DEF Event
    <2> QED BY <1>1, <1>5, <2>1 DEF Event, Keep
  <1>6. local' = local \/ Edit \/ Merge \/ Prune \/ Event
    BY DEF Next, vars, InstantAnswer, DrainSend, DrainAnswer, ManualSend, ManualAnswer, Retry,
           Unpark, Discard, Release, Receive, ReceiveInstant, ReceiveDrain, ReceiveManual,
           ReceiveStray, InstantFails, DrainFails, ManualFails, CloudEdit, RemoveDevice,
           RestoreDevice, PullStart, PullServed, PullRead, PullFails, LoseEvent, Expire,
           ReconFetch, ReconAct, Crash
  <1> QED BY <1>2, <1>3, <1>4, <1>5, <1>6

\* A value that the cloud has not taken is replaced from below only by a merge that
\* had read the queue before the edit, by the author of a column the cloud owns, or
\* after its row went with an earlier edit's acceptance.
THEOREM EditsAreNotOverwritten == Spec => EditsStand
  <1>1. IInv /\ [Next]_vars
          => [(want \notin {None, 0} /\ local' # local /\ edits' = edits)
                => \/ pull.late \/ raced
                   \/ owned /\ events' # events]_vars
    BY StepStands
  <1> QED BY InitInv, NextInv, <1>1, PTL DEF Spec, EditsStand
=============================================================================
