--------------------------- MODULE FullPull_proofs ---------------------------
(***************************************************************************)
(* The guards of the destructive pulls, for every set of overlapping calls, *)
(* any number of edits and of misfortunes.                                 *)
(*                                                                         *)
(* NothingErased is an argument about one edit, the tablet's last: no row   *)
(* older than it, no payload and no state of the cloud is as new (Latest),  *)
(* so while its row is there the transaction of a scoped pull stops, and    *)
(* once its row is missing every pull that may still rewrite the table has  *)
(* looked at it or started after the loss (Guarded).  NoOpIsTruthful needs  *)
(* that a payload waiting to be noted is not newer than what was shown.    *)
(***************************************************************************)
EXTENDS FullPull, TLAPS

Waiting == {"asking", "served", "backup"}

\* A result is blank or the number of its edit, and no time is in the future.
Dated ==
  /\ cloud.val \in {0, cloud.at} /\ local.val \in {0, local.at}
  /\ \A p \in Puller : pulls[p].val \in {0, pulls[p].at}
  /\ \A p \in Puller : pulls[p].at <= edits
  /\ \A r \in rows : r.at <= edits
  /\ cloud.at <= edits /\ local.at <= edits /\ mine <= edits

\* While the tablet's last edit is not on the cloud, nothing else is as new.
Latest ==
  mine # 0 => /\ cloud.at < mine
              /\ \A r \in rows : r.at <= mine
              /\ \A p \in Puller : pulls[p].at < mine

Lost == mine # 0 /\ ~exposed /\ \A r \in rows : r.at # mine

\* What is known of a pull at work while the last edit has no row.
Guarded ==
  Lost => \A p \in Puller :
    /\ pulls[p].pc = "backup" => pulls[p].force \/ (local.val = 0 /\ pulls[p].val = 0)
    /\ local.val = 0 /\ pulls[p].pc \in Waiting => rows = {}
    /\ local.val = 0 /\ pulls[p].pc \in {"served", "backup"} => pulls[p].val = cloud.val

Safe == TypeOK /\ Dated /\ Latest /\ Guarded /\ NothingErased

\* A payload that waits to be noted has been shown, and so has the one noted.
Noted ==
  /\ NoOpIsTruthful
  /\ \A p \in Puller : pulls[p].pc = "storing" => shown >= pulls[p].load \/ crossed

-----------------------------------------------------------------------------
LEMMA InitSafe == Init => Safe /\ Noted
  <1> SUFFICES ASSUME Init PROVE Safe /\ Noted
    OBVIOUS
  <1> USE FullPullAssumption DEF Init
  <1>1. Idle \in CallType /\ Idle.load = 0 /\ Idle.val = 0 /\ Idle.at = 0 /\ Idle.pc = "idle"
    BY DEF Idle, CallType, Time
  <1>5. /\ cloud \in [val : Time, at : Time, ver : Nat] /\ local \in [val : Time, at : Time]
        /\ cloud.ver = 0 /\ hash \in 0..0 /\ shown \in 0..0
    BY DEF Time, Blank
  <1>6. edits \in Time /\ left \in 0..Budget /\ mine \in Time
    BY DEF Time
  <1>7. plc \in BOOLEAN /\ exposed \in BOOLEAN /\ crossed \in BOOLEAN
    BY Zenon
  <1>8. pulls \in [Puller -> CallType] /\ \A p \in Puller : pulls[p].load = 0
    BY <1>1
  <1>2. TypeOK
    BY <1>5, <1>6, <1>7, <1>8 DEF TypeOK
  <1>3. Dated /\ Latest /\ Guarded /\ NothingErased
    BY <1>1 DEF Dated, Latest, Guarded, Lost, NothingErased, Blank
  <1>4. Noted
    BY <1>1 DEF Noted, NoOpIsTruthful
  <1> QED BY <1>2, <1>3, <1>4 DEF Safe

\* What an edit makes of the history: a queued edit has its row, a lost one is
\* exposed to every pull that could still erase it unseen.
LEMMA EditSafe == Safe /\ Edit => Safe'
  <1> SUFFICES ASSUME Safe, Edit PROVE Safe'
    OBVIOUS
  <1> USE FullPullAssumption DEF Safe
  <1> DEFINE new(v) == [at |-> edits + 1, val |-> v, parked |-> FALSE]
  <1>1. PICK v \in {0, edits + 1} :
          /\ v = 0 => local.val # 0
          /\ local' = [val |-> v, at |-> edits + 1]
          /\ \/ /\ rows' = rows \cup {new(v)}
                /\ exposed' = FALSE /\ left' = left
             \/ /\ Misfortune /\ rows' = rows
                /\ exposed' = \E p \in Puller :
                     pulls[p].pc \in IF v = 0 THEN Waiting ELSE {"backup"}
    BY DEF Edit, Waiting
  <1>2. /\ edits < MaxEdits /\ edits' = edits + 1 /\ mine' = edits + 1
        /\ UNCHANGED <<cloud, plc, hash, pulls, shown, crossed>>
    BY DEF Edit
  <1>3. v \in Time /\ edits + 1 \in Time /\ new(v) \in RowType /\ new(v).at = edits + 1
        /\ new(v).val = v
    BY <1>2 DEF TypeOK, Time, RowType
  <1>4. left' \in 0..Budget /\ exposed' \in BOOLEAN
    <2>1. left' \in 0..Budget
      <3>1. left' = left \/ Misfortune
        BY <1>1
      <3> QED BY <3>1 DEF TypeOK, Misfortune
    <2>2. exposed' \in BOOLEAN
      <3> DEFINE seen == \E p \in Puller : pulls[p].pc \in IF v = 0 THEN Waiting ELSE {"backup"}
      <3>1. exposed' = FALSE \/ exposed' = seen
        BY <1>1
      <3>2. seen \in BOOLEAN
        OBVIOUS
      <3> HIDE DEF seen
      <3> QED BY <3>1, <3>2, Zenon
    <2> QED BY <2>1, <2>2
  <1>5. local'.val = v /\ local'.at = edits + 1 /\ local' \in [val : Time, at : Time]
    BY <1>1, <1>3
  <1>6. rows' = rows \cup {new(v)} \/ rows' = rows
    BY <1>1
  <1> HIDE DEF new
  <1>7. TypeOK'
    BY <1>2, <1>3, <1>4, <1>5, <1>6 DEF TypeOK
  <1>8. Dated'
    BY <1>2, <1>3, <1>5, <1>6 DEF TypeOK, CallType, RowType, Time, Dated
  <1>9. Latest'
    BY <1>2, <1>3, <1>6 DEF TypeOK, CallType, RowType, Time, Dated, Latest
  <1>10. Guarded'
    <2> SUFFICES ASSUME Lost' PROVE Guarded'
      BY DEF Guarded
    <2>1. rows' = rows /\ ~exposed' /\ exposed' = \E p \in Puller :
             pulls[p].pc \in IF v = 0 THEN Waiting ELSE {"backup"}
      BY <1>1, <1>2, <1>3 DEF Lost
    <2>2. \A p \in Puller : pulls[p].pc \notin IF v = 0 THEN Waiting ELSE {"backup"}
      BY <2>1
    <2> QED BY <1>2, <1>5, <2>2 DEF Guarded, Waiting
  <1>11. NothingErased'
    BY <1>2, <1>5 DEF NothingErased
  <1> QED BY <1>7, <1>8, <1>9, <1>10, <1>11

\* An upload moves the cloud to a row's edit; the row of the last edit ends the account.
LEMMA UploadSafe == Safe /\ Upload => Safe'
  <1> SUFFICES ASSUME Safe, NEW r \in Active,
                      \/ /\ rows' = rows \ {r}
                         /\ cloud' = [val |-> r.val, at |-> r.at, ver |-> cloud.ver + 1]
                         /\ mine' = IF r.at = mine THEN 0 ELSE mine
                         /\ left' = left
                      \/ /\ rows' = (rows \ {r}) \cup {[r EXCEPT !.parked = TRUE]}
                         /\ Misfortune /\ UNCHANGED <<cloud, mine>>,
                      UNCHANGED <<local, plc, hash, pulls, edits, exposed, shown, crossed>>
               PROVE  Safe'
    BY DEF Upload
  <1> USE FullPullAssumption DEF Safe
  <1>1. r \in rows /\ r \in RowType /\ r.val \in {0, r.at} /\ r.at \in Time /\ r.val \in Time
    BY DEF Active, TypeOK, RowType
  <1> DEFINE parked == [r EXCEPT !.parked = TRUE]
  <1>2. parked \in RowType /\ parked.at = r.at /\ parked.val = r.val
    BY <1>1 DEF RowType
  <1>3. left' \in 0..Budget
    BY DEF TypeOK, Misfortune
  <1>4. CASE /\ rows' = rows \ {r}
             /\ cloud' = [val |-> r.val, at |-> r.at, ver |-> cloud.ver + 1]
             /\ mine' = IF r.at = mine THEN 0 ELSE mine
    <2>1. /\ cloud'.val = r.val /\ cloud'.at = r.at /\ cloud'.ver = cloud.ver + 1
          /\ cloud' \in [val : Time, at : Time, ver : Nat] /\ cloud.ver \in Nat
      BY <1>1, <1>4 DEF TypeOK
    <2>2. mine' \in Time
      BY <1>4 DEF TypeOK, Time
    <2>3. TypeOK'
      BY <1>3, <1>4, <2>1, <2>2 DEF TypeOK, CallType
    <2>4. Dated'
      BY <1>1, <1>4, <2>1 DEF TypeOK, Time, Dated
    <2>5. Latest'
      BY <1>1, <1>4, <2>1 DEF TypeOK, RowType, Time, Latest
    <2>6. Guarded'
      <3> SUFFICES ASSUME Lost' PROVE Guarded'
        BY DEF Guarded
      <3>1. Lost /\ mine' = mine /\ rows # {}
        BY <1>1, <1>4 DEF Lost
      <3> QED BY <1>4, <3>1 DEF Guarded, Waiting
    <2>7. NothingErased'
      BY <1>4 DEF NothingErased
    <2> QED BY <2>3, <2>4, <2>5, <2>6, <2>7
  <1>5. CASE rows' = (rows \ {r}) \cup {parked} /\ UNCHANGED <<cloud, mine>>
    <2> HIDE DEF parked
    <2>1. TypeOK'
      BY <1>1, <1>2, <1>3, <1>5 DEF TypeOK
    <2>2. Dated'
      BY <1>1, <1>2, <1>5 DEF Dated
    <2>3. Latest'
      BY <1>1, <1>2, <1>5 DEF Latest
    <2>4. Guarded'
      BY <1>1, <1>2, <1>5 DEF Guarded, Lost
    <2>5. NothingErased'
      BY <1>5 DEF NothingErased
    <2> QED BY <2>1, <2>2, <2>3, <2>4, <2>5
  <1> QED BY <1>4, <1>5

\* Another tablet's edit supersedes ours.
LEMMA CloudEditSafe == Safe /\ CloudEdit => Safe'
  <1> SUFFICES ASSUME Safe, CloudEdit PROVE Safe'
    OBVIOUS
  <1> USE FullPullAssumption DEF Safe
  <1>1. PICK v \in {0, edits + 1} : cloud' = [val |-> v, at |-> edits + 1, ver |-> cloud.ver + 1]
    BY DEF CloudEdit
  <1>2. /\ edits < MaxEdits /\ edits' = edits + 1 /\ mine' = 0
        /\ UNCHANGED <<local, rows, plc, hash, pulls, left, exposed, shown, crossed>>
    BY DEF CloudEdit
  <1>3. /\ cloud'.val = v /\ cloud'.at = edits + 1 /\ cloud'.ver = cloud.ver + 1 /\ cloud.ver \in Nat
        /\ cloud' \in [val : Time, at : Time, ver : Nat] /\ edits + 1 \in Time
    BY <1>1, <1>2 DEF TypeOK, Time
  <1>4. TypeOK'
    BY <1>2, <1>3 DEF TypeOK, CallType, Time
  <1>5. Dated'
    BY <1>2, <1>3 DEF Dated, TypeOK, CallType, RowType, Time
  <1> QED BY <1>2, <1>4, <1>5 DEF Latest, Guarded, Lost, NothingErased

LEMMA ConnectionSafe == Safe /\ (Connect \/ Disconnect) => Safe'
  <1> SUFFICES ASSUME Safe, Connect \/ Disconnect PROVE Safe'
    OBVIOUS
  <1>1. /\ UNCHANGED <<cloud, local, rows, hash, pulls, edits, mine, exposed, shown, crossed>>
        /\ left' \in 0..Budget
    BY FullPullAssumption DEF Safe, TypeOK, Connect, Disconnect, Misfortune
  <1>2. plc' \in BOOLEAN
    BY Zenon DEF Connect, Disconnect
  <1> QED BY <1>1, <1>2 DEF Safe, TypeOK, Dated, Latest, Guarded, Lost, NothingErased

-----------------------------------------------------------------------------
(* The pulls *)

LEMMA IdleCall ==
  Idle \in CallType /\ Idle.pc = "idle" /\ Idle.load = 0 /\ Idle.val = 0 /\ Idle.at = 0
  BY FullPullAssumption DEF Idle, CallType, Time

\* Once a pull has started nothing waits, be it uploaded or discarded.  A row of the
\* last edit that this discards is exposed to the other pulls.
LEMMA StartSafe == \A p \in Puller : Safe /\ Start(p) => Safe'
  <1> SUFFICES ASSUME NEW p \in Puller, Safe, Start(p) PROVE Safe'
    OBVIOUS
  <1> USE FullPullAssumption DEF Safe
  <1> DEFINE new(m, f) == [Idle EXCEPT !.pc = "asking", !.mode = m, !.force = f]
  <1>1. PICK m \in Modes, f \in BOOLEAN :
          /\ ~Blocked(m)
          /\ IF f THEN Misfortune ELSE UNCHANGED left
          /\ pulls' = [pulls EXCEPT ![p] = new(m, f)]
          /\ rows' = IF m = "global" THEN rows ELSE {r \in rows : ~r.parked}
          /\ exposed' = \/ exposed
                        \/ Others(p) # {} /\ \E r \in rows \ rows' : r.at = mine
    BY DEF Start
  <1>2. UNCHANGED <<cloud, local, plc, hash, edits, mine, shown, crossed>>
    BY DEF Start
  <1>3. rows' = {}
    BY <1>1 DEF Blocked, Active
  <1>4. /\ new(m, f) \in CallType /\ new(m, f).pc = "asking" /\ new(m, f).load = 0
        /\ new(m, f).val = 0 /\ new(m, f).at = 0
    BY IdleCall DEF CallType
  <1>5. pulls' = [pulls EXCEPT ![p] = new(m, f)]
    BY <1>1
  <1> HIDE DEF new
  <1>6. left' \in 0..Budget
    <2>1. left' = left \/ Misfortune
      BY <1>1
    <2> QED BY <2>1 DEF TypeOK, Misfortune
  <1>7. exposed' \in BOOLEAN
    BY <1>1, Zenon
  <1>8. TypeOK'
    BY <1>2, <1>3, <1>4, <1>5, <1>6, <1>7 DEF TypeOK
  <1>9. Dated'
    BY <1>2, <1>3, <1>4, <1>5 DEF Dated, TypeOK, Time
  <1>10. Latest'
    BY <1>2, <1>3, <1>4, <1>5 DEF Latest, TypeOK, Time
  <1>11. exposed => exposed'
    BY <1>1, Zenon
  <1>12. Guarded'
    <2> SUFFICES ASSUME Lost', NEW q \in Puller \ {p}
                 PROVE  /\ pulls[q].pc = "backup" => pulls[q].force \/ (local.val = 0 /\ pulls[q].val = 0)
                        /\ local.val = 0 /\ pulls[q].pc \in {"served", "backup"} => pulls[q].val = cloud.val
      BY <1>2, <1>3, <1>4, <1>5 DEF Guarded, TypeOK
    <2>1. mine # 0 /\ ~exposed
      BY <1>2, <1>11 DEF Lost
    <2>2. CASE \A r \in rows : r.at # mine
      BY <2>1, <2>2 DEF Guarded, Lost
    <2>3. CASE \E r \in rows : r.at = mine
      <3>1. Others(p) = {}
        BY <1>1, <1>3, <2>3, Zenon DEF Lost
      <3> QED BY <3>1 DEF Others
    <2> QED BY <2>2, <2>3
  <1>13. NothingErased'
    BY <1>2, <1>11 DEF NothingErased
  <1> QED BY <1>8, <1>9, <1>10, <1>12, <1>13

LEMMA ServeSafe == \A p \in Puller : Safe /\ Serve(p) => Safe'
  <1> SUFFICES ASSUME NEW p \in Puller, Safe, Serve(p) PROVE Safe'
    OBVIOUS
  <1> USE FullPullAssumption DEF Safe
  <1> DEFINE new == [pulls[p] EXCEPT !.pc = "served", !.val = cloud.val, !.at = cloud.at,
                                     !.load = cloud.ver]
  <1>1. /\ pulls[p].pc = "asking" /\ pulls' = [pulls EXCEPT ![p] = new]
        /\ UNCHANGED <<cloud, local, rows, plc, hash, edits, left, mine, exposed, shown, crossed>>
    BY DEF Serve, TypeOK
  <1>2. /\ new \in CallType /\ new.pc = "served" /\ new.load = cloud.ver
        /\ new.val = cloud.val /\ new.at = cloud.at /\ cloud.ver \in Nat
    <2>1. /\ pulls[p] \in CallType
          /\ cloud.val \in Time /\ cloud.at \in Time /\ cloud.ver \in Nat
      BY DEF TypeOK
    <2> QED BY <2>1 DEF CallType
  <1> HIDE DEF new
  <1>3. TypeOK'
    <2>1. pulls' \in [Puller -> CallType] /\ \A q \in Puller : pulls'[q].load <= cloud.ver
      BY <1>1, <1>2 DEF TypeOK
    <2> QED BY <1>1, <2>1 DEF TypeOK
  <1>4. Dated'
    BY <1>1, <1>2 DEF Dated, TypeOK
  <1>5. Latest'
    BY <1>1, <1>2 DEF Latest, TypeOK
  <1>6. Guarded'
    BY <1>1, <1>2 DEF Guarded, Lost, TypeOK, Waiting
  <1> QED BY <1>1, <1>3, <1>4, <1>5, <1>6 DEF NothingErased

\* A call that ends or goes on to note its payload keeps what it holds or drops it.
LEMMA EndedCall ==
  ASSUME TypeOK, Dated, NEW p \in Puller, Ends(p) \/ Goto(p, "storing")
  PROVE  \E k \in CallType :
           /\ pulls' = [pulls EXCEPT ![p] = k] /\ k.pc \in {"idle", "storing"}
           /\ k.load \in {0, pulls[p].load} /\ k.val \in {0, k.at} /\ k.at \in {0, pulls[p].at}
  <1> USE IdleCall
  <1> DEFINE k == [pulls[p] EXCEPT !.pc = "storing"]
  <1>1. CASE Ends(p)
    BY <1>1 DEF Ends
  <1>2. CASE Goto(p, "storing")
    <2>1. pulls' = [pulls EXCEPT ![p] = k]
      BY <1>2 DEF Goto, TypeOK
    <2>2. k \in CallType /\ k.pc = "storing" /\ k.load = pulls[p].load /\ k.at = pulls[p].at
          /\ k.val = pulls[p].val
      BY DEF TypeOK, CallType
    <2>3. k.val \in {0, k.at}
      BY <2>2 DEF Dated
    <2> HIDE DEF k
    <2> QED BY <2>1, <2>2, <2>3
  <1> QED BY <1>1, <1>2

\* A call that ends, or that goes on to note its payload, can erase nothing.
LEMMA CallEndsSafe ==
  ASSUME Safe, NEW p \in Puller, Ends(p) \/ Goto(p, "storing"), left' \in 0..Budget, hash' \in 0..cloud.ver,
         UNCHANGED <<cloud, local, rows, plc, edits, mine, exposed, shown, crossed>>
  PROVE  Safe'
  <1> USE FullPullAssumption, IdleCall DEF Safe
  <1>1. PICK k \in CallType :
          /\ pulls' = [pulls EXCEPT ![p] = k] /\ k.pc \in {"idle", "storing"}
          /\ k.load \in {0, pulls[p].load} /\ k.val \in {0, k.at} /\ k.at \in {0, pulls[p].at}
    BY EndedCall
  <1>2. TypeOK'
    BY <1>1 DEF TypeOK, CallType
  <1>3. Dated'
    BY <1>1 DEF Dated, TypeOK, Time
  <1>4. Latest'
    BY <1>1 DEF Latest, TypeOK, Time
  <1>5. Guarded'
    BY <1>1 DEF Guarded, Lost, TypeOK, Waiting
  <1> QED BY <1>2, <1>3, <1>4, <1>5 DEF NothingErased

\* The rewrite is safe if it gives up an edit only when that is exposed or confirmed.
LEMMA RewriteSafe ==
  ASSUME Safe, NEW p \in Puller, NEW next, next => Ends(p) \/ Goto(p, "storing"),
         Rewrite(p, pulls[p], next), ~Appeared(pulls[p]),
         UNCHANGED <<cloud, rows, plc, hash, edits, left>>,
         mine # 0 /\ ~exposed' => mine' = 0
  PROVE  Safe'
  <1> USE FullPullAssumption, IdleCall DEF Safe
  <1> DEFINE c == pulls[p]
  <1>1. /\ local' = [val |-> c.val, at |-> c.at]
        /\ mine' = IF c.force \/ (local.val = 0 /\ cloud.val = 0) THEN 0 ELSE mine
        /\ exposed' = (exposed \/ (~Scoped(c) /\ rows # {}))
        /\ shown' = c.load /\ crossed' = (Others(p) # {} \/ c.load < shown \/ c.load < hash)
        /\ Ends(p) \/ Goto(p, "storing")
    BY DEF Rewrite
  <1>2. PICK k \in CallType :
          /\ pulls' = [pulls EXCEPT ![p] = k] /\ k.pc \in {"idle", "storing"}
          /\ k.load \in {0, pulls[p].load} /\ k.val \in {0, k.at} /\ k.at \in {0, pulls[p].at}
    BY <1>1, EndedCall
  <1>3. c.val \in Time /\ c.at \in Time /\ c.load \in 0..cloud.ver /\ c.at <= edits /\ c.val \in {0, c.at}
    BY DEF TypeOK, CallType, Dated
  <1>4. local' \in [val : Time, at : Time] /\ local'.val = c.val /\ local'.at = c.at
    BY <1>1, <1>3
  <1>5. mine' \in {0, mine}
    BY <1>1
  <1>6. exposed' \in BOOLEAN /\ crossed' \in BOOLEAN
    BY <1>1, Zenon
  <1> HIDE DEF c
  <1>7. TypeOK'
    BY <1>1, <1>2, <1>3, <1>4, <1>5, <1>6 DEF TypeOK, CallType, Time
  <1>8. Dated'
    BY <1>2, <1>3, <1>4, <1>5 DEF Dated, TypeOK, Time
  <1>9. Latest'
    BY <1>2, <1>5 DEF Latest, TypeOK, Time
  <1>10. mine' # 0 => exposed'
    BY <1>5
  <1> QED BY <1>7, <1>8, <1>9, <1>10 DEF Guarded, Lost, NothingErased

\* A check that lets a pull pass, with nothing in the way, has seen the last edit: it
\* was a clear, and the payload is blank too.
LEMMA RiskSeen ==
  ASSUME Safe, Lost, NEW p \in Puller, ~AtRisk(pulls[p]), local.val = 0 \/ rows = {}
  PROVE  local.val = 0 /\ pulls[p].val = 0
  <1>1. local.at = mine /\ pulls[p].at < mine /\ mine \in Nat /\ pulls[p].at \in Nat
    BY FullPullAssumption DEF Safe, Lost, NothingErased, Latest, TypeOK, CallType, Time
  <1>2. local.val \in {0, local.at} /\ pulls[p].val \in {0, pulls[p].at}
    BY DEF Safe, Dated
  <1>3. CASE local.val # 0
    BY <1>1, <1>2, <1>3 DEF AtRisk
  <1>4. CASE local.val = 0
    BY <1>1, <1>2, <1>4 DEF AtRisk
  <1> QED BY <1>3, <1>4

LEMMA JudgeSafe == \A p \in Puller : Safe /\ Judge(p) => Safe'
  <1> SUFFICES ASSUME NEW p \in Puller, Safe, Judge(p) PROVE Safe'
    OBVIOUS
  <1> DEFINE c == pulls[p]
  <1>1. c.pc = "served" /\ UNCHANGED <<cloud, rows, plc, hash, edits, left>>
    BY DEF Judge
  <1>2. left' \in 0..Budget /\ hash' \in 0..cloud.ver
    BY <1>1 DEF Safe, TypeOK
  <1>3. CASE Ends(p) /\ UNCHANGED <<local, mine, exposed, shown, crossed>>
    BY <1>1, <1>2, <1>3, CallEndsSafe
  <1>4. CASE /\ AtRisk(c) => c.force
             /\ c.mode = "background" /\ Rewrite(p, c, Goto(p, "storing"))
    <2>1. CASE Appeared(c)
      BY <1>1, <1>2, <1>4, <2>1, CallEndsSafe DEF Rewrite
    <2>2. CASE ~Appeared(c)
      <3>1. rows = {}
        BY <1>4, <2>2 DEF Appeared, Scoped
      <3>2. ASSUME mine # 0, ~exposed' PROVE mine' = 0
        <4>1. mine' = IF c.force \/ (local.val = 0 /\ cloud.val = 0) THEN 0 ELSE mine
          BY <1>4, <2>2 DEF Rewrite
        <4>2. Lost
          BY <1>4, <2>2, <3>1, <3>2, Zenon DEF Lost, Rewrite
        <4>3. CASE ~c.force
          <5>1. local.val = 0 /\ c.val = 0
            BY <1>4, <3>1, <4>2, <4>3, RiskSeen
          <5>2. c.val = cloud.val
            BY <1>1, <4>2, <5>1 DEF Safe, Guarded
          <5> QED BY <4>1, <5>1, <5>2
        <4> QED BY <4>1, <4>3
      <3> QED BY <1>1, <1>4, <2>2, <3>2, RewriteSafe
    <2> QED BY <2>1, <2>2
  <1>5. CASE /\ AtRisk(c) => c.force
             /\ Goto(p, "backup") /\ exposed' = (exposed \/ (Masked /\ ~c.force))
             /\ UNCHANGED <<local, mine, shown, crossed>>
    <2> USE FullPullAssumption DEF Safe
    <2> DEFINE k == [c EXCEPT !.pc = "backup"]
    <2>1. /\ pulls' = [pulls EXCEPT ![p] = k] /\ k \in CallType /\ k.pc = "backup"
          /\ k.load = c.load /\ k.val = c.val /\ k.at = c.at /\ k.force = c.force
      BY <1>5 DEF Goto, TypeOK, CallType
    <2>2. exposed' \in BOOLEAN
      BY <1>5, Zenon
    <2> HIDE DEF k
    <2>3. TypeOK'
      BY <1>1, <1>5, <2>1, <2>2 DEF TypeOK, CallType
    <2>4. Dated' /\ Latest'
      BY <1>1, <1>5, <2>1 DEF Dated, Latest, TypeOK
    <2>5. Guarded'
      <3> SUFFICES ASSUME Lost' PROVE Guarded'
        BY DEF Guarded
      <3>1. Lost /\ (Masked => c.force)
        BY <1>1, <1>5, Zenon DEF Lost
      <3>2. c.force \/ (local.val = 0 /\ c.val = 0)
        <4>1. CASE ~c.force
          <5>1. local.val = 0 \/ rows = {}
            BY <3>1, <4>1 DEF Masked, Lost
          <5> QED BY <1>5, <3>1, <4>1, <5>1, RiskSeen
        <4> QED BY <4>1
      <3> QED BY <1>1, <1>5, <2>1, <3>1, <3>2 DEF Guarded, TypeOK, Waiting
    <2>6. NothingErased'
      BY <1>5 DEF NothingErased
    <2> QED BY <2>3, <2>4, <2>5, <2>6
  <1> QED BY <1>3, <1>4, <1>5 DEF Judge

\* After its backup a pull meets the row of the last edit, or it has been judged.
LEMMA BackedUpSafe == \A p \in Puller : Safe /\ BackedUp(p) => Safe'
  <1> SUFFICES ASSUME NEW p \in Puller, Safe, BackedUp(p) PROVE Safe'
    OBVIOUS
  <1> DEFINE c == pulls[p]
             next == IF Scoped(c) THEN Goto(p, "storing") ELSE Ends(p)
  <1>1. /\ c.pc = "backup" /\ Rewrite(p, c, next)
        /\ UNCHANGED <<cloud, rows, plc, hash, edits, left>>
    BY DEF BackedUp
  <1>2. CASE Appeared(c)
    <2>1. left' \in 0..Budget /\ hash' \in 0..cloud.ver
      BY <1>1 DEF Safe, TypeOK
    <2> QED BY <1>1, <1>2, <2>1, CallEndsSafe DEF Rewrite
  <1>3. CASE ~Appeared(c)
    <2>1. /\ mine' = IF c.force \/ (local.val = 0 /\ cloud.val = 0) THEN 0 ELSE mine
          /\ exposed' = (exposed \/ (~Scoped(c) /\ rows # {}))
      BY <1>1, <1>3 DEF Rewrite
    <2>2. ASSUME mine # 0, ~exposed' PROVE mine' = 0
      <3>1. rows = {} /\ Lost
        BY <1>3, <2>1, <2>2, Zenon DEF Appeared, Lost
      <3>2. c.force \/ (local.val = 0 /\ c.val = 0 /\ c.val = cloud.val)
        BY <1>1, <3>1 DEF Safe, Guarded
      <3> QED BY <2>1, <3>2
    <2>3. next => Ends(p) \/ Goto(p, "storing")
      OBVIOUS
    <2> HIDE DEF next
    <2> QED BY <1>1, <1>3, <2>2, <2>3, RewriteSafe
  <1> QED BY <1>2, <1>3

LEMMA StopSafe == \A p \in Puller : Safe /\ (Fails(p) \/ Store(p)) => Safe'
  <1> SUFFICES ASSUME NEW p \in Puller, Safe, Fails(p) \/ Store(p) PROVE Safe'
    OBVIOUS
  <1>1. Ends(p) /\ UNCHANGED <<cloud, local, rows, plc, edits, mine, exposed, shown, crossed>>
    BY DEF Fails, Store
  <1>2. left' \in 0..Budget
    BY FullPullAssumption DEF Fails, Store, Safe, TypeOK, Misfortune
  <1>3. hash' \in 0..cloud.ver
    BY DEF Fails, Store, Safe, TypeOK, CallType
  <1> QED BY <1>1, <1>2, <1>3, CallEndsSafe

LEMMA CrashSafe == Safe /\ Crash => Safe'
  <1> SUFFICES ASSUME Safe, Crash PROVE Safe'
    OBVIOUS
  <1> USE FullPullAssumption, IdleCall DEF Safe
  <1>1. /\ pulls' = [p \in Puller |-> Idle] /\ hash' = 0 /\ plc' = FALSE
        /\ UNCHANGED <<cloud, local, rows, edits, mine, exposed, shown, crossed>>
    BY DEF Crash
  <1>2. left' \in 0..Budget
    BY DEF Crash, TypeOK, Misfortune
  <1>3. plc' \in BOOLEAN
    BY <1>1, Zenon
  <1>4. TypeOK'
    BY <1>1, <1>2, <1>3 DEF TypeOK
  <1>5. Dated' /\ Latest' /\ Guarded' /\ NothingErased'
    BY <1>1 DEF Dated, Latest, Guarded, Lost, NothingErased, TypeOK, Time, Waiting
  <1> QED BY <1>4, <1>5

LEMMA NextSafe == Safe /\ [Next]_vars => Safe'
  <1> SUFFICES ASSUME Safe, [Next]_vars PROVE Safe'
    OBVIOUS
  <1>1. CASE Edit \/ Upload \/ CloudEdit
    BY <1>1, EditSafe, UploadSafe, CloudEditSafe
  <1>2. CASE Connect \/ Disconnect \/ Crash
    BY <1>2, ConnectionSafe, CrashSafe
  <1>3. ASSUME NEW p \in Puller,
               Start(p) \/ Serve(p) \/ Fails(p) \/ Judge(p) \/ BackedUp(p) \/ Store(p)
        PROVE  Safe'
    BY <1>3, StartSafe, ServeSafe, JudgeSafe, BackedUpSafe, StopSafe
  <1>4. CASE UNCHANGED vars
    BY <1>4 DEF vars, Safe, TypeOK, Dated, Latest, Guarded, Lost, NothingErased
  <1> QED BY <1>1, <1>2, <1>3, <1>4 DEF Next

\* Every variable keeps its type, and no version noted or shown is ahead of the cloud.
THEOREM PullTypes == Spec => []TypeOK
  <1>1. Safe => TypeOK
    BY DEF Safe
  <1> QED BY InitSafe, NextSafe, <1>1, PTL DEF Spec

\* Whatever pulls are made, a test or clear that the cloud has not taken stands in the
\* table, but for the exposures the property names.
THEOREM EditsOutlivePulls == Spec => []NothingErased
  <1>1. Safe => NothingErased
    BY DEF Safe
  <1> QED BY InitSafe, NextSafe, <1>1, PTL DEF Spec

-----------------------------------------------------------------------------
(* The no-op check *)

\* Only a rewrite touches what was shown, and only Store what is noted.
LEMMA QuietNoted ==
  ASSUME TypeOK, Noted, UNCHANGED <<shown, crossed>>, hash' \in {0, hash},
         \A p \in Puller : pulls'[p].pc = "storing" =>
            pulls[p].pc = "storing" /\ pulls'[p].load = pulls[p].load
  PROVE  Noted'
  BY DEF Noted, NoOpIsTruthful, TypeOK

\* After a rewrite either other pulls were at work, or this one alone may note what
\* it has shown, and what was noted before is not newer.
LEMMA RewriteNoted ==
  ASSUME TypeOK, Noted, NEW p \in Puller, NEW next, next => Ends(p) \/ Goto(p, "storing"),
         Rewrite(p, pulls[p], next), hash' = hash, pulls[p].pc # "storing"
  PROVE  Noted'
  <1>1. CASE Appeared(pulls[p])
    BY <1>1, QuietNoted, IdleCall DEF Rewrite, Ends, TypeOK
  <1>2. CASE ~Appeared(pulls[p])
    <2>1. /\ shown' = pulls[p].load
          /\ crossed' = (Others(p) # {} \/ pulls[p].load < shown \/ pulls[p].load < hash)
          /\ Ends(p) \/ Goto(p, "storing")
      BY <1>2 DEF Rewrite
    <2>2. CASE Others(p) # {} \/ pulls[p].load < hash
      BY <2>1, <2>2, Zenon DEF Noted, NoOpIsTruthful
    <2>3. CASE Others(p) = {} /\ ~(pulls[p].load < hash)
      <3>1. pulls[p].load \in Nat /\ hash \in Nat
        BY DEF TypeOK, CallType
      <3>2. \A q \in Puller : pulls'[q].pc = "storing" => pulls'[q].load = pulls[p].load
        BY <2>1, <2>3, IdleCall DEF Others, Ends, Goto, TypeOK, CallType
      <3> QED BY <2>1, <2>3, <3>1, <3>2 DEF Noted, NoOpIsTruthful
    <2> QED BY <2>2, <2>3
  <1> QED BY <1>1, <1>2

LEMMA NextNoted == TypeOK /\ Noted /\ [Next]_vars => Noted'
  <1> SUFFICES ASSUME TypeOK, Noted, [Next]_vars PROVE Noted'
    OBVIOUS
  <1> USE IdleCall
  <1>1. CASE Edit \/ Upload \/ CloudEdit \/ Connect \/ Disconnect \/ UNCHANGED vars
    <2>1. UNCHANGED <<pulls, hash, shown, crossed>>
      BY <1>1 DEF Edit, Upload, CloudEdit, Connect, Disconnect, vars
    <2> QED BY <2>1, QuietNoted
  <1>2. CASE Crash
    BY <1>2, QuietNoted DEF Crash
  <1>3. ASSUME NEW p \in Puller, Start(p) \/ Serve(p) \/ Fails(p) PROVE Noted'
    <2>1. /\ UNCHANGED <<hash, shown, crossed>>
          /\ \E k : pulls' = [pulls EXCEPT ![p] = k] /\ k.pc # "storing"
      <3>1. CASE Start(p)
        <4>1. PICK m \in Modes, f \in BOOLEAN :
                pulls' = [pulls EXCEPT ![p] = [Idle EXCEPT !.pc = "asking", !.mode = m, !.force = f]]
          BY <3>1 DEF Start
        <4> DEFINE k == [Idle EXCEPT !.pc = "asking", !.mode = m, !.force = f]
        <4>2. k.pc = "asking"
          BY DEF CallType
        <4> HIDE DEF k
        <4> QED BY <3>1, <4>1, <4>2 DEF Start, k
      <3>2. CASE Serve(p)
        <4> DEFINE k == [pulls[p] EXCEPT !.pc = "served", !.val = cloud.val, !.at = cloud.at,
                                         !.load = cloud.ver]
        <4>1. pulls' = [pulls EXCEPT ![p] = k] /\ k.pc = "served"
          BY <3>2 DEF Serve, TypeOK, CallType
        <4> HIDE DEF k
        <4> QED BY <3>2, <4>1 DEF Serve
      <3>3. CASE Fails(p)
        BY <3>3 DEF Fails, Ends
      <3> QED BY <1>3, <3>1, <3>2, <3>3
    <2> QED BY <2>1, QuietNoted DEF TypeOK
  <1>4. ASSUME NEW p \in Puller, Judge(p) PROVE Noted'
    <2>1. hash' = hash /\ pulls[p].pc = "served"
      BY <1>4 DEF Judge
    <2>2. CASE Ends(p) /\ UNCHANGED <<shown, crossed>>
      BY <2>1, <2>2, QuietNoted DEF Ends, TypeOK
    <2>3. CASE Goto(p, "backup") /\ UNCHANGED <<shown, crossed>>
      BY <2>1, <2>3, QuietNoted DEF Goto, TypeOK, CallType
    <2>4. CASE Rewrite(p, pulls[p], Goto(p, "storing"))
      BY <2>1, <2>4, RewriteNoted
    <2> QED BY <1>4, <2>2, <2>3, <2>4 DEF Judge
  <1>5. ASSUME NEW p \in Puller, BackedUp(p) PROVE Noted'
    <2> DEFINE next == IF Scoped(pulls[p]) THEN Goto(p, "storing") ELSE Ends(p)
    <2>1. hash' = hash /\ pulls[p].pc = "backup" /\ Rewrite(p, pulls[p], next)
      BY <1>5 DEF BackedUp
    <2>2. next => Ends(p) \/ Goto(p, "storing")
      OBVIOUS
    <2> HIDE DEF next
    <2> QED BY <2>1, <2>2, RewriteNoted
  <1>6. ASSUME NEW p \in Puller, Store(p) PROVE Noted'
    BY <1>6 DEF Store, Ends, Noted, NoOpIsTruthful, TypeOK, CallType
  <1> QED BY <1>1, <1>2, <1>3, <1>4, <1>5, <1>6 DEF Next

\* When the scoped pull takes the cloud's state for known, the table was last rewritten
\* from that state or a later one, if no other pull crossed that rewrite.
THEOREM NoOpsAreTrue == Spec => []NoOpIsTruthful
  <1>1. Safe /\ Noted /\ [Next]_vars => (Safe /\ Noted)'
    BY NextSafe, NextNoted DEF Safe
  <1>2. Noted => NoOpIsTruthful
    BY DEF Noted
  <1> QED BY InitSafe, <1>1, <1>2, PTL DEF Spec
=============================================================================
