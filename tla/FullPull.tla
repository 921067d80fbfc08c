------------------------------ MODULE FullPull ------------------------------
(***************************************************************************)
(* The destructive pulls, seen from the result of one IO: runFullPull of    *)
(* pull-core.ts and its guards in pull-guard.ts, called by the scoped route *)
(* (mcm/[subsystemId]/pull) and, on a tablet with one MCM, by the global    *)
(* one (cloud/pull).  Tests, clears and uploads go on while a pull waits    *)
(* for the cloud's answer or for its backup.                               *)
(*                                                                         *)
(* Edits are numbered in the order of their time stamps, on the tablet and  *)
(* on the cloud alike: the number of a test is its result and its time, a   *)
(* clear has the result 0.  The upload is external: it delivers the rows    *)
(* oldest first or has one rejected for good; IoOutbox models how.          *)
(***************************************************************************)
EXTENDS Naturals, FiniteSets

CONSTANTS
  Puller,    \* calls of the pull routes that may overlap
  Modes,     \* what they may be: "manual", "background" and "global" pulls
  MaxEdits,  \* bound: edits of the IO, on the tablet and on the cloud
  Budget     \* bound: failures, rejections, forced pulls, PLC connections, crashes

ASSUME FullPullAssumption ==
  /\ Modes \subseteq {"manual", "background", "global"} /\ MaxEdits \in Nat /\ Budget \in Nat

VARIABLES
  cloud,  \* the cloud's result, its time and its version
  local,  \* the result and the time in Ios; of a clear, the time in TestHistories
  rows,   \* the rows of PendingSyncs of this IO
  plc,    \* is the PLC of this MCM connected?
  hash,   \* the version the last scoped pull has stored in pullHashStore, 0 for none
  pulls,  \* pulls[p]: what call p is doing
  \* bounds and history
  edits, left,
  mine,   \* the time of the tablet's last edit if the cloud has nothing as new, or 0
  exposed, \* could no guard of a pull at work see that edit?
  shown,  \* the version of the cloud that the last rewrite brought
  crossed \* was another pull at work then, or had one brought or noted a newer state before?

vars == <<cloud, local, rows, plc, hash, pulls, edits, left, mine, exposed, shown, crossed>>

Blank      == [val |-> 0, at |-> 0]
Idle       == [pc |-> "idle", mode |-> "manual", force |-> FALSE, load |-> 0,
               val |-> 0, at |-> 0]
Active     == {r \in rows : ~r.parked}
Scoped(c)  == c.mode # "global"
Others(p)  == {q \in Puller \ {p} : pulls[q].pc # "idle"}
Misfortune == left > 0 /\ left' = left - 1
Goto(p, pc) == pulls' = [pulls EXCEPT ![p].pc = pc]
Ends(p)     == pulls' = [pulls EXCEPT ![p] = Idle]

Init ==
  /\ cloud = [val |-> 0, at |-> 0, ver |-> 0] /\ local = Blank /\ rows = {}
  /\ plc = FALSE /\ hash = 0 /\ pulls = [p \in Puller |-> Idle]
  /\ edits = 0 /\ left = Budget
  /\ mine = 0 /\ exposed = FALSE /\ shown = 0 /\ crossed = FALSE

-----------------------------------------------------------------------------
(* The tablet and the cloud *)

\* A test or a clear: Ios and TestHistories in one transaction, then the queue row
\* in a statement of its own, which may fail.
Edit ==
  /\ edits < MaxEdits /\ edits' = edits + 1
  /\ \E v \in {0, edits'} :
       /\ v = 0 => local.val # 0
       /\ local' = [val |-> v, at |-> edits']
       /\ \/ rows' = rows \cup {[at |-> edits', val |-> v, parked |-> FALSE]}
             /\ exposed' = FALSE /\ UNCHANGED left
          \/ Misfortune /\ UNCHANGED rows
             /\ exposed' = \E p \in Puller :
                          pulls[p].pc \in IF v = 0 THEN {"asking", "served", "backup"} ELSE {"backup"}
  /\ mine' = edits'
  /\ UNCHANGED <<cloud, plc, hash, pulls, shown, crossed>>

\* The oldest active row reaches the cloud, or is rejected and parked.
Upload ==
  \E r \in Active :
    /\ \A s \in Active : r.at <= s.at
    /\ \/ /\ rows' = rows \ {r}
          /\ cloud' = [val |-> r.val, at |-> r.at, ver |-> cloud.ver + 1]
          /\ mine' = IF r.at = mine THEN 0 ELSE mine
          /\ UNCHANGED left
       \/ /\ rows' = (rows \ {r}) \cup {[r EXCEPT !.parked = TRUE]}
          /\ Misfortune /\ UNCHANGED <<cloud, mine>>
    /\ UNCHANGED <<local, plc, hash, pulls, edits, exposed, shown, crossed>>

\* Another tablet or the cloud's own page; being later it supersedes ours.
CloudEdit ==
  /\ edits < MaxEdits /\ edits' = edits + 1
  /\ \E v \in {0, edits'} :
       /\ v = 0 => cloud.val # 0
       /\ cloud' = [val |-> v, at |-> edits', ver |-> cloud.ver + 1]
  /\ mine' = 0
  /\ UNCHANGED <<local, rows, plc, hash, pulls, left, exposed, shown, crossed>>

Connect ==
  /\ ~plc /\ Misfortune /\ plc' = TRUE
  /\ UNCHANGED <<cloud, local, rows, hash, pulls, edits, mine, exposed, shown, crossed>>

Disconnect ==
  /\ plc /\ plc' = FALSE
  /\ UNCHANGED <<cloud, local, rows, hash, pulls, edits, left, mine, exposed, shown, crossed>>

-----------------------------------------------------------------------------
(* The pulls *)

\* Active rows block a pull; parked ones block only the global pull.
Blocked(mode) == IF mode = "global" THEN rows # {} ELSE Active # {}

\* A pull is asked for.  The scoped one discards the parked rows: they will never
\* be uploaded.
Start(p) ==
  /\ pulls[p].pc = "idle" /\ ~plc
  /\ \E m \in Modes, f \in BOOLEAN :
       /\ f => m # "background"
       /\ ~Blocked(m)
       /\ IF f THEN Misfortune ELSE UNCHANGED left
       /\ pulls' = [pulls EXCEPT ![p] = [Idle EXCEPT !.pc = "asking", !.mode = m, !.force = f]]
       /\ rows' = IF m = "global" THEN rows ELSE {r \in rows : ~r.parked}
       /\ exposed' = \/ exposed
                     \/ Others(p) # {} /\ \E r \in rows \ rows' : r.at = mine
  /\ UNCHANGED <<cloud, local, plc, hash, edits, mine, shown, crossed>>

\* Bug: the version is taken for one more than it is.
Ahead(p) ==
  /\ pulls[p].pc = "asking"
  /\ pulls' = [pulls EXCEPT ![p].pc = "served", ![p].val = cloud.val, ![p].at = cloud.at,
                            ![p].load = cloud.ver + 1]
  /\ UNCHANGED <<cloud, local, rows, plc, hash, edits, left, mine, exposed, shown, crossed>>

\* The cloud answers with the subsystem's IOs.
Serve(p) ==
  /\ pulls[p].pc = "asking"
  /\ pulls' = [pulls EXCEPT ![p].pc = "served", ![p].val = cloud.val, ![p].at = cloud.at,
                            ![p].load = cloud.ver]
  /\ UNCHANGED <<cloud, local, rows, plc, hash, edits, left, mine, exposed, shown, crossed>>

\* The request or the backup fails.
Fails(p) ==
  /\ pulls[p].pc \in {"asking", "backup"} /\ Misfortune /\ Ends(p)
  /\ UNCHANGED <<cloud, local, rows, plc, hash, edits, mine, exposed, shown, crossed>>

\* computePullRiskOrRefuse: a local result that the cloud lacks, an unqueued one that
\* is newer than the cloud's, or a clear that the cloud has nothing newer than.
AtRisk(c) ==
  \/ local.val # 0 /\ c.val = 0
  \/ local.val # 0 /\ c.val # local.val /\ rows = {} /\ local.at > c.at
  \/ local.val = 0 /\ local.at > 0 /\ c.val # 0 /\ c.at <= local.at

\* Bug: the rewrite trusts the check made before the fetch.
NoRecheck(c) == FALSE

\* PENDING_APPEARED: the transaction of a scoped pull looks for rows again.
Appeared(c) == Scoped(c) /\ rows # {}

\* Bug: a pull that found a new row goes on as if it had rewritten the table.
FallsThrough(p, c, next) ==
  IF Appeared(c) THEN next /\ UNCHANGED <<local, mine, exposed, shown, crossed>>
  ELSE /\ local' = [val |-> c.val, at |-> c.at]
       /\ mine' = IF c.force \/ (local.val = 0 /\ cloud.val = 0) THEN 0 ELSE mine
       /\ exposed' = (exposed \/ (~Scoped(c) /\ rows # {}))
       /\ shown' = c.load /\ crossed' = (Others(p) # {} \/ c.load < shown \/ c.load < hash)
       /\ next

\* The transaction: the IO becomes what the payload says.  Where both sides are blank
\* nothing is lost.
Rewrite(p, c, next) ==
  IF Appeared(c) THEN Ends(p) /\ UNCHANGED <<local, mine, exposed, shown, crossed>>
  ELSE /\ local' = [val |-> c.val, at |-> c.at]
       /\ mine' = IF c.force \/ (local.val = 0 /\ cloud.val = 0) THEN 0 ELSE mine
       /\ exposed' = (exposed \/ (~Scoped(c) /\ rows # {}))
       /\ shown' = c.load /\ crossed' = (Others(p) # {} \/ c.load < shown \/ c.load < hash)
       /\ next

\* Bug: whatever was pulled once is never pulled again.
PulledOnce(c) == Scoped(c) /\ ~c.force /\ hash # 0

\* The scoped route's no-op check: the payload is the one it applied last.
Unchanged(c) == Scoped(c) /\ ~c.force /\ hash = c.load /\ hash # 0

\* A row keeps its IO out of the check for newer results, a row of an older edit too.
Masked == mine # 0 /\ local.val # 0 /\ rows # {} /\ \A r \in rows : r.at # mine

\* With the answer in hand: no-op, refusal, backup, or, in the background, where
\* nothing is at risk, the rewrite at once.
Judge(p) ==
  /\ pulls[p].pc = "served"
  /\ LET c == pulls[p]
     IN \/ /\ Unchanged(c) \/ (AtRisk(c) /\ ~c.force)
           /\ Ends(p) /\ UNCHANGED <<local, mine, exposed, shown, crossed>>
        \/ /\ ~Unchanged(c) /\ (AtRisk(c) => c.force)
           /\ IF c.mode = "background" THEN Rewrite(p, c, Goto(p, "storing"))
              ELSE /\ Goto(p, "backup") /\ exposed' = (exposed \/ (Masked /\ ~c.force))
                   /\ UNCHANGED <<local, mine, shown, crossed>>
  /\ UNCHANGED <<cloud, rows, plc, hash, edits, left>>

BackedUp(p) ==
  /\ pulls[p].pc = "backup"
  /\ Rewrite(p, pulls[p], IF Scoped(pulls[p]) THEN Goto(p, "storing") ELSE Ends(p))
  /\ UNCHANGED <<cloud, rows, plc, hash, edits, left>>

\* After the other sections have been refreshed the scoped route notes the payload.
Store(p) ==
  /\ pulls[p].pc = "storing"
  /\ hash' = pulls[p].load /\ Ends(p)
  /\ UNCHANGED <<cloud, local, rows, plc, edits, left, mine, exposed, shown, crossed>>

Crash ==
  /\ Misfortune
  /\ pulls' = [p \in Puller |-> Idle] /\ hash' = 0 /\ plc' = FALSE
  /\ UNCHANGED <<cloud, local, rows, edits, mine, exposed, shown, crossed>>

-----------------------------------------------------------------------------
Next == \/ Edit \/ Upload \/ CloudEdit \/ Connect \/ Disconnect
        \/ \E p \in Puller : \/ Start(p) \/ Serve(p) \/ Fails(p)
                             \/ Judge(p) \/ BackedUp(p) \/ Store(p)
        \/ Crash

\* The catch-up asks for a pull again and again, queues drain, a PLC is disconnected
\* in the end, calls end.
Fairness ==
  /\ WF_vars(Upload) /\ WF_vars(Disconnect)
  /\ \A p \in Puller : /\ WF_vars(Start(p)) /\ WF_vars(Serve(p)) /\ WF_vars(Judge(p))
                       /\ WF_vars(BackedUp(p)) /\ WF_vars(Store(p))

Spec == Init /\ [][Next]_vars /\ Fairness
-----------------------------------------------------------------------------
Time == 0..MaxEdits

RowType  == [val : Time, at : Time, parked : BOOLEAN]
CallType == [pc : {"idle", "asking", "served", "backup", "storing"},
             mode : Modes \cup {"manual"}, force : BOOLEAN, load : Nat, val : Time, at : Time]

TypeOK ==
  /\ cloud \in [val : Time, at : Time, ver : Nat] /\ local \in [val : Time, at : Time]
  /\ rows \subseteq RowType /\ \A r \in rows : r.val \in {0, r.at}
  /\ plc \in BOOLEAN /\ hash \in 0..cloud.ver /\ shown \in 0..cloud.ver
  /\ pulls \in [Puller -> CallType] /\ \A p \in Puller : pulls[p].load <= cloud.ver
  /\ edits \in Time /\ left \in 0..Budget /\ mine \in Time
  /\ exposed \in BOOLEAN /\ crossed \in BOOLEAN

\* Safety: an edit of the tablet that the cloud has not taken stands in the table,
\* whatever pulls are made, unless the operator confirmed its loss, or its row is missing
\* (the statement that queues it failed, or a second pull discarded the rejected row) and
\* the pull at work could not know, being past its check or kept from it by an older row
\* of the IO, or unless the pull was a global one.
NothingErased == mine # 0 => local.at = mine \/ exposed

\* Safety: when the scoped pull takes the cloud's state for known, the table was last
\* rewritten from that state or a later one, unless two pulls crossed.
NoOpIsTruthful == hash # 0 => shown >= hash \/ crossed

\* Liveness: a result that is newer on the cloud arrives.  Not so a clear: to the
\* guard it is a result that the cloud lacks.
PullsCatchUp == <>[](local.at >= cloud.at \/ cloud.val = 0 \/ crossed)
=============================================================================
