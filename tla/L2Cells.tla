------------------------------- MODULE L2Cells -------------------------------
(***************************************************************************)
(* One cell of the functional-validation (L2) tables between the tablet and *)
(* the cloud: the edit and its instant push (l2/cell route), the background *)
(* drain of L2PendingSyncs (auto-sync.ts), the pull (pull-l2 route), the    *)
(* live event (cloud-sse-client.ts), the orphan reconciler and what an      *)
(* operator does to the queue: retry, unpark, discard, push it now.        *)
(*                                                                         *)
(* A value is the number of the edit that wrote it, 0 is a blank; a cell    *)
(* with version 0 does not exist.  A queue row holds the version the cloud  *)
(* is thought to have; the value pushed is always the one in the table.     *)
(* The cloud and its clock are external: it takes a push whose base is its  *)
(* version or whose value it has, and numbers the values it takes.         *)
(***************************************************************************)
EXTENDS Integers, Sequences, FiniteSets

CONSTANTS
  Actors,    \* bound: who may act in one behaviour besides edits, their pushes and the drain
  Cap,       \* PENDING_RETRY_CAP, 10 in the code
  MaxEdits,  \* bound: edits on the tablet and on the cloud together
  MaxRows,   \* bound: rows the cell has at a time
  Budget,    \* bound: lost calls and events, refusals, removals, crashes
  Asks       \* bound: manual pushes, retries, un-parks and discards

ASSUME L2CellsAssumption ==
  /\ Actors \subseteq SUBSET {"pull", "event", "recon", "manual"}
  /\ Cap \in Nat \ {0} /\ MaxEdits \in Nat /\ MaxRows \in Nat
  /\ Budget \in Nat /\ Asks \in Nat

VARIABLES
  acting,    \* who acts in this behaviour
  owned,     \* does the cloud own the column ("Belt Tracked")?
  cloud,     \* the cloud's cell
  gone,      \* has the cloud removed the device?
  local,     \* the row of L2CellValues
  device,    \* is the device in L2Devices?
  rows,      \* the rows of L2PendingSyncs of this cell
  instant,   \* the push that an edit has started
  again,     \* has the push queue noted another edit for it?
  drain,     \* the background push
  manual,    \* the push an operator has asked for
  strays,    \* pushes nobody waits for any more
  pull,      \* the pull
  recon,     \* the payload in the hands of the reconciler, none or one
  events,    \* the events under way
  tracked,   \* is the cell one whose echo is ignored (30 s after a push)?
  \* bounds and history
  edits, left,
  want,      \* the value of the tablet's last edit that the cloud has not taken
  raced      \* has a push of an earlier edit been accepted since?

fixed  == <<acting, owned>>
server == <<cloud, gone, events>>
pushes == <<instant, again, drain, manual, strays>>
vars == <<acting, owned, cloud, gone, local, device, rows, instant, again, drain, manual,
          strays, pull, recon, events, tracked, edits, left, want, raced>>

Cell(v, n) == [val |-> v, ver |-> n]
None       == -1
NoPush     == [pc |-> "idle", id |-> 0, val |-> 0, base |-> 0,
               answer |-> "none", ver |-> 0]
NoPull     == [pc |-> "idle", gone |-> FALSE, cell |-> Cell(0, 0), queued |-> FALSE,
               late |-> FALSE]
Payload    == [gone |-> gone, cell |-> cloud]
Active     == {r \in rows : ~r.parked}
Row(rs, n) == [id |-> CHOOSE i \in 1..(Cardinality(rs) + 3) :
                        i \notin {drain.id, manual.id} /\ \A r \in rs : r.id # i,
               base |-> n, strikes |-> 0, parked |-> FALSE, orphan |-> FALSE]
Emit(c)    == IF "event" \in acting THEN Append(events, c) ELSE events
Misfortune == left.budget > 0 /\ left' = [left EXCEPT !.budget = @ - 1]
Asked      == left.asks > 0 /\ left' = [left EXCEPT !.asks = @ - 1]

Init ==
  /\ acting \in Actors /\ owned \in BOOLEAN /\ cloud = Cell(0, 0) /\ gone = FALSE
  /\ local = Cell(0, 0) /\ device = TRUE /\ rows = {} /\ instant = NoPush /\ again = FALSE
  /\ drain = NoPush /\ manual = NoPush /\ strays = {} /\ pull = NoPull /\ recon = {}
  /\ events = <<>> /\ tracked = FALSE
  /\ edits = 0 /\ left = [budget |-> Budget, asks |-> Asks] /\ want = None /\ raced = FALSE

-----------------------------------------------------------------------------
(* The edit and its instant push *)

\* The version an instant push builds on: the lowest of the queue, parked rows
\* included, or the one before the last edit when the queue has none.
Base(rs, n) ==
  IF rs = {} THEN n - 1
  ELSE CHOOSE b \in {r.base : r \in rs} : \A r \in rs : b <= r.base

Push(cell, rs) ==
  [NoPush EXCEPT !.pc = "sent", !.val = cell.val, !.base = Base(rs, cell.ver)]

\* Bug: an edit during a push is left to the push that follows.
QueuedWhenIdle(n) == IF instant.pc = "idle" THEN rows \cup {Row(rows, n)} ELSE rows

\* The queue after an edit of version n of the cell.
Queued(n) == rows \cup {Row(rows, n)}

\* POST /api/l2/cell: cell and queue row in one transaction, then the push queue.
Edit ==
  /\ device /\ edits < MaxEdits /\ Cardinality(rows) < MaxRows
  /\ \E v \in {0, edits + 1} \ {local.val} :
       local' = Cell(v, local.ver + 1) /\ want' = v
  /\ rows' = Queued(local.ver)
  /\ IF instant.pc = "idle" THEN instant' = Push(local', rows') /\ UNCHANGED again
                            ELSE again' = TRUE /\ UNCHANGED instant
  /\ edits' = edits + 1 /\ raced' = FALSE
  /\ pull' = [pull EXCEPT !.late = pull.pc = "merging"]
  /\ UNCHANGED <<fixed, server, device, drain, manual, strays, recon, tracked, left>>

\* The push has ended; a noted edit starts the next one.
Ended ==
  IF again THEN instant' = Push(local, rows') /\ again' = FALSE
           ELSE instant' = NoPush /\ UNCHANGED again

\* An acceptance drops every row of the cell, a conflict rebases every row with a
\* strike, any other answer leaves the queue to the drain.
InstantAnswer ==
  /\ instant.pc = "answered"
  /\ rows' = CASE instant.answer = "accepted" -> {}
               [] instant.answer = "conflict" ->
                    {[r EXCEPT !.base = instant.ver, !.strikes = @ + 1] : r \in rows}
               [] OTHER -> rows
  /\ tracked' = (tracked \/ instant.answer = "accepted")
  /\ raced' = (raced \/ (instant.answer = "accepted" /\ want # None))
  /\ Ended
  /\ UNCHANGED <<fixed, server, local, device, drain, manual, strays, pull, recon, edits, left,
                 want>>

-----------------------------------------------------------------------------
(* The background drain *)

\* The row kept for a cell: the lowest version, any of them on a tie.
Lowest(rs) == {r \in rs : \A s \in rs : r.base <= s.base}

\* The push of row p.
PushOf(p) == [NoPush EXCEPT !.pc = "sent", !.id = p.id, !.val = local.val, !.base = p.base]

\* Park the rows at the cap; of the others keep one and push the cell's value.
DrainSend ==
  /\ drain.pc = "idle" /\ Active # {}
  /\ LET live == {r \in Active : r.strikes < Cap}
         kept == {r \in rows : r.parked} \cup {[r EXCEPT !.parked = TRUE] : r \in Active \ live}
     IN IF live = {} THEN rows' = kept /\ UNCHANGED drain
        ELSE \E p \in Lowest(live) :
               /\ rows' = kept \cup {p}
               /\ drain' = PushOf(p)
  /\ UNCHANGED <<fixed, server, local, device, instant, again, manual, strays, pull, recon,
                 tracked, edits, left, want, raced>>

\* Bug: a removal is taken for an outage.
PatientVerdict(r) ==
  CASE drain.answer = "conflict" /\ ~r.parked ->
         [r EXCEPT !.base = drain.ver, !.strikes = @ + 1]
    [] drain.answer = "refused" /\ r.id = drain.id -> [r EXCEPT !.strikes = @ + 1]
    [] OTHER -> r

\* What an answer other than acceptance makes of row r: a conflict rebases the
\* cell's rows with a strike, a removal (403, 404, 410) orphans the row pushed, any
\* other 4xx strikes it, and an outage leaves it alone.
Verdict(r) ==
  CASE drain.answer = "conflict" /\ ~r.parked ->
         [r EXCEPT !.base = drain.ver, !.strikes = @ + 1]
    [] drain.answer = "gone" /\ r.id = drain.id ->
         [r EXCEPT !.parked = TRUE, !.orphan = TRUE, !.strikes = 0]
    [] drain.answer = "refused" /\ r.id = drain.id -> [r EXCEPT !.strikes = @ + 1]
    [] OTHER -> r

DrainAnswer ==
  /\ drain.pc = "answered"
  /\ rows' = IF drain.answer = "accepted" THEN {r \in rows : r.parked}
                                          ELSE {Verdict(r) : r \in rows}
  /\ raced' = (raced \/ (drain.answer = "accepted" /\ want # None))
  /\ drain' = NoPush
  /\ UNCHANGED <<fixed, server, local, device, instant, again, manual, strays, pull, recon,
                 tracked, edits, left, want>>

-----------------------------------------------------------------------------
(* The operator *)

\* POST /api/cloud/sync-l2: like the drain, but nothing is parked, and a row at its
\* cap goes out too.
ManualSend ==
  /\ "manual" \in acting /\ manual.pc = "idle" /\ Active # {} /\ Asked
  /\ \E p \in Lowest(Active) :
       rows' = {r \in rows : r.parked} \cup {p} /\ manual' = PushOf(p)
  /\ UNCHANGED <<fixed, server, local, device, instant, again, drain, strays, pull, recon,
                 tracked, edits, want, raced>>

\* A conflict rebases the parked rows too, and a removal is a strike, if it is not
\* a 403.
ManualVerdict(r) ==
  CASE manual.answer = "conflict" -> {[r EXCEPT !.base = manual.ver, !.strikes = @ + 1]}
    [] manual.answer = "refused" /\ r.id = manual.id -> {[r EXCEPT !.strikes = @ + 1]}
    [] manual.answer = "gone" /\ r.id = manual.id -> {r, [r EXCEPT !.strikes = @ + 1]}
    [] OTHER -> {r}

\* An acceptance drops the cell's parked rows as well.
ManualAnswer ==
  /\ manual.pc = "answered"
  /\ IF manual.answer = "accepted" THEN rows' = {}
     ELSE \E f \in [rows -> UNION {ManualVerdict(r) : r \in rows}] :
            (\A r \in rows : f[r] \in ManualVerdict(r)) /\ rows' = {f[r] : r \in rows}
  /\ tracked' = (tracked \/ manual.answer = "accepted")
  /\ raced' = (raced \/ (manual.answer = "accepted" /\ want # None))
  /\ manual' = NoPush
  /\ UNCHANGED <<fixed, server, local, device, instant, again, drain, strays, pull, recon,
                 edits, left, want>>

\* Sync Center's Retry, and POST /api/cloud/unpark, which leaves the orphan mark.
Release(r, released) ==
  /\ Asked /\ rows' = (rows \ {r}) \cup {released}
  /\ UNCHANGED <<fixed, server, local, device, pushes, pull, recon, tracked, edits, want,
                 raced>>

Retry(r)  == Release(r, [r EXCEPT !.parked = FALSE, !.strikes = 0, !.orphan = FALSE])
Unpark(r) == r.parked /\ Release(r, [r EXCEPT !.parked = FALSE, !.strikes = 0])

\* Discard: with the last row the operator gives up the edit.
Discard(r) ==
  /\ Asked /\ rows' = rows \ {r}
  /\ IF rows' = {} THEN want' = None /\ raced' = FALSE ELSE UNCHANGED <<want, raced>>
  /\ UNCHANGED <<fixed, server, local, device, pushes, pull, recon, tracked, edits>>

-----------------------------------------------------------------------------
(* The cloud *)

Takes(p) == ~gone /\ (p.val = cloud.val \/ p.base = cloud.ver)

\* The cloud takes what it can of push p and says what became of it.
Receive(p) ==
  /\ IF Takes(p) /\ p.val # cloud.val
     THEN /\ cloud' = Cell(p.val, cloud.ver + 1) /\ events' = Emit(cloud')
     ELSE UNCHANGED <<cloud, events>>
  /\ IF Takes(p) /\ p.val = want THEN want' = None /\ raced' = FALSE
                                 ELSE UNCHANGED <<want, raced>>
  /\ UNCHANGED <<fixed, gone, local, device, rows, pull, recon, tracked, edits>>

Answered(p) ==
  [p EXCEPT !.pc = "answered", !.ver = cloud.ver,
            !.answer = IF gone THEN "gone" ELSE IF Takes(p) THEN "accepted" ELSE "conflict"]

ReceiveInstant ==
  /\ instant.pc = "sent" /\ Receive(instant) /\ instant' = Answered(instant)
  /\ UNCHANGED <<again, drain, manual, strays, left>>

ReceiveDrain ==
  /\ drain.pc = "sent" /\ Receive(drain) /\ drain' = Answered(drain)
  /\ UNCHANGED <<instant, again, manual, strays, left>>

ReceiveManual ==
  /\ manual.pc = "sent" /\ Receive(manual) /\ manual' = Answered(manual)
  /\ UNCHANGED <<instant, again, drain, strays, left>>

ReceiveStray ==
  \E p \in strays :
    /\ Receive(p) /\ strays' = strays \ {p}
    /\ UNCHANGED <<instant, again, drain, manual, left>>

\* A call fails: refused before it is looked at, or lost on its way there or back;
\* one that timed out on its way may still arrive.
FailedCalls(p, q) ==
  /\ p.pc # "idle" /\ Misfortune
  /\ \E a \in {"refused", "down"} : q = [p EXCEPT !.pc = "answered", !.answer = a]
  /\ strays' \in {strays} \cup (IF p.pc = "sent" THEN {strays \cup {p}} ELSE {})

InstantFails ==
  /\ FailedCalls(instant, instant')
  /\ UNCHANGED <<fixed, server, local, device, rows, again, drain, manual, pull, recon,
                 tracked, edits, want, raced>>

DrainFails ==
  /\ FailedCalls(drain, drain')
  /\ UNCHANGED <<fixed, server, local, device, rows, instant, again, manual, pull, recon,
                 tracked, edits, want, raced>>

ManualFails ==
  /\ FailedCalls(manual, manual')
  /\ UNCHANGED <<fixed, server, local, device, rows, instant, again, drain, pull, recon,
                 tracked, edits, want, raced>>

\* Another tablet, or a coordinator on the cloud's page.
CloudEdit ==
  /\ ~gone /\ edits < MaxEdits /\ edits' = edits + 1
  /\ \E v \in {0, edits + 1} \ {cloud.val} : cloud' = Cell(v, cloud.ver + 1)
  /\ events' = Emit(cloud')
  /\ UNCHANGED <<fixed, gone, local, device, rows, pushes, pull, recon, tracked, left,
                 want, raced>>

RemoveDevice ==
  /\ ~gone /\ Misfortune /\ gone' = TRUE
  /\ UNCHANGED <<fixed, cloud, local, device, rows, pushes, pull, recon, events, tracked,
                 edits, want, raced>>

RestoreDevice ==
  /\ gone /\ gone' = FALSE
  /\ UNCHANGED <<fixed, cloud, local, device, rows, pushes, pull, recon, events, tracked,
                 edits, left, want, raced>>

-----------------------------------------------------------------------------
(* What comes down *)

\* The cell becomes c; an unsent edit it held is undone.
Write(c) ==
  /\ local' = c
  /\ IF c.val = local.val THEN UNCHANGED <<want, raced>> ELSE want' = None /\ raced' = FALSE

Keep == UNCHANGED <<local, want, raced>>

\* The pull starts when no row is active; parked rows do not hold it up.
PullStart ==
  /\ "pull" \in acting /\ pull.pc = "idle" /\ Active = {} /\ pull' = [NoPull EXCEPT !.pc = "asked"]
  /\ UNCHANGED <<fixed, server, local, device, rows, pushes, recon, tracked, edits, left,
                 want, raced>>

\* The cloud answers with its cells.
PullServed ==
  /\ pull.pc = "asked"
  /\ pull' = [pull EXCEPT !.pc = "served", !.gone = gone, !.cell = cloud]
  /\ UNCHANGED <<fixed, server, local, device, rows, pushes, recon, tracked, edits, left,
                 want, raced>>

\* Bug: only active rows protect their cell.
ActiveProtects == Active # {}

\* queuedKeys: rows of every kind protect their cell.
Protected == rows # {}

\* The answer is there: note the cells with a row, then wait for the backup.
PullRead ==
  /\ pull.pc = "served"
  /\ pull' = [pull EXCEPT !.pc = "merging", !.queued = Protected]
  /\ UNCHANGED <<fixed, server, local, device, rows, pushes, recon, tracked, edits, left,
                 want, raced>>

\* May the cell of the pull take the place of the local one?  Between equal
\* versions, and over a blank, the two clocks decide.
Lands(c, later) ==
  /\ c.ver > 0 /\ (owned \/ c.val # 0)
  /\ \/ local.val = 0 /\ later
     \/ /\ local.val # 0 /\ ~pull.queued /\ c.val # local.val
        /\ c.ver > local.ver \/ (c.ver = local.ver /\ later)

\* The merge in one transaction, of a payload with the device: its orphaned rows
\* are queued again.
Merge ==
  /\ pull.pc = "merging" /\ ~pull.gone
  /\ pull' = NoPull /\ device' = TRUE
  /\ rows' = {IF r.orphan THEN [r EXCEPT !.orphan = FALSE, !.parked = FALSE, !.strikes = 0]
                          ELSE r : r \in rows}
  /\ \E later \in BOOLEAN :
       IF (local.ver = 0 /\ pull.cell.ver > 0) \/ Lands(pull.cell, later)
       THEN Write(pull.cell) ELSE Keep
  /\ UNCHANGED <<fixed, server, pushes, recon, tracked, edits, left>>

\* Bug: the queue is not looked at before a device is deleted.
HastyPrune ==
  /\ pull.pc = "merging" /\ pull.gone
  /\ pull' = NoPull
  /\ \/ local.val = 0 /\ device' = FALSE /\ Write(Cell(0, 0))
     \/ UNCHANGED device /\ Keep
  /\ UNCHANGED <<fixed, server, rows, pushes, recon, tracked, edits, left>>

\* Of a payload without the device: when the cloud calls it complete, a device with
\* nothing in it and nothing queued is deleted.
Prune ==
  /\ pull.pc = "merging" /\ pull.gone
  /\ pull' = NoPull
  /\ \/ local.val = 0 /\ rows = {} /\ device' = FALSE /\ Write(Cell(0, 0))
     \/ UNCHANGED device /\ Keep
  /\ UNCHANGED <<fixed, server, rows, pushes, recon, tracked, edits, left>>

\* The fetch or the backup fails.
PullFails ==
  /\ pull.pc # "idle" /\ pull' = NoPull
  /\ UNCHANGED <<fixed, server, local, device, rows, pushes, recon, tracked, edits, left,
                 want, raced>>

\* handleL2CellUpdated: a field's cell is filled but never overwritten by an event.
Event ==
  /\ events # <<>> /\ events' = Tail(events)
  /\ LET e == Head(events)
     IN IF device /\ ~tracked /\ (local.ver = 0 \/ owned \/ (local.val = 0 /\ e.val # 0))
           /\ (local.ver > 0 => e.val # local.val)
        THEN Write(e) ELSE Keep
  /\ UNCHANGED <<fixed, cloud, gone, device, rows, pushes, pull, recon, tracked, edits,
                 left>>

LoseEvent ==
  /\ events # <<>> /\ Misfortune /\ events' = Tail(events)
  /\ UNCHANGED <<fixed, cloud, gone, local, device, rows, pushes, pull, recon, tracked,
                 edits, want, raced>>

Expire ==
  /\ tracked /\ tracked' = FALSE
  /\ UNCHANGED <<fixed, server, local, device, rows, pushes, pull, recon, edits, left,
                 want, raced>>

\* reconcileOrphanedL2Cells fetches ...
ReconFetch ==
  /\ "recon" \in acting /\ recon = {} /\ recon' = {Payload}
  /\ UNCHANGED <<fixed, server, local, device, rows, pushes, pull, tracked, edits, left,
                 want, raced>>

\* Bug: a blank that the cloud lists is not missing.
Unlisted(p) == p.gone \/ p.cell.ver = 0

Missing(p) == p.gone \/ p.cell.val = 0

\* ... and queues a filled cell of the field's that has no row and that the cloud
\* has not, or has blank; another value on the cloud is left alone.
ReconAct ==
  /\ \E p \in recon :
       IF device /\ local.val # 0 /\ ~owned /\ rows = {} /\ Missing(p)
       THEN rows' = {Row({}, IF p.gone THEN 0 ELSE p.cell.ver)} ELSE UNCHANGED rows
  /\ recon' = {}
  /\ UNCHANGED <<fixed, server, local, device, pushes, pull, tracked, edits, left, want, raced>>

\* The tool restarts: what was in memory is gone, requests under way may arrive.
Crash ==
  /\ Misfortune
  /\ instant' = NoPush /\ again' = FALSE /\ drain' = NoPush /\ manual' = NoPush
  /\ strays' = strays \cup {p \in {instant, drain, manual} : p.pc = "sent"}
  /\ pull' = NoPull /\ recon' = {} /\ tracked' = FALSE
  /\ UNCHANGED <<fixed, server, local, device, rows, edits, want, raced>>

-----------------------------------------------------------------------------
Next == \/ Edit \/ InstantAnswer \/ DrainSend \/ DrainAnswer
        \/ ManualSend \/ ManualAnswer \/ \E r \in rows : Retry(r) \/ Unpark(r) \/ Discard(r)
        \/ ReceiveInstant \/ ReceiveDrain \/ ReceiveManual \/ ReceiveStray
        \/ InstantFails \/ DrainFails \/ ManualFails
        \/ CloudEdit \/ RemoveDevice \/ RestoreDevice
        \/ PullStart \/ PullServed \/ PullRead \/ Merge \/ Prune \/ PullFails
        \/ Event \/ LoseEvent \/ Expire \/ ReconFetch \/ ReconAct \/ Crash

\* The background tick and the reconciler come again and again, and a call ends by
\* its timeout at the latest.
Fairness ==
  /\ WF_vars(DrainSend) /\ WF_vars(DrainAnswer) /\ WF_vars(ReceiveDrain)
  /\ WF_vars(ReceiveInstant) /\ WF_vars(InstantAnswer)
  /\ WF_vars(ReconFetch) /\ WF_vars(ReconAct)

Spec == Init /\ [][Next]_vars /\ Fairness
-----------------------------------------------------------------------------
CellType == [val : 0..MaxEdits, ver : Nat]
RowType  == [id : 1..(MaxRows + 3), base : Nat, strikes : Nat, parked : BOOLEAN, orphan : BOOLEAN]
PushType ==
  [pc : {"idle", "sent", "answered"}, id : 0..(MaxRows + 3), val : 0..MaxEdits, base : Int,
   answer : {"none", "accepted", "conflict", "gone", "refused", "down"}, ver : Nat]
PullType == [pc : {"idle", "asked", "served", "merging"}, gone : BOOLEAN, cell : CellType,
             queued : BOOLEAN, late : BOOLEAN]

\* Rows have an id of their own and an existing cell.
RowsOK ==
  /\ rows \subseteq RowType /\ \A r, s \in rows : r.id = s.id => r = s
  /\ rows # {} => device /\ local.ver > 0

PushesOK ==
  /\ {instant, drain, manual} \cup strays \subseteq PushType
  /\ again \in BOOLEAN /\ (again => instant.pc # "idle")

TypeOK ==
  /\ acting \in Actors /\ owned \in BOOLEAN
  /\ cloud \in CellType /\ gone \in BOOLEAN /\ local \in CellType /\ device \in BOOLEAN
  /\ RowsOK /\ PushesOK
  /\ pull \in PullType /\ recon \subseteq [gone : BOOLEAN, cell : CellType]
  /\ events \in Seq(CellType)
  /\ tracked \in BOOLEAN /\ left \in [budget : 0..Budget, asks : 0..Asks] /\ edits \in 0..MaxEdits
  /\ want \in {None} \cup 0..MaxEdits /\ raced \in BOOLEAN

\* Safety: an edit that the cloud has not taken has a queue row, unless the answer
\* to a push of an earlier edit has taken its row along.
KeptUnlessRaced == want # None => rows # {} \/ raced

\* Action property: a value that the cloud has not taken is replaced from below only
\* by a pull it was too late for, by the author of the column, or after its row went.
EditsStand ==
  [][(want \notin {None, 0} /\ local' # local /\ edits' = edits)
        => \/ pull.late \/ raced
           \/ owned /\ events' # events]_vars

\* Liveness: rebasing and striking end; every row is delivered or parked.
QueueDrains == <>[](Active = {})

\* Liveness: what the tablet has and the cloud has blank is queued again, as long as
\* the device is there.
NothingMissing ==
  <>[]("recon" \in acting /\ ~owned /\ ~gone /\ local.val # 0 => cloud.val # 0 \/ rows # {})
=============================================================================
