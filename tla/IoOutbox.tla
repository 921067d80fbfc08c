------------------------------ MODULE IoOutbox ------------------------------
(***************************************************************************)
(* The durable upload queue of I/O check results, SQLite table PendingSyncs *)
(* and everything that moves a row of it: the route handlers that record   *)
(* work, the coalescing trigger, the instant drain of one IO               *)
(* (pending-sync-utils.ts), the 10 s background drain with its B7          *)
(* reconcile and its retry cap (auto-sync.ts), the orphan reconciler       *)
(* (result-reconciler.ts), the delta pull (delta-sync.ts) and the          *)
(* operator's queue actions (queue-inspector.ts).                          *)
(*                                                                         *)
(* JavaScript runs to completion between awaits, so an action is the code  *)
(* between two of them.  What was read before an await (the row sent, the  *)
(* batch, B7's rows and cloud view) is a snapshot, and the table may have  *)
(* changed when it is used.  The cloud is external: it accepts a row whose *)
(* base version is the version it holds, and then increments that version. *)
(* All IOs belong to one subsystem.                                        *)
(***************************************************************************)
EXTENDS Naturals, FiniteSets, Sequences

CONSTANTS
  Io,          \* the I/O points of the subsystem
  Background,  \* the sender that is not an instant drain: pushToCloud
  Ops,         \* the operations the operators perform, a subset of Op
  Puts,        \* the results among them that they also write through PUT /api/ios/:id
  Spare,       \* the IOs for which the cloud refuses a Pass for good
  GoneAs,      \* how the cloud answers for a removed IO: "status" or "code"
  B7Strikes,   \* strikes from which B7 looks at an active row (3)
  Cap,         \* IO_PENDING_RETRY_CAP (10); version conflicts get twice as many
  Tolerance,   \* NETWORK_FAILURE_BATCH_TOLERANCE (3)
  Reconciling, \* whether the orphan reconciler runs, or is left out of an instance
  MaxOps,      \* bound: operations of the operators
  MaxRows,     \* bound: rows ever inserted, those of the reconciler included
  Budget       \* bound: how often each misfortune and each side event happens

None == "none"

MetaOps   == {"Punchlist"}           \* `Punchlist Updated`, `Dependencies Updated`
ResultOps == {"Passed", "Failed", "Cleared"}
Op        == MetaOps \cup ResultOps \cup {"Comment"}
Result    == {None, "Passed", "Failed"}
Stored    == Result \cup {"Cleared"}  \* Ios.Result: a PUT writes the word itself

ASSUME IoOutboxAssumption ==
  /\ Ops \subseteq Op /\ Puts \subseteq Ops \cap ResultOps /\ Spare \subseteq Io /\ GoneAs \in {"status", "code"}
  /\ B7Strikes \in Nat /\ Cap \in Nat \ {0} /\ Tolerance \in Nat
  /\ MaxOps \in Nat /\ MaxRows \in Nat /\ MaxOps <= MaxRows /\ Reconciling \in BOOLEAN
  /\ Background \notin Io
  /\ Budget \in [{"network", "crash", "lost", "operator", "cloud"} -> Nat]

VARIABLES
  io,      \* io[i]: the row of i in table Ios, with its latest TestHistories entry
  queue,   \* the rows of table PendingSyncs
  nextId,  \* its AUTOINCREMENT counter, also the clock that stamps the work
  cloud,   \* cloud[i]: what the cloud holds for i
  unseen,  \* the IOs with a cloud change no delta has fetched yet
  delta,   \* the delta pull: idle, or holding the changes it fetched
  want,    \* the IOs whose instant drain has its dirty bit set
  call,    \* call[s]: the push of sender s, an instant drain or the Background
  late,    \* pushes the client has given up on, which may still arrive
  bg,      \* pushToCloud: where it is, and its snapshots
  rec,     \* the orphan reconciler: idle, or holding the cloud payload it fetched
  left,    \* what remains of Budget
  log,     \* history: the operation recorded as row n
  settled, \* history: the rows whose value the cloud is known to have held
  excused, \* history: the rows never inserted, or discarded by an operator
  ruled    \* history: the rows the cloud has refused, or whose IO it has deleted

vars == <<io, queue, nextId, cloud, unseen, delta, want, call, late, bg, rec,
          left, log, settled, excused, ruled>>

-----------------------------------------------------------------------------
(* The table PendingSyncs *)

Row(id, i, op, note, base) ==
  [id |-> id, io |-> i, op |-> op, note |-> note, base |-> base,
   strikes |-> 0, dead |-> FALSE, orphaned |-> FALSE, resolved |-> FALSE, err |-> None]

\* What a sender keeps of a row across its awaits, and what it sends.
Payload(r) == [id |-> r.id, io |-> r.io, op |-> r.op, note |-> r.note, base |-> r.base]

\* Trigger trg_pendingsyncs_coalesce: inserting r deletes the active row x.
Coalesced(x, r) ==
  /\ x.io = r.io /\ ~x.dead /\ x.id < r.id
  /\ IF r.op \in MetaOps THEN x.op = r.op ELSE x.op \notin MetaOps

Insert(q, new) ==
  LET all == q \cup new
  IN  {x \in all : \A r \in new : ~Coalesced(x, r)}

\* A definition whose comment begins with `Bug:` is a plausible mistake in the
\* definition that follows it.  Nothing uses it: putting it in that definition's
\* place shows that a property notices the mistake.

\* Bug: a parked row does not count as work of its IO.
UnparkedRowsOf(q, i) == {r \in q : r.io = i /\ ~r.dead}

RowsOf(q, i) == {r \in q : r.io = i}

\* Bug: the drain picks up parked rows.
ParkedToo(q, i) == RowsOf(q, i)

Active(q, i) == {r \in RowsOf(q, i) : ~r.dead}
Oldest(rows) == CHOOSE r \in rows : \A x \in rows : r.id <= x.id

\* Bug: a released row stays hidden.
HiddenRelease(r) == [r EXCEPT !.dead = FALSE, !.orphaned = FALSE, !.strikes = 0, !.err = None]

\* deadLetter, orphan, and the release of a row by Retry or by a reappearance.
DeadLetter(r) == [r EXCEPT !.dead = TRUE, !.err = "rejected"]
Orphan(r)     == [r EXCEPT !.dead = TRUE, !.orphaned = TRUE, !.resolved = TRUE,
                           !.strikes = 0, !.err = "removed"]
Release(r)    == [r EXCEPT !.dead = FALSE, !.orphaned = FALSE, !.resolved = FALSE,
                           !.strikes = 0, !.err = None]

\* Bug: an outage counts as a failed attempt (before 2026-06-04 it did).
StrikingTransient(r) == [r EXCEPT !.err = "network", !.strikes = @ + 1]

\* Bug: a version conflict does not count.
UncountedStrike(r) == [r EXCEPT !.err = "conflict"]

\* LastError and RetryCount after a transient failure, and after a verdict.
Transient(r) == [r EXCEPT !.err = "network"]
Strike(r)    == [r EXCEPT !.err = "conflict", !.strikes = @ + 1]

Amend(q, ids, Change(_)) == {IF r.id \in ids THEN Change(r) ELSE r : r \in q}
Delete(q, ids)           == {r \in q : r.id \notin ids}

\* What a result means: the cloud holds a clear as NULL, and B7 compares this way.
Norm(op) == IF op = "Cleared" THEN None ELSE op

-----------------------------------------------------------------------------
(* The pushes in flight, and the states of the other actors *)

Idle              == [pc |-> "idle"]
Sent(r)            == [pc |-> "sent", row |-> Payload(r)]
Answered(r, reply) == [pc |-> "answered", row |-> r, reply |-> reply]
Fetched(view)     == [pc |-> "fetched", view |-> view]

Sender == Io \cup {Background}

\* pushToCloud holds the rows it looked at before its last await.
BgIdle           == [pc |-> "idle"]
BgB7(rows)       == [pc |-> "b7", rows |-> rows]
BgB7Read(rows, view) == [pc |-> "b7read", rows |-> rows, view |-> view]
BgDrain(batch, blocked, fails) ==
  [pc |-> "drain", batch |-> batch, blocked |-> blocked, fails |-> fails]

Spend(what) == left[what] > 0 /\ left' = [left EXCEPT ![what] = @ - 1]

Fresh == [present |-> TRUE, result |-> None, comment |-> 0, version |-> 0,
          removed |-> FALSE, hist |-> None, histAt |-> 0]

Init ==
  /\ cloud = [i \in Io |-> [exists |-> TRUE, result |-> None, comment |-> 0,
                            version |-> 0, at |-> 0]]
  /\ io = [i \in Io |-> Fresh]
  /\ queue = {} /\ nextId = 1
  /\ unseen = {} /\ want = {} /\ late = {}
  /\ call = [s \in Sender |-> Idle]
  /\ bg = BgIdle /\ rec = Idle /\ delta = Idle
  /\ left = Budget
  /\ log = {} /\ settled = {} /\ excused = {} /\ ruled = {}

-----------------------------------------------------------------------------
(* The operators *)

\* The loop of drainPendingSyncsForIo: send the oldest active row of table q.
Resume(i, q) ==
  call' = [call EXCEPT ![i] = IF Active(q, i) = {} THEN Idle ELSE Sent(Oldest(Active(q, i)))]

\* PushQueue: a drain that is running gets its dirty bit, otherwise one starts.
EnqueueSyncPush(i, q) ==
  IF call[i] = Idle THEN Resume(i, q) /\ UNCHANGED want
                    ELSE want' = want \cup {i} /\ UNCHANGED call

\* The part the route handlers share: the Ios transaction has committed, and the
\* queue row follows in a statement of its own, which a crash or an error skips.
Record(i, op, note, newIo) ==
  /\ io[i].present /\ op \in Ops /\ nextId <= MaxOps
  /\ io' = [io EXCEPT ![i] = [newIo EXCEPT !.version = io[i].version + 1]]
  /\ nextId' = nextId + 1
  /\ log' = log \cup {[id |-> nextId, io |-> i, op |-> op]}
  /\ \/ /\ queue' = Insert(queue, {Row(nextId, i, op, note, io[i].version)})
        /\ EnqueueSyncPush(i, queue')
        /\ UNCHANGED <<excused, left>>
     \/ /\ Spend("lost")
        /\ excused' = excused \cup {nextId}
        /\ UNCHANGED <<queue, want, call>>
  /\ UNCHANGED <<cloud, unseen, delta, late, bg, rec, settled, ruled>>

\* POST /api/ios/:id/test, without a note.
Test(i, result) ==
  Record(i, result, 0, [io[i] EXCEPT !.result = result, !.comment = 0,
                                     !.hist = result, !.histAt = nextId])

\* POST /api/ios/:id/reset.
Reset(i) ==
  /\ io[i].result # None \/ io[i].comment # 0
  /\ Record(i, "Cleared", 0, [io[i] EXCEPT !.result = None, !.comment = 0,
                                           !.hist = "Cleared", !.histAt = nextId])

\* The comments a PUT /api/ios/:id may leave: the one there is, another, or none.
Notes(i) == {io[i].comment} \cup {n \in {0, nextId} : "Comment" \in Ops}

\* With a result other than the stored one it is stored as it is, Cleared included.
Put(i, result) ==
  /\ result \in Puts /\ result # io[i].result
  /\ \E note \in Notes(i) :
       Record(i, result, note, [io[i] EXCEPT !.result = result, !.comment = note,
                                             !.hist = result, !.histAt = nextId])

\* Without one, or with the stored one, it is a comment: set, changed or removed.
\* A request that leaves it out counts as a removal, but removes nothing.
Commented(i, note) ==
  [io[i] EXCEPT !.comment = note, !.histAt = nextId,
                !.hist = IF io[i].result = None THEN "Updated" ELSE io[i].result]

Comment(i) ==
  \E note \in Notes(i) : /\ note # io[i].comment \/ note # 0
                         /\ Record(i, "Comment", note, Commented(i, note))

\* A request that changes nothing is not queued, but it counts as a version.
Touch(i) ==
  /\ io[i].present /\ "Comment" \in Ops /\ nextId <= MaxOps
  /\ io' = [io EXCEPT ![i] = [Commented(i, io[i].comment) EXCEPT !.version = @ + 1]]
  /\ nextId' = nextId + 1
  /\ excused' = excused \cup {nextId}
  /\ UNCHANGED <<queue, cloud, unseen, delta, want, call, late, bg, rec, left, log, settled, ruled>>

\* PUT /api/ios/:id/punchlist: the metadata itself is not told apart.
Punchlist(i) == Record(i, "Punchlist", io[i].comment, io[i])

\* Sync Center: retry or discard one row.
Retry(r) ==
  /\ r \in queue
  /\ Spend("operator")
  /\ queue' = Amend(queue, {r.id}, Release)
  /\ UNCHANGED <<io, nextId, cloud, unseen, delta, want, call, late, bg, rec, log, settled, excused, ruled>>

Discard(r) ==
  /\ r \in queue
  /\ Spend("operator")
  /\ queue' = Delete(queue, {r.id})
  /\ excused' = excused \cup {r.id}
  /\ UNCHANGED <<io, nextId, cloud, unseen, delta, want, call, late, bg, rec, log, settled, ruled>>

-----------------------------------------------------------------------------
(* The cloud and the network *)

Verdict(r) ==
  IF ~cloud[r.io].exists THEN GoneAs
  ELSE IF r.op = "Passed" /\ r.io \in Spare THEN "refused"
  ELSE IF r.base # cloud[r.io].version THEN "conflict" ELSE "ok"

Landed(c, r) ==
  [c EXCEPT !.version = @ + 1,
            !.result  = IF r.op \in ResultOps THEN Norm(r.op) ELSE @,
            !.at      = IF r.op \in ResultOps THEN r.id ELSE @,
            !.comment = IF r.op \in MetaOps THEN @ ELSE r.note]

\* The cloud processes r: an accepted row changes the IO and makes a delta.
Arrive(r) ==
  IF Verdict(r) = "ok"
    THEN /\ cloud' = [cloud EXCEPT ![r.io] = Landed(@, r)]
         /\ unseen' = unseen \cup {r.io}
         /\ settled' = settled \cup {r.id}
    ELSE UNCHANGED <<cloud, unseen, settled>>

Answer(s) ==
  /\ call[s].pc = "sent"
  /\ Arrive(call[s].row)
  /\ call' = [call EXCEPT ![s] = Answered(@.row, Verdict(@.row))]
  /\ ruled' = ruled \cup {r.id : r \in {x \in {call[s].row} : Verdict(x) # "ok"}}
  /\ UNCHANGED <<io, queue, nextId, delta, want, late, bg, rec, left, log, excused>>

\* A push that fails at the network level: offline, timeout, 401, 403, 429, 5xx.
\* The request, or only its answer, is lost; the request may also arrive later.
Lose(s) ==
  /\ \/ call[s].pc = "sent" /\ late' \in {late, late \cup {call[s].row}}
     \/ call[s].pc = "answered" /\ call[s].reply # "network" /\ late' = late
  /\ Spend("network")
  /\ call' = [call EXCEPT ![s] = Answered(@.row, "network")]
  /\ UNCHANGED <<io, queue, nextId, cloud, unseen, delta, want, bg, rec, log, settled, excused, ruled>>

ArriveLate(r) ==
  /\ r \in late
  /\ late' = late \ {r}
  /\ Arrive(r)
  /\ UNCHANGED <<io, queue, nextId, delta, want, call, bg, rec, left, log, excused, ruled>>

\* Somebody edits another field of the IO on the cloud, deletes it or restores it.
CloudChange(i) ==
  /\ Spend("cloud")
  /\ cloud' \in {[cloud EXCEPT ![i].version = @ + 1], [cloud EXCEPT ![i].exists = ~@]}
  /\ unseen' = unseen \cup {i}
  /\ UNCHANGED <<io, queue, nextId, delta, want, call, late, bg, rec, log, settled, excused, ruled>>

-----------------------------------------------------------------------------
(* The instant drain of one IO: drainPendingSyncsForIo *)

\* A drain that returned starts over if its dirty bit is set.
Returned(i, q) ==
  /\ want' = want \ {i}
  /\ IF i \in want THEN Resume(i, q) ELSE call' = [call EXCEPT ![i] = Idle]

\* It goes on with the next row; finding none, it returns.
Continue(i, q) ==
  IF Active(q, i) = {} THEN Returned(i, q) ELSE Resume(i, q) /\ UNCHANGED want

\* repository.orphan also tombstones the IO of the row, if the row still exists.
Tombstone(id) ==
  io' = [i \in Io |-> IF \E r \in queue : r.id = id /\ r.io = i
                        THEN [io[i] EXCEPT !.removed = TRUE] ELSE io[i]]

InstantReply(i) ==
  /\ call[i].pc = "answered"
  /\ LET id == call[i].row.id
         reply == call[i].reply
     IN  \/ /\ reply = "ok"
            /\ queue' = Delete(queue, {id})
            /\ Continue(i, queue')
            /\ UNCHANGED io
         \/ /\ reply = "status"
            /\ queue' = Amend(queue, {id}, Orphan)
            /\ Tombstone(id)
            /\ Continue(i, queue')
         \/ /\ reply \in {"code", "refused"}   \* rejectionCode is not looked at
            /\ queue' = Amend(queue, {id}, DeadLetter)
            /\ Continue(i, queue')
            /\ UNCHANGED io
         \/ /\ reply \in {"conflict", "network"}
            /\ Returned(i, queue)
            /\ UNCHANGED <<queue, io>>
  /\ UNCHANGED <<nextId, cloud, unseen, delta, late, bg, rec, left, log, settled, excused, ruled>>

-----------------------------------------------------------------------------
(* The background drain: pushToCloud *)

\* The rows B7 looks at: version conflicts, parked or with enough strikes.
Conflicted == {r \in queue : /\ r.err = "conflict" /\ ~r.resolved /\ io[r.io].present
                             /\ r.dead \/ r.strikes >= B7Strikes}

\* The retry cap parks rows; it is doubled while LastError says updatedCount=0.
AtCap(r) == \/ r.err \notin {"conflict", None} /\ r.strikes >= Cap
            \/ r.err = "conflict" /\ r.strikes >= 2 * Cap

ParkAtCap(r) == IF ~r.dead /\ AtCap(r) THEN [r EXCEPT !.dead = TRUE] ELSE r

\* Bug: the run is over when its last row is sent, not when that is answered.
HastyGoOn(batch, blocked, fails) ==
  LET todo == {r \in batch : r.io \notin blocked /\ fails < Tolerance}
  IN  IF todo = {}
        THEN bg' = BgIdle /\ call' = [call EXCEPT ![Background] = Idle]
        ELSE /\ call' = [call EXCEPT ![Background] = Sent(Oldest(todo))]
             /\ bg' = IF todo = {Oldest(todo)} THEN BgIdle
                      ELSE BgDrain(todo \ {Oldest(todo)}, blocked, fails)

\* Send the next row of the batch that is not skipped, or end the run.  Skipped
\* are the IOs with a verdict against them and, after Tolerance network
\* failures, the rest of the subsystem.
GoOn(batch, blocked, fails) ==
  LET todo == {r \in batch : r.io \notin blocked /\ fails < Tolerance}
  IN  IF todo = {}
        THEN bg' = BgIdle /\ call' = [call EXCEPT ![Background] = Idle]
        ELSE /\ call' = [call EXCEPT ![Background] = Sent(Oldest(todo))]
             /\ bg' = BgDrain(todo \ {Oldest(todo)}, blocked, fails)

\* Park what is at its cap, then take the active rows of q as this run's batch.
CapAndDrain(q) ==
  /\ queue' = {ParkAtCap(r) : r \in q}
  /\ GoOn({Payload(r) : r \in {x \in queue' : ~x.dead}}, {}, 0)

\* isPushing lets one run at a time.  B7 has its turn when it has rows to look
\* at and two minutes have passed since the last time.
TickDrain ==
  /\ bg = BgIdle
  /\ CapAndDrain(queue)
  /\ UNCHANGED <<io, nextId, cloud, unseen, delta, want, late, rec, left, log, settled, excused, ruled>>

TickB7 ==
  /\ bg = BgIdle /\ Conflicted # {}
  /\ bg' = BgB7({Payload(r) : r \in Conflicted})
  /\ UNCHANGED <<io, queue, nextId, cloud, unseen, delta, want, call, late, rec, left, log, settled, excused, ruled>>

\* B7 fetches the subsystem from the cloud, or fails to and gives up this time.
B7Fetch ==
  /\ bg.pc = "b7"
  /\ \/ bg' = BgB7Read(bg.rows, cloud) /\ UNCHANGED <<queue, call, left>>
     \/ Spend("network") /\ CapAndDrain(queue)
  /\ UNCHANGED <<io, nextId, cloud, unseen, delta, want, late, rec, log, settled, excused, ruled>>

\* Is x a newer active row that carries the same field as r (isSupersededBySameKind)?
SupersededBy(r, x) ==
  /\ x.io = r.io /\ x.id > r.id /\ ~x.dead
  /\ x.op = "Comment" <=> r.op = "Comment"

LocalTruth(r) ==
  /\ io[r.io].present
  /\ IF r.op = "Comment" THEN io[r.io].comment = r.note
                           ELSE Norm(io[r.io].result) = Norm(r.op)

\* What B7 does with the row r it selected, given the cloud view it fetched.
Fate(r, view) ==
  CASE ~view[r.io].exists                      -> "skip"
    [] view[r.io].exists /\ view[r.io].result = Norm(r.op) -> "landed"
    [] OTHER -> IF \E x \in queue : SupersededBy(r, x) THEN "superseded"
                ELSE IF LocalTruth(r) THEN "rebase" ELSE "stale"

B7Act ==
  /\ bg.pc = "b7read"
  /\ LET With(fates) == {r.id : r \in {x \in bg.rows : Fate(x, bg.view) \in fates}}
         Rebase(r)   == [r EXCEPT !.base = bg.view[r.io].version, !.strikes = 0,
                                  !.dead = FALSE, !.err = "rebased"]
     IN  /\ CapAndDrain(Amend(Delete(queue, With({"landed", "superseded", "stale"})),
                              With({"rebase"}), Rebase))
         /\ settled' = settled \cup With({"landed"})
  /\ UNCHANGED <<io, nextId, cloud, unseen, delta, want, late, rec, left, log, excused, ruled>>

\* Bug: an accepted row takes every row of its IO with it.
AcceptAll(q, r) == {x \in q : x.io # r.io}

\* An accepted row takes the parked, unresolved rows of its IO with it.
Accept(q, r) == {x \in q : x.id # r.id /\ ~(x.io = r.io /\ x.dead /\ ~x.resolved)}

BgReply ==
  /\ bg.pc = "drain" /\ call[Background].pc = "answered"
  /\ LET r == call[Background].row
         reply == call[Background].reply
         Go(ios, n) == GoOn(bg.batch, bg.blocked \cup ios, bg.fails + n)
     IN  \/ reply = "ok" /\ queue' = Accept(queue, r) /\ Go({}, 0) /\ UNCHANGED io
         \/ /\ reply \in {"status", "code"}
            /\ queue' = Amend(queue, {r.id}, Orphan)
            /\ Tombstone(r.id)
            /\ Go({r.io}, 0)
         \/ /\ reply = "refused"
            /\ queue' = Amend(queue, {r.id}, DeadLetter)
            /\ Go({r.io}, 0) /\ UNCHANGED io
         \/ reply = "network" /\ queue' = Amend(queue, {r.id}, Transient) /\ Go({}, 1) /\ UNCHANGED io
         \/ reply = "conflict" /\ queue' = Amend(queue, {r.id}, Strike) /\ Go({r.io}, 0) /\ UNCHANGED io
  /\ UNCHANGED <<nextId, cloud, unseen, delta, want, late, rec, left, log, settled, excused, ruled>>

-----------------------------------------------------------------------------
(* The orphan reconciler: reconcileOrphanedResults *)

RecFetch ==
  /\ Reconciling /\ rec = Idle
  /\ rec' = Fetched(cloud)
  /\ UNCHANGED <<io, queue, nextId, cloud, unseen, delta, want, call, late, bg, left, log, settled, excused, ruled>>

\* Bug: the reconciler enqueues results only, and no clears.
ResultsOnly(i, view) ==
  IF io[i].present /\ ~io[i].removed /\ RowsOf(queue, i) = {}
     /\ io[i].result # None /\ view[i].result = None
    THEN {[io |-> i, op |-> io[i].result, kind |-> "result", base |-> view[i].version,
           note |-> io[i].comment]}
    ELSE {}

\* What the cloud, as fetched, lacks of IO i: a result (the stored word Cleared is
\* taken for one), else a comment, and a clear provably newer than the cloud's
\* result.  A removed IO counts as empty.
Missing(i, view) ==
  LET c == [view[i] EXCEPT !.result  = IF view[i].exists THEN @ ELSE None,
                           !.comment = IF view[i].exists THEN @ ELSE 0,
                           !.version = IF view[i].exists THEN @ ELSE 0]
      Enqueue(op, kind, note) ==
        [io |-> i, op |-> op, kind |-> kind, base |-> c.version, note |-> note]
      lacks == IF io[i].result # None /\ c.result = None
                 THEN {Enqueue(io[i].result, "result", io[i].comment)}
               ELSE IF io[i].comment # 0 /\ c.comment = 0
                 THEN {Enqueue("Comment", "comment", io[i].comment)} ELSE {}
      clears == IF /\ io[i].result = None /\ io[i].hist = "Cleared"
                   /\ c.result # None /\ io[i].histAt > c.at
                THEN {Enqueue("Cleared", "clear", 0)} ELSE {}
  IN  IF ~io[i].present \/ io[i].removed \/ RowsOf(queue, i) # {} THEN {}
      ELSE lacks \cup clears

\* One transaction inserts what is missing, the clears first; no row of an IO
\* that has any row already, and nothing for a tombstoned IO.
RecAct ==
  /\ rec.pc = "fetched"
  /\ \E last \in nextId - 1 .. MaxRows :
       LET lacking == UNION {Missing(i, rec.view) : i \in Io}
       IN  \E number \in [lacking -> nextId .. last] :
             /\ {number[e] : e \in lacking} = nextId .. last
             /\ \A e, f \in lacking :
                  /\ number[e] = number[f] => e = f
                  /\ e.kind = "clear" /\ f.kind # "clear" => number[e] < number[f]
             /\ queue' = Insert(queue, {Row(number[e], e.io, e.op, e.note, e.base) : e \in lacking})
             /\ log' = log \cup {[id |-> number[e], io |-> e.io, op |-> e.op] : e \in lacking}
             /\ nextId' = last + 1
  /\ rec' = Idle
  /\ UNCHANGED <<io, cloud, unseen, delta, want, call, late, bg, left, settled, excused, ruled>>

-----------------------------------------------------------------------------
(* The delta pull and the process *)

\* fetchAndApplyDelta reads what changed since its cursor.
DeltaFetch ==
  /\ delta = Idle /\ unseen # {}
  /\ delta' = Fetched([i \in unseen |-> cloud[i]])
  /\ unseen' = {}
  /\ UNCHANGED <<io, queue, nextId, cloud, want, call, late, bg, rec, left, log, settled, excused, ruled>>

\* isProtectedClear: a deliberate local clear that c has not provably overruled.
ProtectedClear(x, c) ==
  /\ x.present /\ c.result # None /\ x.result = None
  /\ x.hist = "Cleared" /\ c.at <= x.histAt

\* The upsert keeps a local result and comment, takes the version, and lifts the
\* tombstone.  A delete leaves the history of the IO.
Upserted(x, c) ==
  LET keep == ProtectedClear(x, c)
  IN  [x EXCEPT !.present = TRUE, !.removed = FALSE, !.version = c.version,
                !.result  = IF @ = None /\ ~keep THEN c.result ELSE @,
                !.comment = IF @ = 0 /\ ~keep THEN c.comment ELSE @]
Deleted(x) == [Fresh EXCEPT !.present = FALSE, !.hist = x.hist, !.histAt = x.histAt]

\* One transaction applies the changes.  The orphans of an IO that is on the cloud
\* are released; a delete tombstone orphans the rows of its IO, or deletes an IO
\* that has none.
DeltaApply ==
  /\ delta.pc = "fetched"
  /\ LET back == {i \in DOMAIN delta.view : delta.view[i].exists}
         gone == DOMAIN delta.view \ back
     IN  /\ io' = [i \in Io |-> IF i \in back THEN Upserted(io[i], delta.view[i])
                                ELSE IF i \in gone /\ RowsOf(queue, i) = {} THEN Deleted(io[i])
                                ELSE io[i]]
         /\ queue' = {IF r.io \in back /\ r.orphaned THEN Release(r)
                      ELSE IF r.io \in gone /\ ~r.orphaned THEN Orphan(r) ELSE r : r \in queue}
         /\ ruled' = ruled \cup {r.id : r \in {x \in queue : x.io \in gone}}
  /\ delta' = Idle
  /\ UNCHANGED <<nextId, cloud, unseen, want, call, late, bg, rec, left, log, settled, excused>>

\* The changes a delta has fetched and not applied; the cursor is still before them.
InDelta == IF delta.pc = "fetched" THEN DOMAIN delta.view ELSE {}

\* The process dies and starts again: the tables survive, the cursor among them,
\* the rest does not, and a push that was on its way may still arrive.
Crash ==
  /\ Spend("crash")
  /\ late' \in {late, late \cup {call[s].row : s \in {t \in Sender : call[t].pc = "sent"}}}
  /\ want' = {} /\ call' = [s \in Sender |-> Idle]
  /\ bg' = BgIdle /\ rec' = Idle /\ delta' = Idle
  /\ unseen' = unseen \cup InDelta
  /\ UNCHANGED <<io, queue, nextId, cloud, log, settled, excused, ruled>>

-----------------------------------------------------------------------------
Operator(i) == \/ Test(i, "Passed") \/ Test(i, "Failed") \/ Reset(i)
               \/ \E result \in Puts : Put(i, result)
               \/ Comment(i) \/ Touch(i) \/ Punchlist(i)

Drain(s) == Answer(s) \/ (s \in Io /\ InstantReply(s))
PushToCloud == TickDrain \/ TickB7 \/ B7Fetch \/ B7Act \/ BgReply
Delta == DeltaFetch \/ DeltaApply

Next ==
  \/ \E i \in Io : Operator(i) \/ CloudChange(i)
  \/ \E s \in Sender : Drain(s) \/ Lose(s)
  \/ \E r \in late : ArriveLate(r)
  \/ \E r \in queue : Retry(r) \/ Discard(r)
  \/ PushToCloud \/ Delta \/ RecFetch \/ RecAct \/ Crash

\* The event loop runs every continuation, requests time out, timers fire.
\* A tick at which B7 has rows and is not throttled comes again and again.
\* Nobody owes the system an edit, a failure or a request that arrives late.
Spec == /\ Init /\ [][Next]_vars
        /\ \A s \in Sender : WF_vars(Drain(s))
        /\ WF_vars(Delta)
        /\ WF_vars(PushToCloud) /\ SF_vars(TickB7)
        /\ WF_vars(RecFetch) /\ WF_vars(RecAct)
-----------------------------------------------------------------------------
RowType == [id : 1..MaxRows, io : Io, op : Op, note : 0..MaxRows, base : Nat, strikes : Nat,
            dead : BOOLEAN, orphaned : BOOLEAN, resolved : BOOLEAN,
            err : {None, "conflict", "network", "rejected", "removed", "rebased"}]
PayloadType == [id : 1..MaxRows, io : Io, op : Op, note : 0..MaxRows, base : Nat]
IoType == [present : BOOLEAN, result : Stored, comment : 0..MaxRows, version : Nat,
           removed : BOOLEAN, hist : Stored \cup {"Updated"}, histAt : 0..MaxRows]
CloudType == [exists : BOOLEAN, result : Result, comment : 0..MaxRows, version : Nat,
              at : 0..MaxRows]
Reply == {"ok", "conflict", "network", "refused", "status", "code"}

CallState == {Idle} \cup [pc : {"sent"}, row : PayloadType]
                    \cup [pc : {"answered"}, row : PayloadType, reply : Reply]
BgState == {BgIdle}
  \cup [pc : {"b7"}, rows : SUBSET PayloadType]
  \cup [pc : {"b7read"}, rows : SUBSET PayloadType, view : [Io -> CloudType]]
  \cup [pc : {"drain"}, batch : SUBSET PayloadType, blocked : SUBSET Io, fails : Nat]
RecState == {Idle} \cup [pc : {"fetched"}, view : [Io -> CloudType]]
FetchedDelta(ios) == [pc : {"fetched"}, view : [ios -> CloudType]]

Types ==
  /\ io \in [Io -> IoType] /\ cloud \in [Io -> CloudType]
  /\ queue \subseteq RowType /\ nextId \in 1 .. MaxRows + 1
  /\ unseen \subseteq Io /\ want \subseteq Io /\ late \subseteq PayloadType
  /\ call \in [Sender -> CallState] /\ bg \in BgState /\ rec \in RecState
  /\ delta = Idle \/ \E ios \in SUBSET Io : delta \in FetchedDelta(ios)

\* The types, and isPushing: pushToCloud is in its drain exactly while it has a row
\* on its way or an answer in hand, so that the next tick cannot start another run.
TypeOK == Types /\ (call[Background] # Idle <=> bg.pc = "drain")

\* The work of row r has been taken over by later work of its class on its IO:
\* the coalescing trigger keeps only the newest.
Overtaken(r, l) ==
  \E m \in l : /\ m.id > r.id /\ m.io = r.io
               /\ IF r.op \in MetaOps THEN m.op = r.op ELSE m.op \notin MetaOps

\* Safety: a result never vanishes from the queue silently.  Its row leaves only
\* if the cloud has had it, the cloud holds that very result, newer work of its
\* class took over, it was parked on a verdict of the cloud, or an operator
\* discarded it.  Every deletion in the two drains, the trigger and B7 is a
\* chance to break this.  It is for Ops without metadata (the claim below says
\* why) and without comments beside clears (after a comment a delta undoes a queued
\* clear, whose row B7 then drops as stale).
NoSilentLoss ==
  [][\A r \in {x \in queue : x.op \in ResultOps} :
       \/ \E x \in queue' : x.id = r.id
       \/ r.id \in settled' \cup excused'
       \/ cloud[r.io].result = Norm(r.op)
       \/ Overtaken(r, log')
       \/ r.dead /\ r.id \in ruled]_vars

\* Claim of b7-supersede.ts:14-17: B7 drops a stuck result that the tablet still
\* holds only if the cloud has it or a newer row carries a result.  The rows of
\* Punchlist Updated and Dependencies Updated count as newer rows, and carry none.
StuckResultsAreCarried ==
  [][bg.pc = "b7read" /\ bg' # bg =>
       \A r \in {x \in queue : x.op \in ResultOps /\ LocalTruth(x)} :
         \/ bg.view[r.io].result = Norm(r.op)
         \/ \E x \in queue' : x.io = r.io /\ x.id >= r.id /\ x.op \in ResultOps]_vars

\* Safety: a row is parked only on a verdict of the cloud, however long the
\* network has been failing (the incident of 2026-06-04 emptied the queue).
ParkedMeansRuled == \A r \in queue : r.dead => r.id \in ruled

\* Safety: a delta never deletes an IO with work in the queue.
RowsHaveTheirIo == \A r \in queue : io[r.io].present

\* Safety: a row is hidden (resolved) only while its IO is away.  It can be released,
\* and its IO is tombstoned, or the cloud does not have it, or the change that
\* brought it back is still to be applied, and releases the row (delta-sync.ts:500).
\* A tombstone may be out of date: an answer older than the return sets it.
HiddenMeansAway ==
  \A r \in queue : r.resolved =>
    /\ r.orphaned
    /\ io[r.io].removed \/ ~cloud[r.io].exists \/ r.io \in unseen \cup InDelta

\* Liveness: once operators, network and cloud leave it in peace, every IO the
\* cloud has either agrees with the tablet on the result or shows a parked row.
\* A clear stored as the word is excepted.  If its row was lost, or B7 took an empty
\* cloud for its arrival before an older result arrived, the reconciler sees two
\* results that differ and leaves them; a clear stored as NULL it would push again.
Agreed(i) ==
  cloud[i].exists /\ io[i].present => cloud[i].result = io[i].result \/ io[i].result = "Cleared"
EventuallySyncedOrParked ==
  <>[](\A i \in Io : Agreed(i) \/ \E r \in RowsOf(queue, i) : r.dead)

\* Liveness: no row stays active for ever, however the version conflicts of two
\* drains and of coalesced work fall: it is accepted, dropped or parked.
EventuallyQuiet == <>[](\A r \in queue : r.dead)

\* Liveness: an instant drain ends; it does not spin on a row it cannot push.
DrainsEnd == \A i \in Io : (call[i].pc # "idle") ~> (call[i].pc = "idle")
=============================================================================
