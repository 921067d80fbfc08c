------------------------------ MODULE DeltaFeed ------------------------------
(***************************************************************************)
(* The way from the cloud to the field for one subsystem: auto-sync-pull.ts *)
(* with delta-sync.ts, sync-cursor.ts and the scoped pull route.  Three     *)
(* pullers ask the cloud for what its change log holds after the local      *)
(* cursor: the reaction to a hint of the event stream, the periodic sweep   *)
(* and the catch-up after a reconnect.  A delta carries the definitions of  *)
(* the IOs; of the other sections it only says that they changed, and the   *)
(* puller fetches those afterwards, by a granular pull or, for the group    *)
(* called "config" (network, e-stop, safety, punchlists, change requests,   *)
(* roadmap), by the destructive scoped pull, which local work refuses.      *)
(*                                                                         *)
(* The cloud is external.  The content of the IOs and of each section is    *)
(* the number of its latest entry in the change log.                       *)
(***************************************************************************)
EXTENDS Naturals, FiniteSets

CONSTANTS
  Pullers,  \* which of "hint", "sweep" and "catchup" run in one behaviour: sets of them
  Section,  \* which of "config", "l2", "vfd" and "guided" there are
  Quick,    \* does the cloud answer a resync with a snapshot? (old clouds do not)
  MaxSeq,   \* bound: entries of the change log
  MaxBusy,  \* bound: pullers at work at the same time
  Budget    \* bound: failures, empty answers, crashes, prunings, times when pulls are refused

Puller == {"hint", "sweep", "catchup"}
Part == Section \cup {"io"}

ASSUME DeltaFeedAssumption ==
  /\ Pullers \subseteq SUBSET Puller
  /\ {"config"} \subseteq Section /\ Section \subseteq {"config", "l2", "vfd", "guided"}
  /\ Quick \in BOOLEAN /\ MaxSeq \in Nat
  /\ Budget \in Nat /\ MaxBusy \in Nat

VARIABLES
  pullers,  \* the pullers of this behaviour
  \* the cloud
  head,     \* the highest sequence number of the change log
  last,     \* last[x]: the latest entry about x
  pruned,   \* the entries up to this one are gone
  \* the field: tables, and what the process remembers
  have,     \* have[x]: the content of x in the local tables
  cursor,   \* SyncCursors.LastSeq
  gated,    \* the pulls that unsynced local work or a connected PLC refuses
  hinted,   \* is the debounce timer of a hint running?
  windows,  \* the 30 s after a manual pull ("manual") or a catch-up ("catchup")
  hash,     \* the IO content of the last scoped pull, 0 after a start
  job,      \* job[p]: what puller p is doing
  \* bounds and history
  left,     \* what remains of Budget
  dropped,  \* history: the sections whose last refresh was refused, failed, skipped,
            \* cut off or left out
  overlap   \* history: has a payload been applied while another was in hand?

vars == <<pullers, head, last, pruned, have, cursor, gated, hinted, windows, hash, job,
          left, dropped, overlap>>

Misfortune == left > 0 /\ left' = left - 1
Top(a, b)   == IF a >= b THEN a ELSE b

Rest           == [pc |-> "idle"]
Asking(since)  == [pc |-> "asking", since |-> since]
Delta(d)       == [pc |-> "answered", delta |-> d]
Refreshing(ss) == [pc |-> "refreshing", todo |-> ss]
Pulling(io)    == [pc |-> "pulling", io |-> io]

\* What p still has to refresh; a scoped pull under way stands for "config".
Todo(p) == CASE job[p].pc = "refreshing" -> job[p].todo
             [] job[p].pc = "pulling" -> {"config"}
             [] OTHER -> {}
InHand(p) == job[p].pc \in {"answered", "pulling"}

Init ==
  /\ pullers \in Pullers
  /\ head = 0 /\ last = [x \in Part |-> 0] /\ pruned = 0
  /\ have = [x \in Part |-> 0] /\ cursor = 0
  /\ gated = {} /\ hinted = FALSE /\ windows = {} /\ hash = 0
  /\ job = [p \in Puller |-> Rest]
  /\ left = Budget /\ dropped = {} /\ overlap = FALSE

-----------------------------------------------------------------------------
(* The cloud and the surroundings *)

\* A commit writes its change-log entry; the hint it broadcasts may get lost.
Change(x) ==
  /\ head < MaxSeq
  /\ head' = head + 1 /\ last' = [last EXCEPT ![x] = head']
  /\ hinted' \in {hinted, "hint" \in pullers}
  /\ UNCHANGED <<pullers, pruned, have, cursor, gated, windows, hash, job,
                 left, dropped, overlap>>

Prune ==
  /\ Misfortune
  /\ pruned' = head
  /\ UNCHANGED <<pullers, head, last, have, cursor, gated, hinted, windows, hash, job,
                 dropped, overlap>>

\* Technicians create work that has not been uploaded, connect a PLC, and the
\* queues drain again.
Gate(x) ==
  /\ x \in {"config", "l2"} \cap Section
  /\ IF x \in gated THEN gated' = gated \ {x} /\ UNCHANGED left
                    ELSE gated' = gated \cup {x} /\ Misfortune
  /\ UNCHANGED <<pullers, head, last, pruned, have, cursor, hinted, windows, hash, job,
                 dropped, overlap>>

WindowEnds(w) ==
  /\ w \in windows
  /\ windows' = windows \ {w}
  /\ UNCHANGED <<pullers, head, last, pruned, have, cursor, gated, hinted, hash, job,
                 left, dropped, overlap>>

-----------------------------------------------------------------------------
(* The three pullers *)

\* fetchAndApplyDelta reads the cursor and sends the request.
Free(p) == /\ p \in pullers /\ job[p] = Rest
           /\ Cardinality({q \in Puller : job[q] # Rest}) < MaxBusy
Ask(p)  == job' = [job EXCEPT ![p] = Asking(cursor)]

\* The timer of the debounced hint fires; within 30 s of a manual pull it is ignored.
Hinted ==
  /\ hinted /\ Free("hint")
  /\ hinted' = FALSE
  /\ IF "manual" \in windows THEN UNCHANGED job ELSE Ask("hint")
  /\ UNCHANGED <<pullers, head, last, pruned, have, cursor, gated, windows, hash,
                 left, dropped, overlap>>

\* Bug: without a hint there is nothing to sweep.
OnlyHinted == hinted

\* The sweep leaves out a tick while a catch-up or a manual pull is about.
Unhindered == job["catchup"] = Rest /\ "manual" \notin windows

Sweep ==
  /\ Free("sweep") /\ Unhindered
  /\ Ask("sweep")
  /\ UNCHANGED <<pullers, head, last, pruned, have, cursor, gated, hinted, windows,
                 hash, left, dropped, overlap>>

\* The event stream has reconnected, or 15 minutes have passed.
Catchup ==
  /\ Free("catchup")
  /\ windows = {}
  /\ windows' = {"catchup"}
  /\ Ask("catchup")
  /\ UNCHANGED <<pullers, head, last, pruned, have, cursor, gated, hinted, hash,
                 left, dropped, overlap>>

\* The cloud answers: what has changed after the cursor.  A cursor of 0 or one in
\* the pruned part of the log makes it a resync: all IOs and all sections, or, from
\* an old cloud, nothing.
Resync(since) == since = 0 \/ since < pruned
Answer(p) ==
  /\ job[p].pc = "asking"
  /\ LET new == {x \in Part : last[x] > Top(job[p].since, pruned) \/ Resync(job[p].since)}
     IN job' = [job EXCEPT ![p] = Delta(
          [to    |-> head,
           io    |-> IF "io" \in new THEN last["io"] ELSE 0,
           flags |-> new \ {"io"},
           empty |-> Resync(job[p].since) /\ ~Quick])]
  /\ UNCHANGED <<pullers, head, last, pruned, have, cursor, gated, hinted, windows,
                 hash, left, dropped, overlap>>

\* The sections a puller refreshes when they are flagged.
Refreshes(p) == IF p = "catchup" THEN {"config", "vfd"} ELSE Section

\* After its deltas the catch-up fills the L2 tables of a subsystem that has none.
Finally(p) == IF p = "catchup" THEN {"l2"} \cap Section ELSE {}

\* Bug: of several flagged sections only one is refreshed.
OnlyOne(p, todo) ==
  IF todo = {} THEN job' = [job EXCEPT ![p] = Rest]
               ELSE job' = [job EXCEPT ![p] = Refreshing({CHOOSE s \in todo : TRUE})]

Settled(p, todo) ==
  IF todo = {} THEN job' = [job EXCEPT ![p] = Rest]
               ELSE job' = [job EXCEPT ![p] = Refreshing(todo)]

\* An HTTP error or a timeout: fall back to the scoped pull.
Fail(p) ==
  /\ job[p].pc = "asking" /\ Misfortune
  /\ Settled(p, {"config"} \cup Finally(p))
  /\ UNCHANGED <<pullers, head, last, pruned, have, cursor, gated, hinted, windows,
                 hash, dropped, overlap>>

Overlapping(p) == overlap \/ \E q \in Puller \ {p} : InHand(q)

\* Bug: the cursor is set past what the delta holds.
PastEnd(to) == Top(cursor, to + 1)

\* setSyncCursor moves forward only.
Advance(to) == Top(cursor, to)

\* Bug: a delta's IOs are left out once a scoped pull has written them.
Skipping(d) == IF d.io = 0 \/ hash # 0 THEN have["io"] ELSE d.io

\* The IOs after delta d.
Upserted(d) == IF d.io = 0 THEN have["io"] ELSE d.io

\* applyDelta: the IOs in one transaction, then the cursor.  A resync without a
\* snapshot changes nothing and leads to the scoped pull.
Apply(p) ==
  /\ job[p].pc = "answered"
  /\ LET d == job[p].delta IN
     IF d.empty
     THEN /\ Settled(p, {"config"} \cup Finally(p))
          /\ UNCHANGED <<have, cursor, dropped, overlap>>
     ELSE /\ have' = [have EXCEPT !["io"] = Upserted(d)]
          /\ cursor' = Advance(d.to)
          /\ Settled(p, (d.flags \cap Refreshes(p)) \cup Finally(p))
          /\ dropped' = dropped \cup (d.flags \ Refreshes(p))
          /\ overlap' = Overlapping(p)
  /\ UNCHANGED <<pullers, head, last, pruned, gated, hinted, windows, hash, left>>

-----------------------------------------------------------------------------
(* Refreshing the flagged sections, in the order of the code *)

Order(p)   == IF p = "catchup" THEN [vfd |-> 1, config |-> 2, l2 |-> 3, guided |-> 4]
                               ELSE [vfd |-> 1, l2 |-> 2, guided |-> 3, config |-> 4]
Turn(p, s) == /\ job[p].pc = "refreshing" /\ s \in job[p].todo
              /\ \A t \in job[p].todo : Order(p)[s] <= Order(p)[t]

\* Cell edits that wait refuse an L2 pull, and the catch-up fills only empty tables.
NoL2(p) == "l2" \in gated \/ (p = "catchup" /\ have["l2"] # 0)

\* The granular pulls never throw: what they cannot fetch stays as it is.
Granular(p, s) ==
  /\ s # "config" /\ Turn(p, s)
  /\ Settled(p, job[p].todo \ {s})
  /\ \/ /\ s = "l2" => ~NoL2(p)
        /\ have' = [have EXCEPT ![s] = last[s]] /\ dropped' = dropped \ {s}
        /\ UNCHANGED left
     \/ /\ s = "l2" /\ NoL2(p)
        /\ dropped' = dropped \cup {s} /\ UNCHANGED <<have, left>>
     \/ /\ Misfortune
        /\ dropped' = dropped \cup {s} /\ UNCHANGED have
  /\ UNCHANGED <<pullers, head, last, pruned, cursor, gated, hinted, windows, hash,
                 overlap>>

\* scopedFullPull: the route refuses (409), the cloud cannot be reached, or the
\* payload of the subsystem is in hand.
PullStart(p) ==
  /\ Turn(p, "config")
  /\ \/ /\ "config" \notin gated
        /\ job' = [job EXCEPT ![p] = Pulling(last["io"])]
        /\ UNCHANGED <<left, dropped>>
     \/ /\ "config" \in gated
        /\ Settled(p, job[p].todo \ {"config"})
        /\ dropped' = dropped \cup {"config"} /\ UNCHANGED left
     \/ /\ Misfortune
        /\ Settled(p, job[p].todo \ {"config"})
        /\ dropped' = dropped \cup {"config"}
  /\ UNCHANGED <<pullers, head, last, pruned, have, cursor, gated, hinted, windows,
                 hash, overlap>>

\* The pull writes nothing: in its transaction it looks again for local work, finds some
\* and gives up, or the cloud has no IOs for the subsystem, which counts as a success.
PullEnds(p) ==
  /\ job[p].pc = "pulling"
  /\ Settled(p, Finally(p))
  /\ dropped' = dropped \cup {"config"}
  /\ IF "config" \in gated /\ job[p].io # hash THEN UNCHANGED left ELSE Misfortune
  /\ UNCHANGED <<pullers, head, last, pruned, have, cursor, gated, hinted, windows, hash,
                 overlap>>

\* The sections a scoped pull asks for: all, but L2 only when no cell edit waits.
Extras == Section \ (gated \cap {"l2"})

\* An IO set equal to the one the pull wrote last is not written again.  Each section that
\* cannot be fetched, or comes back empty, is skipped, and the pull is a success all the
\* same; "config" is fetched when all its parts are.
PullApply(p) ==
  /\ job[p].pc = "pulling" /\ ~("config" \in gated /\ job[p].io # hash)
  /\ Settled(p, Finally(p))
  /\ \E fetched \in SUBSET Extras :
       /\ have' = [x \in Part |->
            IF x = "io" THEN IF job[p].io = hash THEN have["io"] ELSE job[p].io
            ELSE IF x \in fetched THEN last[x] ELSE have[x]]
       /\ dropped' = (dropped \cup {"config"}) \ fetched
       /\ IF fetched = Extras THEN UNCHANGED left ELSE Misfortune
  /\ hash' = job[p].io
  /\ windows' = windows \cup {"manual"}
  /\ overlap' = Overlapping(p)
  /\ UNCHANGED <<pullers, head, last, pruned, cursor, gated, hinted>>

\* The process restarts: the database remains.
Crash ==
  /\ Misfortune
  /\ job' = [p \in Puller |-> Rest]
  /\ hinted' = FALSE /\ windows' = {} /\ hash' = 0
  /\ dropped' = dropped \cup UNION {Todo(p) : p \in Puller}
  /\ UNCHANGED <<pullers, head, last, pruned, have, cursor, gated, overlap>>

-----------------------------------------------------------------------------
Work(p) == \/ Answer(p) \/ Fail(p) \/ Apply(p)
           \/ \E s \in Section : Granular(p, s)
           \/ PullStart(p) \/ PullEnds(p) \/ PullApply(p)

Next ==
  \/ \E x \in Part : Change(x)
  \/ Prune
  \/ \E x \in Section : Gate(x)
  \/ \E w \in windows : WindowEnds(w)
  \/ Hinted \/ Sweep \/ Catchup
  \/ \E p \in Puller : Work(p)
  \/ Crash

\* Timers fire, requests end in an answer or a timeout, continuations run.  No
\* hint, reconnect or commit has to happen.
Spec == /\ Init /\ [][Next]_vars
        /\ WF_vars(Sweep)
        /\ \A p \in Puller : WF_vars(Work(p))
        /\ \A w \in {"manual", "catchup"} : WF_vars(WindowEnds(w))
-----------------------------------------------------------------------------
JobType == {Rest} \cup [pc : {"asking"}, since : 0..MaxSeq]
             \cup [pc : {"answered"}, delta : [to : 0..MaxSeq, io : 0..MaxSeq,
                                              flags : SUBSET Section, empty : BOOLEAN]]
             \cup [pc : {"refreshing"}, todo : SUBSET Section]
             \cup [pc : {"pulling"}, io : 0..MaxSeq]

TypeOK ==
  /\ pullers \in Pullers
  /\ head \in 0..MaxSeq /\ last \in [Part -> 0..MaxSeq] /\ pruned \in 0..MaxSeq
  /\ have \in [Part -> 0..MaxSeq] /\ cursor \in 0..MaxSeq
  /\ gated \subseteq {"config", "l2"} \cap Section /\ hinted \in BOOLEAN
  /\ windows \subseteq {"manual", "catchup"} /\ hash \in 0..MaxSeq
  /\ job \in [Puller -> JobType]
  /\ left \in 0..Budget
  /\ dropped \subseteq Section /\ overlap \in BOOLEAN

\* Safety: what the cursor covers of the IOs is in the local table, through lost
\* hints, failures, crashes and scoped pulls, unless two payloads were in hand at once.
CursorCoversIos == (last["io"] <= cursor /\ have["io"] # last["io"]) => overlap

\* Safety: what the cursor covers of a section has been fetched, or a puller still
\* has it to fetch, or its last refresh was refused, failed, skipped, cut off or left out.
CursorCoversSections ==
  \A s \in Section :
    (last[s] <= cursor /\ have[s] # last[s]) =>
       s \in dropped \/ \E p \in Puller : s \in Todo(p)

\* Liveness: without any hint or reconnect the sweep brings the IOs up to date.
LostHintsHeal == <>[]("sweep" \notin pullers \/ have["io"] = last["io"] \/ overlap)
=============================================================================
