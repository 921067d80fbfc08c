----------------------------- MODULE SimpleQueue -----------------------------
(***************************************************************************)
(* The upload queues of e-stop checks (EStopCheckPendingSyncs) and of      *)
(* guided task states (GuidedTaskStatePendingSyncs).  Both have the same    *)
(* two senders: the push started by the route that stored the edit, one at *)
(* a time per key through the push queue, and the background drain that    *)
(* the two share, drain-simple-queue.ts.  Kind says which of them this is:  *)
(* an e-stop push carries what the table of checks holds now, a guided     *)
(* push what its queue row holds.                                          *)
(*                                                                         *)
(* The edits of a key are numbered, and a value is the number of its edit. *)
(* The cloud is external; it keeps the latest edit it has been sent.       *)
(***************************************************************************)
EXTENDS Naturals, FiniteSets

CONSTANTS
  Key,       \* identities: checks of e-stop cords, or guided tasks
  Mcm,       \* the machine control modules (subsystems) they belong to
  McmOf,     \* McmOf[k]: the one of key k
  Broken,    \* the MCMs whose every push fails at the network level (a wrong key)
  Spare,     \* the keys the cloud refuses for good (4xx)
  Kind,      \* "estop" or "guided"
  Cap,       \* retryCap: strikes before a row is parked (10)
  Limit,     \* the rows one run of the drain looks at (50)
  MaxEdits,  \* bound: edits of all keys together
  Budget     \* bound: how often each misfortune and operator action happens

ASSUME SimpleQueueAssumption ==
  /\ McmOf \in [Key -> Mcm] /\ Broken \subseteq Mcm /\ Spare \subseteq Key
  /\ Kind \in {"estop", "guided"}
  /\ Cap \in Nat /\ Limit \in Nat /\ MaxEdits \in Nat
  /\ Budget \in [{"network", "crash", "lost", "operator"} -> Nat]

VARIABLES
  edits,    \* edits[k]: the latest edit stored in the local table
  queue,    \* the rows of the queue table
  nextId,   \* its AUTOINCREMENT counter
  cloud,    \* cloud[k]: the latest edit the cloud holds
  push,     \* push[k]: the instant push of k
  dirty,    \* the keys whose entry in the push queue is dirty
  bg,       \* the background drain: idle, or its remaining rows and its push
  left,     \* what remains of Budget
  refusals, \* history: refusals[k]: how often the cloud has refused k
  atRisk    \* history: the keys whose latest edit was stored while a push of
            \* the key was under way, or never got a row, or was discarded

vars == <<edits, queue, nextId, cloud, push, dirty, bg, left, refusals, atRisk>>

\* Bug: the row carries the state read before the write.
StaleRow(id, k, e) == [id |-> id, key |-> k, edit |-> e - 1, strikes |-> 0, dead |-> FALSE]

Row(id, k, e)  == [id |-> id, key |-> k, edit |-> e, strikes |-> 0, dead |-> FALSE]
Spend(what)    == left[what] > 0 /\ left' = [left EXCEPT ![what] = @ - 1]

Idle               == [pc |-> "idle"]
Sent(e)            == [pc |-> "sent", edit |-> e]
Answered(e, reply) == [pc |-> "answered", edit |-> e, reply |-> reply]

\* The drain holds the rows it has still to send, the MCMs it has given up on in
\* this run, the row it is sending and the push of it.
BgIdle == [busy |-> FALSE]
Draining(todo, deferred, row, call) ==
  [busy |-> TRUE, todo |-> todo, deferred |-> deferred, row |-> row, call |-> call]

RowsOf(q, k) == {r \in q : r.key = k}
Oldest(rows) == CHOOSE r \in rows : \A x \in rows : r.id <= x.id
Newest(rows) == CHOOSE r \in rows : \A x \in rows : x.id <= r.id

Init ==
  /\ edits = [k \in Key |-> 0] /\ cloud = [k \in Key |-> 0]
  /\ queue = {} /\ nextId = 1
  /\ push = [k \in Key |-> Idle] /\ dirty = {} /\ bg = BgIdle
  /\ left = Budget
  /\ refusals = [k \in Key |-> 0] /\ atRisk = {}

-----------------------------------------------------------------------------
(* The route and the instant push *)

\* The push function of the route: a guided push with no row sends nothing.
Start(k, q, latest) ==
  push' = [push EXCEPT ![k] =
             IF Kind = "estop" THEN Sent(latest)
             ELSE IF RowsOf(q, k) = {} THEN Idle ELSE Sent(Newest(RowsOf(q, k)).edit)]

\* Is a push of k under way, in either sender?
Busy(k) ==
  \/ push[k] # Idle
  \/ bg.busy /\ \E r \in bg.todo \cup {bg.row} : r.key = k

\* The local table is written, then the row is inserted and the push enqueued.
\* Nothing holds the writes together: an error between them loses the row.
Store(k) ==
  /\ nextId <= MaxEdits
  /\ edits' = [edits EXCEPT ![k] = @ + 1]
  /\ nextId' = nextId + 1
  /\ \/ /\ queue' = queue \cup {Row(nextId, k, edits'[k])}
        /\ IF push[k] = Idle THEN Start(k, queue', edits'[k]) /\ UNCHANGED dirty
                             ELSE dirty' = dirty \cup {k} /\ UNCHANGED push
        /\ atRisk' = IF Busy(k) THEN atRisk \cup {k} ELSE atRisk \ {k}
        /\ UNCHANGED left
     \/ /\ Spend("lost")
        /\ atRisk' = atRisk \cup {k}
        /\ UNCHANGED <<queue, push, dirty>>
  /\ UNCHANGED <<cloud, bg, refusals>>

\* Bug: an outage counts as a failed attempt, as it did until July 2026.
StrikeAlways(rows, reply) ==
  {IF reply # "ok" THEN [r EXCEPT !.strikes = @ + 1] ELSE r : r \in rows}

\* A refusal counts against the rows, a network failure does not.
Struck(rows, reply) ==
  {IF reply = "refused" THEN [r EXCEPT !.strikes = @ + 1] ELSE r : r \in rows}

\* An accepted push takes every row of its key with it, whichever it carried; a
\* refused one strikes them all.  Then the push queue looks at its dirty bit.
Settle(k) ==
  /\ push[k].pc = "answered"
  /\ LET others == queue \ RowsOf(queue, k)
     IN  queue' = IF push[k].reply = "ok" THEN others
                  ELSE others \cup Struck(RowsOf(queue, k), push[k].reply)
  /\ dirty' = dirty \ {k}
  /\ IF k \in dirty THEN Start(k, queue', edits[k])
                    ELSE push' = [push EXCEPT ![k] = Idle]
  /\ UNCHANGED <<edits, nextId, cloud, bg, left, refusals, atRisk>>

-----------------------------------------------------------------------------
(* The cloud and the network *)

\* What the cloud makes of a push of edit e of key k, and what it answers.  A
\* failing network loses the request, or only the answer.
Reach(k, e) ==
  cloud' = [cloud EXCEPT ![k] = IF e > @ THEN e ELSE @]

Delivered(k, e, reply) ==
  \/ /\ reply = "ok" /\ McmOf[k] \notin Broken /\ k \notin Spare
     /\ Reach(k, e) /\ UNCHANGED <<left, refusals>>
  \/ /\ reply = "refused" /\ McmOf[k] \notin Broken /\ k \in Spare
     /\ refusals' = [refusals EXCEPT ![k] = @ + 1]
     /\ UNCHANGED <<cloud, left>>
  \/ /\ reply = "network" /\ McmOf[k] \in Broken
     /\ UNCHANGED <<cloud, left, refusals>>
  \/ /\ reply = "network" /\ McmOf[k] \notin Broken /\ Spend("network")
     /\ (UNCHANGED cloud) \/ (k \notin Spare /\ Reach(k, e))
     /\ UNCHANGED refusals

Answer(k) ==
  /\ push[k].pc = "sent"
  /\ \E reply \in {"ok", "refused", "network"} :
       /\ Delivered(k, push[k].edit, reply)
       /\ push' = [push EXCEPT ![k] = Answered(@.edit, reply)]
  /\ UNCHANGED <<edits, queue, nextId, dirty, bg, atRisk>>

BgAnswer ==
  /\ bg.busy /\ bg.call.pc = "sent"
  /\ \E reply \in {"ok", "refused", "network"} :
       /\ Delivered(bg.row.key, bg.call.edit, reply)
       /\ bg' = [bg EXCEPT !.call = Answered(@.edit, reply)]
  /\ UNCHANGED <<edits, queue, nextId, push, dirty, atRisk>>

-----------------------------------------------------------------------------
(* The background drain: drainSimpleQueue *)

\* Bug: a row at the cap is deleted, as it was before the queues learned to park.
Evict(q, rows) == {r \in q : \A x \in rows : x.id # r.id}

\* Park the given rows, of which the drain holds a copy that may be old.
Park(q, rows) ==
  {IF \E x \in rows : x.id = r.id THEN [r EXCEPT !.dead = TRUE] ELSE r : r \in q}

\* Bug: the first network failure ends the run, whichever MCM it belongs to.
GoOnUnlessDown(todo, deferred, q) ==
  IF todo = {} \/ deferred # {} THEN bg' = BgIdle /\ queue' = q
  ELSE \E r \in todo :
         /\ bg' = Draining(todo \ {r}, deferred, r,
                           Sent(IF Kind = "estop" THEN edits[r.key] ELSE r.edit))
         /\ queue' = q

\* The loop up to its next request: park rows at the cap (now: those that come before
\* the next row to be sent), skip the rows of deferred MCMs, send the next one.
GoOn(todo, deferred, q) ==
  LET capped == {r \in todo : r.strikes >= Cap}
      rest   == {r \in todo \ capped : McmOf[r.key] \notin deferred}
  IN  \/ rest = {} /\ bg' = BgIdle /\ queue' = Park(q, capped)
      \/ \E r \in rest, now \in SUBSET capped :
           /\ bg' = Draining((rest \ {r}) \cup (capped \ now), deferred, r,
                             Sent(IF Kind = "estop" THEN edits[r.key] ELSE r.edit))
           /\ queue' = Park(q, now)

Active == {r \in queue : ~r.dead}

\* The oldest rows, one of each key: the lowest version, or the latest state.
Batch == {r \in Active : Cardinality({x \in Active : x.id < r.id}) < Limit}
Preferred(rows) == IF Kind = "estop" THEN Oldest(rows) ELSE Newest(rows)
Kept == {r \in Batch : r = Preferred(RowsOf(Batch, r.key))}

\* The other rows of the batch are deleted.
TickDrain ==
  /\ ~bg.busy /\ Active # {}
  /\ GoOn(Kept, {}, queue \ (Batch \ Kept))
  /\ UNCHANGED <<edits, nextId, cloud, push, dirty, left, refusals, atRisk>>

BgReply ==
  /\ bg.busy /\ bg.call.pc = "answered"
  /\ LET r     == bg.row
         reply == bg.call.reply
         same  == {x \in queue : x.id = r.id}
     IN  GoOn(bg.todo, bg.deferred \cup {m \in {McmOf[r.key]} : reply = "network"},
              IF reply = "ok" THEN queue \ RowsOf(queue, r.key)
              ELSE (queue \ same) \cup Struck(same, reply))
  /\ UNCHANGED <<edits, nextId, cloud, push, dirty, left, refusals, atRisk>>

-----------------------------------------------------------------------------
(* The operators and the process *)

\* Sync Center and POST /api/cloud/unpark release a row, or discard it.
Retry(r) ==
  /\ r \in queue
  /\ Spend("operator")
  /\ queue' = (queue \ {r}) \cup {[r EXCEPT !.dead = FALSE, !.strikes = 0]}
  /\ UNCHANGED <<edits, nextId, cloud, push, dirty, bg, refusals, atRisk>>

Discard(r) ==
  /\ r \in queue
  /\ Spend("operator")
  /\ queue' = queue \ {r}
  /\ atRisk' = atRisk \cup {r.key}
  /\ UNCHANGED <<edits, nextId, cloud, push, dirty, bg, refusals>>

Crash ==
  /\ Spend("crash")
  /\ push' = [k \in Key |-> Idle] /\ dirty' = {} /\ bg' = BgIdle
  /\ UNCHANGED <<edits, queue, nextId, cloud, refusals, atRisk>>

-----------------------------------------------------------------------------
Next ==
  \/ \E k \in Key : Store(k) \/ Answer(k) \/ Settle(k)
  \/ TickDrain \/ BgAnswer \/ BgReply
  \/ \E r \in queue : Retry(r) \/ Discard(r)
  \/ Crash

\* Requests time out, continuations run, the drain's timer fires for ever.
Spec == /\ Init /\ [][Next]_vars
        /\ \A k \in Key : WF_vars(Answer(k) \/ Settle(k))
        /\ WF_vars(TickDrain \/ BgAnswer \/ BgReply)

-----------------------------------------------------------------------------
Reply   == {"ok", "refused", "network"}
RowType == [id : 1..MaxEdits, key : Key, edit : 1..MaxEdits, strikes : Nat, dead : BOOLEAN]
CallState == [pc : {"sent"}, edit : 1..MaxEdits]
               \cup [pc : {"answered"}, edit : 1..MaxEdits, reply : Reply]
BgState == {BgIdle} \cup [busy : {TRUE}, todo : SUBSET RowType, deferred : SUBSET Mcm,
                          row : RowType, call : CallState]

TypeOK ==
  /\ edits \in [Key -> 0..MaxEdits] /\ cloud \in [Key -> 0..MaxEdits]
  /\ queue \subseteq RowType /\ nextId \in 1..MaxEdits + 1
  /\ push \in [Key -> {Idle} \cup CallState] /\ dirty \subseteq Key /\ bg \in BgState
  /\ refusals \in [Key -> Nat] /\ atRisk \subseteq Key

\* Safety: a row is parked only after the cloud has refused its key Cap times,
\* however often pushes of it failed at the network level.  Both senders and the
\* strikes of rows that arrived during a push count towards it.
ParkedMeansRefused == \A r \in queue : r.dead => refusals[r.key] >= Cap

\* Safety: an edit stored while no push of its key is under way is kept: some row
\* of its key waits or is parked until the cloud holds the edit, through lost
\* answers, retries, deduplication and crashes.
KeptUnlessRaced ==
  \A k \in Key : cloud[k] = edits[k] \/ k \in atRisk \/ RowsOf(queue, k) # {}

\* Liveness: such an edit reaches the cloud, or a parked row says why not, also
\* while another MCM cannot be reached at all.
HealthyEditsArrive ==
  <>[](\A k \in Key : \/ cloud[k] = edits[k] \/ k \in atRisk
                      \/ McmOf[k] \in Broken
                      \/ \E r \in RowsOf(queue, k) : r.dead)
=============================================================================
