# Verification of the commissioning tool's sync core

The commissioning tool is a Node/Express server with a browser UI that runs on a
tablet or a site server next to a machine control module (MCM). Testers pass or
fail I/O points there, mostly offline. Everything they record must reach a cloud
service some day, over a network that loses, delays and repeats things, while the
cloud itself edits, deletes and restores the same points and pushes those changes
down. The repository's history is a history of lost field work (its comments name
the incidents of 2026-05-21, 2026-06-04, 2026-06-05, 2026-07-08 and 2026-07-17),
so the sync core is where this project starts.

The modules are written in plain TLA+, checked with TLC, and the safety theorems
are proved with TLAPS. `PROJECT.json` lists components, runs, mutants, the map
from definitions to source lines, findings, hazards and theorems. Paths below are
relative to `src/frontend/`.

## 1. Inventory

| Part | State | Operations | Meets | What makes it correct |
|---|---|---|---|---|
| Per-key push queue (`lib/cloud/sync-queue.ts`) | in-memory `Map` key -> {dirty bit, promise} | `enqueueSyncPush`, `runPushLoop` | every route that stores work | one push per key, no edit stranded, each edit pushed in the end |
| IO upload queue (`PendingSyncs` in `lib/db-sqlite.ts`, `pending-sync-repository.ts`) | rows with base version, strikes, parked / orphaned / resolved flags, last error; the coalescing trigger | create, delete, dead-letter, orphan, strike, retry, discard | both drains, delta, reconciler, Sync Center | no silent loss; parked only on a verdict; hidden only while its IO is away |
| IO request handlers (`app/api/ios/[id]/...`) | tables `Ios`, `TestHistories` | test, reset, comment (PUT), punchlist | upload queue, push queue | a recorded result has a queue row or is found later |
| Instant drain (`pending-sync-utils.ts`, `cloud-sync-service.ts`) | the row in flight | send oldest active row, classify the answer | cloud, upload queue | ends; never drops what was refused |
| Background drain with B7 (`auto-sync.ts`) | `isPushing`, batch, blocked IOs, failures so far; B7's rows and cloud view | retry cap, batch, B7 reconcile of version conflicts | the same rows as the instant drain | converges; caps only verdicts |
| Orphan reconciler (`result-reconciler.ts`) | the payload it fetched | re-enqueue results, comments and clears the cloud lacks | upload queue, Ios | a lost insert is healed and a clear is not undone |
| Delta pull (`delta-sync.ts`, `sync-cursor.ts`) | cursor, fetched changes | upsert, tombstone, release orphans | Ios, upload queue | work never loses its IO |
| Delta scheduling (`auto-sync-pull.ts`, `config-side-pulls.ts`) | debounce timer, in-flight flags, 30 s windows | hint, sweep, catch-up, refresh of flagged sections | delta pull, full pull, SSE | the cursor passes nothing that is not fetched; a lost hint heals |
| Full pull (`pull-core.ts`, `pull-guard.ts`, routes `mcm/[subsystemId]/pull`, `cloud/pull`) | backup, guard verdict, the payload applied last | replace a subsystem's tables | all queues, delta scheduling | erases nothing unsynced; its no-op check tells the truth |
| SSE client (`cloud-sse-client.ts`) | connection state, one stream, one timer, echo sets | connect, reconnect, reconfigure, stop; hints, results and cells from the cloud | delta scheduling, L2 cells | one stream with the newest configuration comes back in the end |
| L2 cell queue (`l2/cell` route, `L2PendingSyncs`, `pull-l2` route) | cell value and version, queue rows | edit, instant push, batch push, pull, event, reconcile | push queue, background drain, SSE | an edit stands until the cloud has it; the queue drains |
| L2 outbox in the browser (`l2-outbox.ts`) | localStorage map | save, replay, evict | L2 cell route | the last edit of a cell survives |
| PLC connection (`plc-client.ts`, `tag-reader.ts`, `mcm-registry.ts`) | status, reconnect timer, tag handles, read loop | connect, disconnect, dispose, reconnect, read cycle | operators, native library | no handle is lost; "connected" is true; a lost PLC is dialled again |
| Simple queues (`drain-simple-queue.ts`: e-stop checks, guided task states) | queue rows | instant push, deduplicating drain | push queue, background drain | a safety result is never dropped unsent |
| Backlog re-adjudication (`lib/sync/backlog-readjudication.ts`) | two durable flags | release parked rows once | upload queue | at most one release, none wasted on an old cloud |
| Heartbeat commands, task claims, network poller, gateway, VFD writes | connection and timer state | see `PROJECT.json` | the parts above | listed there per component |
| Cloud | not in the repository | `POST /api/sync/update`, change feed | both drains, delta, reconciler | external; assumed as section 5 says |

The server is one Node process. Code between two `await`s runs alone, so the hard
behaviours are not data races but *stale snapshots*: a row, a batch or a cloud
view is read, a fetch of up to 25 s follows, and the row is then rewritten by id.
Five actors do this to the table `PendingSyncs` at once. To this come lost answers
(the cloud applied the push, the tablet does not know), requests that arrive after
their timeout, crashes between two statements, and the cloud's own edits.
`PROJECT.json` "hazards" lists them at their lines.

## 2. Modules

| Module | What it is |
|---|---|
| `SerialPush` | Abstract: a key has at most one push in flight and one reserved slot; a push covers every edit stored before it began. What the header of `sync-queue.ts` promises. |
| `PushQueue` | `sync-queue.ts` itself: `entry` is the `Map`, a loop has a program counter `pushing` / `pushed`; `Enqueue`, `Settle`, `Repeat` and `Leave` are the code between its awaits. `edits`, `covered` count stored edits and what the current push read. |
| `MCPushQueue` | Two keys; the refinement mapping to `SerialPush` is `ImplementsSerialPush` in `PushQueue`. |
| `PushQueue_proofs` | Its inductive invariant and the refinement's safety part. |
| `IoOutbox` | The upload queue and everything that moves a row of it: handlers, trigger, instant drain, background drain with B7 and the retry cap, reconciler, delta, operator actions, cloud, network, crash. |
| `MCIoOutbox` | Instances; the budget of misfortunes is spelled out in the `.cfg` files. |
| `SimpleQueue` | The e-stop and the guided queue: routes, instant push, the drain the two share, operator actions, network, crash. `Kind` says which queue it is. |
| `SimpleQueueClaims`, `MCSimpleQueue` | What a comment says of the guided queue and the code does not do; instances. |
| `SimpleQueue_proofs` | Types, `ParkedMeansRefused` for both queues, `KeptUnlessRaced` for the e-stop queue. |
| `IoOutbox_proofs` | Types, three safety invariants and `NoSilentLoss`, an action property. |
| `DeltaFeed` | The way down for one subsystem: hint, sweep and catch-up ask for deltas, apply them and fetch the sections a delta flags, with the scoped pull as fallback. |
| `SseClient` | The connection to the event stream with every stream and timer that lives, those the client has forgotten included. |
| `L2Cells` | One functional-validation cell between tablet and cloud: edit, three pushers, the operator's queue actions, pull, event, reconciler. |
| `FullPull` | The destructive pulls, two at a time, seen from one result with its queue rows. |
| `PlcLink` | One PLC client with its reader, from creation to disposal, with overlapping calls. |
| `DeltaFeed_proofs`, `SseClient_proofs`, `L2Cells_proofs`, `FullPull_proofs`, `PlcLink_proofs` | Types and each safety property of these five modules, for all values of the constants. |
| `MCDeltaFeed`, `MCSseClient`, `MCL2Cells`, `MCFullPull`, `MCPlcLink` | Their instances. |

The modules meet where the components do, each holding the other's behaviour as its
environment: `IoOutbox`, `L2Cells` and `SimpleQueue` start their pushes by the rule that `PushQueue`
models (one at a time, one noted); `FullPull` has `IoOutbox`'s upload as one action that delivers or
rejects the oldest row; `DeltaFeed` has the scoped pull of `FullPull` as a refresh that local work
may refuse; `SseClient`'s hints and reconnects are `DeltaFeed`'s `Change` and `Catchup`.

`IoOutbox` contains the promise of `PushQueue` in a small form: `call[i]` is the
drain of IO `i` and `want` its dirty bit (`EnqueueSyncPush`, `Returned`).

### How `IoOutbox` corresponds to the code

| Variable | Code |
|---|---|
| `io` | the row in `Ios` and the newest local `TestHistories` row (`hist`, `histAt`); `removed` is `CloudRemoved` |
| `queue`, `nextId` | `PendingSyncs` and its AUTOINCREMENT; `base` is `Version`, `strikes` `RetryCount`, `dead` `DeadLettered`, `err` the class of `LastError` |
| `call`, `want` | pushes in flight of the instant drains and of `pushToCloud`; the dirty bits |
| `late` | requests the client has given up on and the cloud may still get |
| `bg` | where `pushToCloud` is: fetching for B7, holding B7's rows and view, or draining its batch |
| `rec` | the reconciler with the payload it fetched |
| `unseen`, `delta` | cloud changes behind the cursor; the delta that was fetched and not applied |
| `cloud` | result, comment, version and existence of the IO on the cloud |
| `log`, `settled`, `excused`, `ruled` | history variables for the properties; no action reads them |
| `left` | what remains of the bounds |

Every action is the code from one `await` to the next. Reductions, each of which
merges a step with one that can be delayed as long as one likes:

- The handlers' transaction on `Ios` and the `INSERT` into `PendingSyncs` have no
  `await` between them, so they are one action with two outcomes: the row is
  inserted, or it is not (an exception, or the process dies there). Three of the
  four routes load an already loaded module with `await import(...)` before they
  start the push; this is part of the action.
- In `pushToCloud` B7's updates, the retry cap, the batch `SELECT` and the sending
  of its first row are one action. The awaits in between (broadcast of the parked rows,
  configuration) precede a send, and a request may be under way for any time.
- The cap and the batch limit of 50 rows are not told apart from "all rows";
  rows are ordered by id where the code orders by `CreatedAt`.
- B7's throttle of two minutes is fairness: `TickB7` is a choice of a tick.
- A push that is short-circuited because the connection is known to be down is a
  network failure. So are 401, 403, 429 and 5xx, as in
  `sync-failure-classification.ts`.
- Dependency rows are not told apart from punchlist rows, and a reset sends no comment.
- One subsystem; one delta in flight at a time (`DeltaFeed` has several); no mass-delete breaker,
  no sweep of old parked rows at the start of `pushToCloud`.

`PUT /api/ios/:id` is three actions. `Put(i, result)` writes a result other than the stored one, as the word it
is given ('Cleared' too, where a reset stores NULL; `Stored` is what `Ios.Result` may hold, `Norm` what B7 makes of
it), with the comment kept, changed or removed. `Comment(i)` queues a row when the request's comment differs from the stored
one, which a request without a comment does as well; that row keeps the old text. `Touch(i)` changes nothing,
counts as a version and a history row, and queues nothing. `Puts` says which results go this way in an instance.

### How `SimpleQueue` corresponds to the code

`edits[k]` is the number of the edit that the table of checks (or of task states) holds,
`queue` the pending table, `push[k]` with `dirty` the entry of `k` in the push queue,
`bg` one run of `drainSimpleQueue`: the rows of its `Map` still ahead (`todo`), the MCMs of
its `SubsystemNetworkDeferral(1)` (`deferred`), the row and the request under way. The two
queues differ in what a push carries (`Start`, `GoOn`) and in which row of a key
survives deduplication (`Preferred`), as the code's two call sites do. `refusals` and
`atRisk` are history. Reductions:

- The loop parks rows at the cap as it comes to them; `GoOn` parks any subset of those
  still ahead together with the next send, by the copy it holds, so an operator's retry in
  between is undone as in the code.
- Rows of the batch are sent in any order; the batch is the `Limit` oldest by id, where
  the code orders by `CreatedAt` (one format in these tables).
- A lost request has landed or it has not; it does not land later. The cloud keeps the
  latest edit it has seen, so a late arrival could only repeat an earlier one.
- A broken MCM (wrong key, 401) fails every request; 429, 5xx and timeouts are the same
  to the code, a permanent 4xx is a refusal.
- A check has one identity; results that other tablets recorded (the down-flow) are left out.

### How the five further modules correspond to the code

*`DeltaFeed`.* `cursor` is `SyncCursors.LastSeq`, `windows` what `lastManualPullAt` and
`lastMcmCatchupAt` mean (30 s each), `hinted` the debounce timer, `hash` the entry of
`pullHashStore`, `gated` the pulls that queued work or a connected PLC refuses. `job[p]` is where a
puller waits: for the delta, with the delta in hand, with sections to refresh, with the payload of the
scoped pull in hand. The content of the IOs or of a section is the number of its last change-log entry,
so that "older" and "newer" can be compared. `config` stands for the six sections the scoped pull
refreshes together, `vfd` for blockers and addressed flags. A scoped pull ends in `PullApply`, where each section
of `Extras` may be skipped while the pull succeeds (`config-side-pulls.ts:15`), or in `PullEnds`: refused inside the transaction, or
answered as a success because the cloud sent no IOs. A pull whose self-call has timed out goes on in its route
(`auto-sync-pull.ts:266`); that is not in the model, where the route ends before its caller goes on. One hint puller at a time, though the code
does not prevent two: a sweep beside a hint has the same interleavings.

*`SseClient`.* `clients[c]` is a client object; `held` and `kept` are its `abortController` and
`reconnectTimer`, `streams` and `timers` all that live. The rejection of an aborted stream is a
microtask and part of the action that aborts (`Rejected`). Configurations are not empty; on an empty one the
listener returns and the client keeps what it has (`auto-sync.ts:263`). Times (10 s before the first start, 5 s to
5 min before a reconnect) are choices of when a step happens.

*`L2Cells`.* `local` is the row of `L2CellValues`, `rows` those of `L2PendingSyncs`, `instant`,
`drain` and `manual` the three pushes, `strays` requests that timed out and may arrive; `pull` goes
through the awaits of the pull route (`asked`, `served`, `merging` while the backup runs); `tracked` is
the cell in `recentPushedL2Keys`; `left` bounds the misfortunes and the operator's requests.
`owned` says whether the column is "Belt Tracked", which the cloud writes. Values are numbers of edits
and the cloud's clock is a choice (`later`). A park and its broadcast are one action.

*`FullPull`.* `rows` are the rows of the IO in `PendingSyncs`, `hash` the entry of `pullHashStore`;
`pulls[p]` goes through the awaits of a route call (`asking`, `served`, `backup`, `storing` while the
other sections are refreshed). Edits are numbered by their time stamps, so the guard's comparisons of
times are comparisons of numbers. Histories are rewritten with the result, the guard reads them.

*`PlcLink`.* `calls[c]` is what a call of `connect` or `disconnect` waits for: the 300 ms and the
handles of the reset, then one `createTag` after the other. `held` is the reader's map of native handles,
`old` the loops that were aborted and have not ended, `fails` `consecutiveErrorCycles`, `isConn` the
reader's own `isConnected`, which outlives a reset. The last cycle of an aborted loop ends when it likes, with success or
not (`OldLoopEnds`): a batch keeps the statuses that came in before the handles were destroyed, and the loop does not
look at its abort again. `loaded` is `ioTags`, which each request replaces; a client without tags is connected as soon
as it begins (`Begin`). `late` remembers such a last cycle that changed the status. `MaxAsks` bounds operators, `MaxTurns` the PLC. The
single-reader branch of `connect` is modelled; the dual one decides by the same rule.

## 3. Runs

| Run | Instance | Properties | Shows |
|---|---|---|---|
| `push_queue` | 2 keys, 3 loops, 3 edits per key | `TypeOK`, `OnePushPerKey`, `NoStrandedEdit`, `EveryEditPushed`, `ImplementsSerialPush` | the Map with its dirty bit is a one-slot queue in every order of edits, settling pushes and leaving loops |
| `outbox_safety` | 1 IO, 2 passes (refused, also by PUT), fails or comments, 1 crash, 1 cloud change, 1 retry or discard, `Cap` 1 | `RowsHaveTheirIo`, `HiddenMeansAway`, `NoSilentLoss` | no path through two drains, trigger, B7 and delta loses a result; delete and restore on the cloud leave no work without its IO and hide a row only while its IO is away |
| `outbox_recovery` | 1 IO, pass and clear (by reset and by PUT), 1 failed insert, 1 crash, reconciler; 3 rows | `TypeOK`, `EventuallySyncedOrParked` | cloud and tablet agree in the end, or a parked row says why not |
| `outbox_convergence` | 1 IO, pass (refused), clear, punchlist; 1 network failure, 1 cloud change (removals by code), `Cap` 1 | `ParkedMeansRuled`, `EventuallyQuiet`, `DrainsEnd` | an outage alone never parks; conflicts, rebases and strikes do not go on for ever; the instant drain's loop ends |
| `simple_queue` | 3 e-stop checks on 2 MCMs, one MCM unreachable, one check refused; 2 edits, 2 network failures, 1 crash, 1 lost insert, 1 retry or discard; `Cap` 2, a batch of 2 rows | `TypeOK`, `ParkedMeansRefused`, `KeptUnlessRaced`, `HealthyEditsArrive` | outages never park a safety result; an edit stored in a quiet moment is kept; a dead MCM does not hold up another as long as a batch reaches past its rows |
| `delta_feed` | hint with sweep or with catch-up, 2 at work; sections `config` and `l2`; 2 log entries; 1 misfortune (failure, crash, pruning, refusal, a scoped pull that skips sections) | `TypeOK`, `CursorCoversIos`, `CursorCoversSections`, `LostHintsHeal` | what the cursor has passed is in the tables, or overlapping payloads or a refused refresh say why not; the sweep heals lost hints |
| `event_stream` | 2 client objects, 3 configurations, 3 starts, 3 breaks or refusals | `TypeOK`, `NewestConfigServed`, `ConnectedMeansOpen`, `ReconnectsDoNotMultiply`, `EventuallyConnected` | a client in use has the newest configuration and a way to it; timers do not multiply; it connects in the end |
| `l2_cells` | 1 cell, 2 edits on tablet or cloud, 2 rows, `Cap` 2, 1 misfortune, 1 request of the operator (retry, un-park, discard, manual push); with pull, event, reconciler or manual push | `TypeOK`, `KeptUnlessRaced`, `EditsStand`, `QueueDrains`, `NothingMissing` | an edit keeps its row and its place but in the races named in the property; conflicts end; blanks on the cloud are filled |
| `full_pull` | 2 calls of any kind, 3 edits, 1 misfortune | `TypeOK`, `NothingErased`, `NoOpIsTruthful`, `PullsCatchUp` | a pull erases no edit its guards can see; the no-op is right; newer results arrive |
| `plc_link` | 2 tags or none, 2 calls, 3 asks, 3 turns of the PLC, loss after 2 cycles | `TypeOK`, `HandlesAreHeld`, `ConnectedIsRead`, `LossIsNoticed`, `Reconnects` | without overlapping calls handles and status are sound, or an aborted loop reported late; loss is noticed and repaired |
| `claim_rapid_edits` | smallest that shows it | `RapidEditsArrive` | section 6 |
| `claim_stuck_results` | 1 IO, a test and a punchlist edit, 1 cloud change; limits 3, 3 and 10 as in the code | `StuckResultsAreCarried` | section 6 |

**Bounds.** Rows of different IOs meet only in the background batch: in its
order, in the set of blocked IOs (a set per IO) and in the count of network
failures, so one IO is enough for properties that speak of one IO; the theorems of
section 4 hold for any set of IOs. Two operations give the pairs "row in flight, newer
row waiting" and "row parked, newer row accepted" and work before and after a removal; a third is left to
the theorems, which bound neither operations nor misfortunes and cover every safety property of these runs.
`Cap = 2` (1 in `outbox_safety` and `outbox_convergence`), `B7Strikes = 1` and `Tolerance = 1` reach what 10, 3 and 3 reach
after more repetitions of the same steps: the model has a counter
below, at and above each limit. The claims use the real values. `MaxOps`,
`MaxRows`, `MaxEdits` and `Budget` are the only bounds; each is a conjunct of the action it
bounds. `CHECK_DEADLOCK FALSE` in all configurations but those of `IoOutbox`: when everything is
delivered or parked and the budgets are spent, the system may rest. `outbox_recovery` has a third row for what the reconciler queues beside the two of the
operator, and clears through both routes. In
`MCSimpleQueue.cfg` two edits among three keys fill a queue with one row of a key, two of it, or one each of two
keys, and `Cap = 2` with one refused key lets strikes of either sender meet the cap; a batch of two
holds all of them.

In the five further modules one IO, cell or client is enough, since the code treats each by itself; what
several share is named above. `DeltaFeed` needs two log entries (one covered, one not), two payloads in hand
and one misfortune, which may be any one; all three pullers at once multiply the states without
new pairs. `Quick = FALSE` (a cloud that answers a resync without a snapshot) breaks
`LostHintsHeal` only in that a gate which is never lifted refuses the scoped pull for ever. `L2Cells`
takes one further actor at a time (`Actors`: pull, event, reconciler or manual push): each meets all
edits, pushes and releases of rows, and two of them meet only through the cell and its rows. In
`FullPull` two calls and three edits give every order of edit, check, answer, recheck and note, with a queue that holds
an older edit while the row of a newer one is missing. `PlcLink` has
three turns of the PLC (up, down, up again, or a wrong program in between) and three asks (connect, disconnect,
connect; or a disposal), each with both tags or none. `SseClient` has a break, a change and a start more than any one client
needs to have a stream and two forgotten timers.

**Fairness.** The event loop runs every continuation and each request has a
timeout, so `Answer` or `Lose`, and the reply's handling, happen (`WF` on `Drain`
per sender). `setInterval` timers fire for ever: `WF` on `PushToCloud`, `Delta`,
`RecFetch` and `RecAct`. B7 needs its throttle to have passed and rows to look
at when a tick comes; ticks come every 10 s and the throttle lasts two minutes, so it
is `SF`. In `SimpleQueue` each
instant push (`Answer`, `Settle`) and the drain (`TickDrain`, `BgAnswer`, `BgReply`) have
`WF` for the same reasons. `DeltaFeed`: `WF` on
the sweep, on each puller's work and on the end of the windows. `SseClient`: `WF` on delayed starts,
timers, and an answer to a request nothing ends. `L2Cells`: `WF` on drain, pushes, answers and
reconciler. `FullPull`: `WF` on uploads, on the steps of a call and on its start (the catch-up asks
every 15 minutes), and a PLC is disconnected in the end. `PlcLink`: `WF` on timers, read cycles
and each wait for the native library, which all have timeouts. Nothing is assumed of operators, failures, crashes, foreign edits or
late arrivals; liveness properties hold once those stop, which their budgets
force.

**Mutants.** Each property of a passing run has a mutant: a plausible mistake in one
mapped definition, written next to it under a comment that begins with `Bug:`,
with which the property fails. Some were real: `StrikingTransient` is the code
before June 2026, `ResultsOnly` the reconciler before clears were added.

## 4. Proofs

All theorems hold for every value of the constants that satisfies the assumption its module declares.
They ask for the kind of a constant and little more: limits are natural numbers, sets of names are subsets of
the known ones, `McmOf` gives each check an MCM, budgets are numbers per kind of misfortune. Four say more: a row
has at least one try (`Cap`, `Cycles` positive), an operation has room for its row
(`MaxOps <= MaxRows`), a PLC has finitely many tags, and there is a configuration to begin with
(`MaxConfig` positive). Two theorems have a hypothesis of their own, said below (`Plain`, `Kind = "estop"`). Every type
invariant, safety invariant and safety action property that the passing runs check is stated by a theorem.

*PushQueue.* `PushQueueInvariant` proves an inductive invariant: a key's entry
exists exactly while one loop of the key lives; a pushing loop covers the edits
of the moment it started; while the entry is clean, everything stored is covered.
From it follow `PushesAreSerial` (`OnePushPerKey`) and `NoEditIsStranded`
(`NoStrandedEdit`). `PushQueueTypes` adds that a dirty bit is never set for nothing (`DirtyIsStale`). `RefinesSerialPush` shows that the initial states map to initial
states of `SerialPush` and that every step maps to a step or a stutter.

*IoOutbox.* `OutboxTypes` proves `TypeOK`: the types with one lemma per action (`OutboxRecords`), and that
`isPushing` is held exactly while a row of the batch is on its way (`Held`, `NextHeld`).
`ParkedMeansRuled` is not inductive: the retry cap parks a row for its strikes,
and a drain parks on an answer that came a step earlier. The invariant therefore
follows a verdict through the system:

- `RepliesAreRuled`: an answer other than "ok" or "network" that a sender holds is
  of a row in `ruled`;
- `RowsSound`: each row with strikes, with the conflict mark or parked is in
  `ruled`; a row at its cap thus may be parked; a row is resolved only if
  orphaned, and its IO is in `Ios`.

With the types this is inductive, and it yields `NetworkNeverParks`
(`ParkedMeansRuled`) and `RowsKeepTheirIo` (`RowsHaveTheirIo`). The essential steps are
`Transient`, which counts no strike, and `DeltaApply`, whose check for rows and
deletion are one transaction and whose check counts parked rows too.

`HiddenRowsAreAway` (`HiddenMeansAway`) needs to know in addition what a fetched delta is worth: where its view of an
IO differs from the cloud, the IO has changed since and is in `unseen` again (`ViewIsRecent`). A delta that shows an
IO releases its rows and takes the tombstone off; one that shows it gone hides them, and then the cloud has no such
IO, or a later change will show it. Only an answer to a push hides rows without looking there, and it sets the tombstone. `HInv` joins this to the invariant above.

`ResultsDoNotVanish` is `NoSilentLoss` for *plain* instances (`Plain`): `Ops` has no metadata edits, and where it has
clears it has no comments and the reconciler is off. With metadata, or comments beside clears, the property is false,
and the attempts to prove it are how that was found (section 6: B7 and the punchlist, the clear under a
comment). The reconciler beside clears is left open: it queues a clear under a new id, and the argument needs
the id to be the time of the clear. Its difficulty is that B7
and the drains delete by the id of a row read before an await, so its invariant `LInv` must say what
a copy may claim of the table. It goes back to the log of operations: every row and every copy a sender holds, also
late requests, is an entry of the log, and an id has one entry (`LogOK`, `Recorded`, `InFlight`); an accepted push is
settled before its row goes (`AcceptedIsSettled`); the cloud's result, and the one a delta brings, comes from an
entry (`CloudComes`); and a queued result is what the tablet holds unless later work overtook it, a queued clear also
still the last thing in its history (`Stands`), which is what keeps a delta off it. B7 drops a row that is not what
the tablet holds: by `Stands` it has been overtaken.

*SimpleQueue.* `ParkedMeansRefused` is about a history counter and needs an account: `Owed(k)`
is the number of refusals a sender has been told of and not yet written to the rows. The
invariant `Counted` says that the strikes of a row plus what is owed never exceed
`refusals`; `Held` relates the copies a run of the drain holds to the table (same id, same
key), which is what makes parking and striking by a copied id sound; `Edited` and `Covered`
relate pushes, the table and the cloud. `LoopSound` and `LocalSound` carry the invariant over the
drain's steps and over all others. From it `QueueTypes` and `OutagesNeverPark` follow. For the
e-stop queue `Unraced` adds that a push whose key is not at risk carries the latest
edit; so when its acceptance deletes the rows of the key, the cloud has that edit
(`QuietEditsAreKept`, whose hypothesis is `Kind = "estop"`). The guided queue does not have this property: with more rows than a
batch the drain sends an older state and its acceptance deletes the newer row.

*FullPull.* `NothingErased` is an argument about the tablet's last edit that the cloud has not taken. Nothing
else is as new: no row, no payload, no state of the cloud (`Latest`, on `Dated`). While its row is queued the check
inside the transaction stops every scoped pull. Once the row is missing, a pull that can still rewrite the table
has either seen the result as newer than its payload or been forced, and for a lost clear there was nothing in the queue
when it looked (`Guarded`). `NoOpIsTruthful` adds `Noted`: a payload waiting to be noted is not newer than
what the table was rewritten from. `EditsOutlivePulls`, `NoOpsAreTrue`.

*DeltaFeed.* The invariant follows a payload to the table. A request's cursor is not ahead of the local one
(`Behind`); a delta covers what lies between that cursor and the head it was taken at, by content for the IOs
(`Ios`, while no two payloads were in hand at once) and by a flag for each section (`Flags`); and a
section the cursor has passed without being fetched is one that a puller still owes, or one that was dropped
(`Sections`). What a puller owes leaves out what a catch-up fetches only after its scoped pull has succeeded.
`CursorNeverSkipsIos`, `CursorNeverSkipsSections`.

*L2Cells.* `KeptUnlessRaced` is inductive with the types, which hold the distinctness of row ids. The action property
`EditsStand` needs in addition that the wanted value is the one in the table (`Held`) and that a merge
that saw no row came before the edit, or a push had taken the row along (`MergeKnows`). `EditsKeepTheirRow`,
`EditsAreNotOverwritten`.

*PlcLink.* While no call has crossed another, at most one is at work (`Alone`), and the map holds what that
one has created (`Creating`), so no handle is replaced and a connected client with tags has handles and a
loop, unless an aborted loop said so after the fact (`late`); a disposed client starts nothing (`Quiet`). The type of `old` is the hard part of the types: loops that were
aborted and still run are bounded only because each was started by a call, each call by an operator or the
timer, and the timer by a failure or by losing a PLC that had been there (`Spending`, `Unseen`).
`NoHandleIsLost`, `ConnectedClientsRead`.

*SseClient.* The client in use never has given up, has the newest configuration, and owns a stream with it or a
timer (`Serves`, `InService`); that no state of the connection keeps a change of the configuration from starting a
stream is the part that fails without the invariant. The action property `ReconnectsDoNotMultiply` then goes method by
method: each leaves a client as many streams and timers as it had. `CurrentConfigIsServed`, `ConnectedIsOpen`,
`ReconnectsKeepTheLoad`.

The proofs corrected the models in five places, none of which TLC's instances had shown: `RecAct` of `IoOutbox` gave
two restored rows different numbers only if a clear was among them; the race of two pulls and the missing row behind
an older one were exceptions that `FullPull` had stated too narrowly (`crossed`, `Masked`);
`SseClient` needs a first configuration; the types of `DeltaFeed` had left out which gates there are.

Only model-checked:

- Everything under fairness: `EveryEditPushed`, `EventuallySyncedOrParked`, `EventuallyQuiet`, `DrainsEnd`,
  `HealthyEditsArrive`, `LostHintsHeal`, `EventuallyConnected`, `QueueDrains`, `NothingMissing`, `PullsCatchUp`,
  `LossIsNoticed`, `Reconnects`, and the liveness half of `ImplementsSerialPush`. Liveness and `ENABLED` are out of
  the prover's reach.
- Nothing here needs induction over data or a RECURSIVE operator.

## 5. The cloud, as assumed

The server is external. From `__tests__/sync-version.test.ts`,
`cloud-sync-service.ts` and the comments that describe its replies: a push is accepted
if its base version is the version held, and the version then increments; otherwise
`updatedCount` is 0. A push may be rejected for good (`rejected[].permanent`);
an IO that is gone is reported by an HTTP status or by a rejection code (constant
`GoneAs`). Accepted pushes, edits, deletions and restorations appear in the change feed
once each.

For e-stop checks and guided states the code reads nothing but the HTTP status, so an accepted
push is one the cloud applies, and the cloud keeps the latest edit it has been sent; a check
the cloud refuses for good answers 4xx to every push.

## 6. What the code does otherwise than it says

Two have a run that TLC ends with the behaviour.

`RapidEditsArrive`. A guided task state that changes
while its push is under way is never sent. The acceptance deletes all rows of the task, and the
repeated push reads its state from the queue and finds none
(`guided-task-state-sync.ts:69-112`). The e-stop route reads the table instead and loses the edit only if the
repeated push fails too: its comment "leave the pending row for background retry" (`check/route.ts:154`) then
speaks of a row that is gone.

`StuckResultsAreCarried`. B7 deletes a stuck row when a newer active row of its IO is of the same kind, and
its test of the kind knows comments and everything else (`b7-supersede.ts:31-38`). A punchlist or dependencies row counts
as everything else and carries no result. A test, a punchlist edit behind it, an edit of the IO on the cloud:
the test conflicts three times, B7 drops it as superseded, and the punchlist row delivers its own field. The header of
that file says of this very effect of comments that it "silently LOSES the result". The reconciler repairs it only
if the cloud's result is empty.

The others have no run of their own. They are behaviours of the models, and the properties name them as
exceptions.

Upload:

- The trigger lets a comment delete an unsent result of the same IO. The reconciler fills only empty
  results on the cloud, so pass, push, fail, comment leaves "Passed" on the cloud for good
  (`db-sqlite.ts:447-461`: "Result/comment ops have the orphan-reconciler as a net").
- The instant drain recognises a removal by HTTP status only. A removal told by a rejection code is
  dead-lettered, and no restore releases the row (`pending-sync-utils.ts:12` and `:129`).
- The sweep after an accepted push deletes parked rows of the IO that are newer than the accepted
  one (`auto-sync.ts:572-580`: "any earlier PARKED ... row").
- In the simple queues deferral protects other MCMs only while the batch of 50 holds a row of theirs. Rows
  of a broken MCM are never struck, so once there are 50 they are every batch (`drain-simple-queue.ts:84-120`).
- A network failure overwrites the last error that marks a row as version
  conflict, so the doubled cap of `auto-sync.ts:414` becomes the single one and B7
  no longer sees the row.
- `orphan()` acts on the answer whenever it comes. If a delta has restored the IO
  in between, the row is hidden and the IO tombstoned although it is back, and no later delta
  mentions it (`delta-sync.ts:502` says what hiding relies on). `HiddenMeansAway` excepts tombstoned IOs because of it.
- `PUT /api/ios/:id` accepts 'Cleared' and stores the word (`app/api/ios/[id]/route.ts:76,110`), where a reset stores NULL. The
  reconciler then takes it for a result: it queues it again whenever the cloud's result is empty
  (`result-reconciler.ts:105-118`), and where its row is lost and the cloud holds a result it sees two results that differ
  and leaves them, while it would push the clear of a reset again. `EventuallySyncedOrParked` excepts it.
- A PUT that leaves the comment out, with a result that is the stored one or none, is classified as the
  removal of a comment that stays: the row 'Comment Removed' carries the old text (`app/api/ios/[id]/route.ts:140`).
- `sync-queue.ts:2` promises one push in flight per IO; `pushToCloud` sends the
  same rows on its own, and after a B7 rebase the older result may land last.
- A delta fills an empty local comment from the cloud while the removal of that
  comment is queued; B7 then deletes the row. `NoSilentLoss` speaks of results
  because of this one and the next but one; and it lets a row go that was parked on a verdict
  because of 3.
- The same for a result: "A deliberate, recent operator clear must not be silently reverted" (`delta-sync.ts:518`)
  holds while the clear is the last entry of the history. A comment after it adds the entry "Updated"
  (`app/api/ios/[id]/route.ts:115`), the next delta brings the old result back, and B7 drops the queued clear as no
  longer true. `NoSilentLoss` therefore is checked and proved without comments beside clears.
- B7 un-parks by id a row that a delta orphaned during B7's fetch (`auto-sync.ts:1276`), which leaves
  it `Orphaned` and `Resolved` but active; `pending-sync-repository.ts:86` calls orphaned a
  strict subset of parked.
- B7 treats a conflicted punchlist row as a result also when it looks at it for its own sake, finds it out of date
  and deletes it (`auto-sync.ts:1331`).
- The reconciler's pair "clear, then comment" loses the clear to the trigger.
- Parking in the simple drain goes by the copy read at the start of the run, so it undoes a
  retry an operator made in between.

The way down:

- A section flagged by a delta whose refresh is refused (409), fails, or is not one the catch-up takes (guided
  states, filled L2 tables) is not asked for again: the cursor has passed it
  (`auto-sync-pull.ts:150-178`). A restart between the two has the same effect, and so has a scoped pull that
  succeeds without the section, because its fetch failed or came back empty (`config-side-pulls.ts:15-17`).
- Two payloads in hand at once can be applied in the wrong order; the forward-only cursor then covers a
  change that the table has lost again.
- A hint within 30 s of a manual pull is dropped; only the sweep brings its change.

Pulls:

- `mcm/[subsystemId]/pull/route.ts:146` says of parked rows "Both still BLOCK this DESTRUCTIVE
  pull"; the code below discards them (187-225). "Sync Center clean, pull runs" (196) does not hold
  either: the at-risk guard still refuses.
- Of two overlapping pulls the second discards a parked row and the first, past its guard, erases
  the result the row stood for. An edit whose queue insert failed and a clear made during the fetch
  are as invisible to the recheck.
- To the guard a clear made elsewhere is a result that the cloud lacks, whatever its time
  (`pull-guard.ts:32`): it never arrives by a pull.
- The check for newer results leaves out an IO with any queue row, because "queued rows already block the
  pull outright" (`pull-guard.ts:163`). They block it before the fetch and in the transaction: a row stored after
  the first and uploaded before the second blocks neither, and a newer test of the IO whose own row is
  missing goes with the table (`Masked`; three edits and one failed statement).
- The PLC check of the route (117) is not repeated after the fetch.

L2 cells:

- An accepted push, of either sender, deletes the rows of the cell that were inserted meanwhile. If the
  later edit's own push fails, nothing retries it; the reconciler looks only for blanks.
- The pull reads the cells with rows before it awaits its backup; an edit in between is overwritten, though
  `pull-l2/route.ts:304` relies on "the cell has NO un-pushed local edit". Its header (40-49) says that
  parked rows block a pull; the code lets them pass (59-71).
- One cell's removal (403, 404, 410) orphans every row of the batch.
- A conflict of the manual push rebases and strikes the parked rows of the cell too (`sync-l2/route.ts:177`),
  and its acceptance deletes them; the comment at 26 says that it leaves parked rows alone.
- `POST /api/cloud/unpark` leaves `Orphaned` set on the row it releases (`unpark/route.ts:48`); the Sync
  Center's retry clears it.

Event stream:

- `stop()` leaves a delayed start and the configuration listener in place, and a forgotten timer opens a
  stream even after `disconnect()`. Such a stream may serve a former configuration for as long as it
  lasts ("so SSE client stays in sync", `auto-sync.ts:252`).
- A client that the listener creates has none of the handlers that `start` registers: its hints and its
  reconnects reach nobody ("When SSE (re)connects, push pending items + pull", `auto-sync.ts:223`).

PLC:

- `connect` looks at the status before it awaits the reset, so two calls can both create handles, and those
  of the first are never destroyed (`plc-client.ts:293-331`).
- A pending reconnect timer is not cancelled by a manual connect and later tears a healthy connection down. A
  disconnect during a connect ends with "connected" and no read loop.
- An aborted loop may end its last cycle with a success after the reset has destroyed the handles
  (`tag-reader.ts:758`, `libplctag.ts:962-1003`). After a loss `isConnected` is FALSE, so this success reports "connected":
  after a disconnect, or during a connect, which may then fail with its reconnect timer cancelled. Nothing
  reads such a client until an operator connects again. `ConnectedIsRead` and `Reconnects` except it (`late`), `LossIsNoticed` speaks of
  clients that read.
- A client whose MCM has no named tags is "connected" without a look at the PLC (`plc-client.ts:334`, `502`).
- A change of the address while the client is connecting disposes of it in the middle; the call goes on and its
  loop polls for ever (`api/mcm/[subsystemId]/route.ts:85-97`).
- `resetForReconnection` leaves `isConnected` as it was: after a loss and a reconnect, a PLC that dies before
  its first successful cycle is reported as connected for ever. `connection-verdict.ts` says "a
  genuinely dead PLC (all reads failing) still triggers reconnect". `LossIsNoticed` excepts this state (`~isConn`).

## 7. Not modelled, and the plan

Done: the upload of results (`SerialPush`, `PushQueue`, `IoOutbox`), of checks and task states
(`SimpleQueue`), the way down (`DeltaFeed`, `FullPull`), the event stream (`SseClient`), the L2 cells
(`L2Cells`) and the PLC connection (`PlcLink`).

What is left, by what it would show:

1. Theorems: abstract specifications beside `SerialPush` (of the upload queue: a result is queued, on the cloud, or
   accounted for) and their refinement; `NoSilentLoss` for clears beside comments, should the code protect them.
2. `l2-outbox.ts`: two tabs that share a localStorage map, a stale retry after a newer edit. `backlog-readjudication.ts`: a row is
   released at most once across restarts. Heartbeat commands: acknowledged at least once. Task claims.
3. Several subsystems in one background batch; the mass-delete breaker; results from other tablets
   (`io_updated`, e-stop down-flow).
4. The network poller and the second PLC reader.

Not modelled and not planned: the blocker queue (a fork of the drain that `SimpleQueue` models), the gateway's
mirror of tag values (last value wins, nothing durable), connection health (read by the display
only), VFD controller writes (timing against hardware that the repository does not hold), journals and
configuration (file I/O without control decisions), deployment scripts. About a third of the
implementation is pages and components of the user interface (`.tsx`), whose requests are the
operators' actions of the modules; much of the rest is request handlers that read one row and
write one row, and the VFD, guided-testing and configuration code named above. The share of lines the
map covers is small for that reason. `PROJECT.json` says for each part what is in it.
