-------------------------- MODULE IoOutbox_proofs --------------------------
(***************************************************************************)
(* What holds of the upload queue for every set of IOs, every cap and      *)
(* every bound.  ParkedMeansRuled is not inductive: the retry cap parks    *)
(* rows that have strikes, and a drain parks on an answer it got a step    *)
(* earlier.  The inductive invariant therefore follows the verdict from    *)
(* the answer (RepliesAreRuled) through the strikes and the conflict mark  *)
(* of a row to its parking (RowsSound).                                    *)
(*                                                                         *)
(* First the types, then the rows, then what NoSilentLoss needs, each with *)
(* one lemma per action.                                                   *)
(***************************************************************************)
EXTENDS IoOutbox, WellFoundedInduction, TLAPS

\* A row as it is inserted.
LEMMA NewRow ==
  ASSUME NEW id \in 1..MaxRows, NEW i \in Io, NEW op \in Op, NEW note \in 0..MaxRows, NEW base \in Nat
  PROVE  Row(id, i, op, note, base) \in RowType
  BY DEF Row, RowType, None

\* What the senders do to a row leaves it a row.
LEMMA RowChanges ==
  ASSUME NEW r \in RowType
  PROVE  /\ DeadLetter(r) \in RowType /\ Orphan(r) \in RowType /\ Release(r) \in RowType
         /\ Transient(r) \in RowType /\ Strike(r) \in RowType /\ ParkAtCap(r) \in RowType
  <1>1. DeadLetter(r) \in RowType
    BY DEF DeadLetter, RowType
  <1>2. Orphan(r) \in RowType
    BY DEF Orphan, RowType
  <1>3. Release(r) \in RowType
    BY DEF Release, RowType
  <1>4. Transient(r) \in RowType
    BY DEF Transient, RowType
  <1>5. Strike(r) \in RowType
    <2>1. r.strikes + 1 \in Nat
      BY DEF RowType
    <2> DEFINE n == r.strikes + 1
    <2>2. n \in Nat /\ Strike(r) = [r EXCEPT !.err = "conflict", !.strikes = n]
      BY <2>1 DEF Strike
    <2> HIDE DEF n
    <2> QED BY <2>2 DEF RowType
  <1>6. ParkAtCap(r) \in RowType
    BY DEF ParkAtCap, RowType
  <1> QED BY <1>1, <1>2, <1>3, <1>4, <1>5, <1>6

\* What a sender keeps of a row, or of a payload, is a payload.
LEMMA Payloads ==
  ASSUME NEW r, r \in RowType \/ r \in PayloadType
  PROVE  Payload(r) \in PayloadType
  BY DEF Payload, RowType, PayloadType

\* The oldest row of a set of rows or payloads is one of them.
LEMMA OldestIsOne ==
  ASSUME NEW rows, rows # {}, \A r \in rows : r.id \in Nat
  PROVE  Oldest(rows) \in rows
  <1> DEFINE ids == {r.id : r \in rows}
  <1>1. ids \subseteq Nat /\ ids # {}
    OBVIOUS
  <1>2. PICK n \in ids : \A m \in ids : ~(<<m, n>> \in OpToRel(<, Nat))
    BY <1>1, WFMin, NatLessThanWellFounded
  <1>3. \A m \in ids : n <= m
    <2> HIDE DEF ids
    <2> TAKE m \in ids
    <2>1. m \in Nat /\ n \in Nat
      BY <1>1
    <2>2. <<m, n>> \in Nat \X Nat /\ ~(m < n)
      BY <1>2, <2>1 DEF OpToRel
    <2> QED BY <2>1, <2>2
  <1>4. PICK r \in rows : r.id = n
    BY <1>2
  <1>5. \A x \in rows : r.id <= x.id
    BY <1>3, <1>4
  <1> QED BY <1>4, <1>5 DEF Oldest

\* The states of a sender, of pushToCloud and of the reconciler.
LEMMA CallStates ==
  /\ Idle \in CallState /\ Idle \in RecState /\ BgIdle \in BgState
  /\ \A r \in RowType \cup PayloadType : Sent(r) \in CallState
  /\ \A r \in PayloadType, x \in Reply : Answered(r, x) \in CallState
  BY Payloads DEF CallState, RecState, BgState, Sent, Answered

\* A sender that has sent or been answered holds a payload.
LEMMA PayloadOf ==
  ASSUME Types, NEW s \in Sender, call[s].pc \in {"sent", "answered"}
  PROVE  /\ call[s].row \in PayloadType
         /\ call[s].pc = "answered" => call[s].reply \in Reply
  BY DEF Types, CallState, Idle

\* Inserting, deleting and amending rows of the table leaves rows.
LEMMA TableChanges ==
  ASSUME NEW q \in SUBSET RowType, NEW new \in SUBSET RowType, NEW ids
  PROVE  /\ Insert(q, new) \in SUBSET RowType /\ Delete(q, ids) \in SUBSET RowType
         /\ Amend(q, ids, Orphan) \in SUBSET RowType /\ Amend(q, ids, Release) \in SUBSET RowType
         /\ Amend(q, ids, DeadLetter) \in SUBSET RowType
         /\ Amend(q, ids, Transient) \in SUBSET RowType /\ Amend(q, ids, Strike) \in SUBSET RowType
  <1>1. Insert(q, new) \in SUBSET RowType /\ Delete(q, ids) \in SUBSET RowType
    BY DEF Insert, Delete
  <1>2. Amend(q, ids, Orphan) \in SUBSET RowType /\ Amend(q, ids, Release) \in SUBSET RowType
    BY RowChanges DEF Amend
  <1>3. /\ Amend(q, ids, DeadLetter) \in SUBSET RowType
        /\ Amend(q, ids, Transient) \in SUBSET RowType /\ Amend(q, ids, Strike) \in SUBSET RowType
    BY RowChanges DEF Amend
  <1> QED BY <1>1, <1>2, <1>3

\* The steps of the drains keep the types of what they change.
LEMMA ResumeType ==
  ASSUME Types, NEW i \in Io, NEW q \in SUBSET RowType, Resume(i, q)
  PROVE  call' \in [Sender -> CallState]
  <1>1. Active(q, i) \subseteq RowType
    BY DEF Active, RowsOf
  <1>2. Active(q, i) # {} => Oldest(Active(q, i)) \in RowType
    BY <1>1, OldestIsOne DEF RowType
  <1> QED BY <1>2, CallStates DEF Resume, Types

\* enqueueSyncPush: the dirty bit, or the start of a drain.
LEMMA EnqueueType ==
  ASSUME Types, NEW i \in Io, NEW q \in SUBSET RowType, EnqueueSyncPush(i, q)
  PROVE  call' \in [Sender -> CallState] /\ want' \subseteq Io
  <1>1. CASE call[i] = Idle
    BY <1>1, ResumeType DEF EnqueueSyncPush, Types
  <1>2. CASE call[i] # Idle
    BY <1>2 DEF EnqueueSyncPush, Types
  <1> QED BY <1>1, <1>2

\* A drain that returns, or starts over.
LEMMA ReturnedType ==
  ASSUME Types, NEW i \in Io, NEW q \in SUBSET RowType, Returned(i, q)
  PROVE  call' \in [Sender -> CallState] /\ want' \subseteq Io
  <1>1. CASE i \in want
    BY <1>1, ResumeType DEF Returned, Types
  <1>2. CASE i \notin want
    BY <1>2, CallStates DEF Returned, Types
  <1> QED BY <1>1, <1>2

\* A drain that goes on with the next row.
LEMMA ContinueType ==
  ASSUME Types, NEW i \in Io, NEW q \in SUBSET RowType, Continue(i, q)
  PROVE  call' \in [Sender -> CallState] /\ want' \subseteq Io
  <1>1. CASE Active(q, i) = {}
    BY <1>1, ReturnedType DEF Continue
  <1>2. CASE Active(q, i) # {}
    BY <1>2, ResumeType DEF Continue, Types
  <1> QED BY <1>1, <1>2

\* pushToCloud going on with its batch.
LEMMA GoOnType ==
  ASSUME Types, NEW batch \in SUBSET PayloadType, NEW blocked \in SUBSET Io, NEW fails \in Nat,
         GoOn(batch, blocked, fails)
  PROVE  call' \in [Sender -> CallState] /\ bg' \in BgState
  <1> DEFINE todo == {r \in batch : r.io \notin blocked /\ fails < Tolerance}
  <1>1. CASE todo = {}
    BY <1>1, CallStates DEF GoOn, Types
  <1>2. CASE todo # {}
    <2>1. Oldest(todo) \in PayloadType
      BY <1>2, OldestIsOne DEF PayloadType
    <2>2. call' \in [Sender -> CallState]
      BY <1>2, <2>1, CallStates DEF GoOn, Types
    <2>3. bg' = BgDrain(todo \ {Oldest(todo)}, blocked, fails)
      BY <1>2 DEF GoOn
    <2>4. todo \ {Oldest(todo)} \in SUBSET PayloadType
      OBVIOUS
    <2> HIDE DEF todo
    <2>5. bg' \in BgState
      BY <2>3, <2>4 DEF BgDrain, BgState
    <2> QED BY <2>2, <2>5
  <1> QED BY <1>1, <1>2

\* The retry cap, and the start of a batch.
LEMMA CapAndDrainType ==
  ASSUME Types, NEW q \in SUBSET RowType, CapAndDrain(q)
  PROVE  queue' \subseteq RowType /\ call' \in [Sender -> CallState] /\ bg' \in BgState
  <1>1. queue' \subseteq RowType
    BY RowChanges DEF CapAndDrain
  <1>2. {Payload(r) : r \in {x \in queue' : ~x.dead}} \in SUBSET PayloadType
    BY <1>1, Payloads
  <1> QED BY <1>1, <1>2, GoOnType DEF CapAndDrain

\* One lemma per action: it keeps the type invariant.
LEMMA RecordType ==
  ASSUME Types, NEW i \in Io, NEW op \in Op, NEW note \in 0..MaxRows, NEW newIo \in IoType,
         Record(i, op, note, newIo)
  PROVE  Types'
  <1>1. nextId \in 1..MaxRows /\ nextId' \in 1 .. MaxRows + 1
    BY IoOutboxAssumption DEF Record, Types
  <1>2. io[i].version \in Nat /\ io[i].version + 1 \in Nat
    BY DEF Types, IoType
  <1>3. io' \in [Io -> IoType]
    <2> DEFINE v == io[i].version + 1
    <2>1. io' = [io EXCEPT ![i] = [newIo EXCEPT !.version = v]]
      BY DEF Record
    <2> HIDE DEF v
    <2>2. v \in Nat
      BY <1>2 DEF v
    <2>3. [newIo EXCEPT !.version = v] \in IoType
      BY <2>2 DEF IoType
    <2> QED BY <2>1, <2>3 DEF Types
  <1>4. queue' \in SUBSET RowType /\ call' \in [Sender -> CallState] /\ want' \subseteq Io
    <2>1. {Row(nextId, i, op, note, io[i].version)} \in SUBSET RowType
      BY <1>1, <1>2, NewRow
    <2>2. queue \in SUBSET RowType
      BY DEF Types
    <2>3. CASE /\ queue' = Insert(queue, {Row(nextId, i, op, note, io[i].version)})
               /\ EnqueueSyncPush(i, queue')
      BY <2>1, <2>2, <2>3, TableChanges, EnqueueType
    <2>4. CASE UNCHANGED <<queue, want, call>>
      BY <2>2, <2>4 DEF Types
    <2> QED BY <2>3, <2>4 DEF Record
  <1>5. UNCHANGED <<cloud, unseen, delta, late, bg, rec>>
    BY DEF Record
  <1> QED BY <1>1, <1>3, <1>4, <1>5 DEF Types

\* A request is for an IO that is present, and within the bound.
LEMMA OperatorMay ==
  ASSUME Types, NEW i \in Io, Operator(i)
  PROVE  nextId \in 1..MaxRows /\ io[i].present
  <1>1. ASSUME NEW op, NEW note, NEW newIo, Record(i, op, note, newIo)
        PROVE  nextId <= MaxOps /\ io[i].present
    BY <1>1 DEF Record
  <1>2. nextId <= MaxOps /\ io[i].present
    BY <1>1 DEF Operator, Test, Reset, Put, Comment, Touch, Punchlist
  <1> QED BY <1>2, IoOutboxAssumption DEF Types

\* The comments a request may leave are comments.
LEMMA NotesType ==
  ASSUME Types, NEW i \in Io, nextId \in 1..MaxRows
  PROVE  Notes(i) \subseteq 0..MaxRows
  BY IoOutboxAssumption DEF Notes, Types, IoType

\* What PUT /api/ios/:id writes when it has a result: a well-formed IO, present as before.
Written(i, result, note) == [io[i] EXCEPT !.result = result, !.comment = note,
                                          !.hist = result, !.histAt = nextId]
LEMMA WrittenType ==
  ASSUME Types, NEW i \in Io, NEW note \in 0..MaxRows, NEW result \in Puts, nextId \in 1..MaxRows
  PROVE  /\ result \in Op /\ result \in Ops /\ result \in ResultOps
         /\ Written(i, result, note) \in IoType
         /\ Written(i, result, note).result = result /\ Written(i, result, note).hist = result
         /\ Written(i, result, note).histAt = nextId
         /\ Written(i, result, note).present = io[i].present
         /\ Written(i, result, note).removed = io[i].removed
  <1>1. io[i] \in IoType /\ nextId \in 0..MaxRows
    BY IoOutboxAssumption DEF Types
  <1>2. result \in Op /\ result \in Ops /\ result \in ResultOps /\ result \in Stored
    BY IoOutboxAssumption DEF Op, ResultOps, Stored, Result
  <1> QED BY <1>1, <1>2 DEF Written, IoType

\* A comment request leaves a well-formed IO, present as before.
LEMMA CommentedType ==
  ASSUME Types, NEW i \in Io, NEW note \in 0..MaxRows, nextId \in 1..MaxRows
  PROVE  Commented(i, note) \in IoType /\ Commented(i, note).present = io[i].present
  <1> DEFINE h == IF io[i].result = None THEN "Updated" ELSE io[i].result
  <1>1. io[i] \in IoType /\ nextId \in 0..MaxRows
    BY IoOutboxAssumption DEF Types
  <1>2. h \in Stored \cup {"Updated"}
    BY <1>1 DEF IoType
  <1>3. Commented(i, note) = [io[i] EXCEPT !.comment = note, !.histAt = nextId, !.hist = h]
    BY DEF Commented
  <1> HIDE DEF h
  <1> QED BY <1>1, <1>2, <1>3 DEF IoType

\* It leaves the result and the tombstone alone, and writes the result to the history.
LEMMA CommentedHas ==
  ASSUME NEW i \in Io, io[i] \in IoType, NEW note
  PROVE  /\ Commented(i, note).result = io[i].result
         /\ Commented(i, note).removed = io[i].removed
         /\ Commented(i, note).hist \in {io[i].result, "Updated"}
  BY DEF Commented, IoType

\* The requests of the operators are instances of Record, except one that changes nothing.
LEMMA OperatorType ==
  ASSUME Types, NEW i \in Io, Operator(i)
  PROVE  Types'
  <1> nextId \in 1..MaxRows
    BY OperatorMay
  <1> io[i] \in IoType /\ io[i].comment \in 0..MaxRows /\ 0 \in 0..MaxRows /\ nextId \in 0..MaxRows
    BY IoOutboxAssumption DEF Types, IoType
  <1> {"Passed", "Failed", "Cleared", "Comment", "Punchlist"} \subseteq Op
    BY DEF Op, MetaOps, ResultOps
  <1>1. ASSUME NEW result \in {"Passed", "Failed"}, Test(i, result) PROVE Types'
    <2>1. [io[i] EXCEPT !.result = result, !.comment = 0, !.hist = result, !.histAt = nextId] \in IoType
      BY DEF IoType, Stored, Result
    <2> QED BY <1>1, <2>1, RecordType DEF Test
  <1>2. CASE Reset(i)
    <2>1. [io[i] EXCEPT !.result = None, !.comment = 0, !.hist = "Cleared", !.histAt = nextId] \in IoType
      BY DEF IoType, Stored, Result
    <2> QED BY <1>2, <2>1, RecordType DEF Reset
  <1>3. CASE Comment(i)
    <2>1. PICK note \in Notes(i) : Record(i, "Comment", note, Commented(i, note))
      BY <1>3 DEF Comment
    <2> QED BY <2>1, NotesType, CommentedType, RecordType
  <1>4. CASE Punchlist(i)
    BY <1>4, RecordType DEF Punchlist
  <1>5. CASE Touch(i)
    <2>1. io[i].version + 1 \in Nat
      BY DEF IoType
    <2>2. [Commented(i, io[i].comment) EXCEPT !.version = @ + 1] \in IoType
      <3>1. Commented(i, io[i].comment).version + 1 \in Nat
        BY CommentedType DEF IoType
      <3> QED BY <3>1, CommentedType DEF IoType
    <2>3. io' \in [Io -> IoType]
      BY <1>5, <2>2 DEF Touch, Types
    <2>4. nextId' \in 1 .. MaxRows + 1
      BY <1>5, IoOutboxAssumption DEF Touch
    <2>5. UNCHANGED <<queue, cloud, unseen, delta, want, call, late, bg, rec>>
      BY <1>5 DEF Touch
    <2> QED BY <2>3, <2>4, <2>5 DEF Types
  <1>6. ASSUME NEW result \in Puts, Put(i, result) PROVE Types'
    <2>1. PICK note \in Notes(i) : Record(i, result, note, Written(i, result, note))
      BY <1>6 DEF Put, Written
    <2> QED BY <2>1, NotesType, WrittenType, RecordType
  <1> QED BY <1>1, <1>2, <1>3, <1>4, <1>5, <1>6 DEF Operator

\* Retry and Discard change the table only.
LEMMA QueueActionType ==
  ASSUME Types, NEW r \in queue, Retry(r) \/ Discard(r)
  PROVE  Types'
  <1>1. queue' \in SUBSET RowType
    BY TableChanges DEF Retry, Discard, Types
  <1> QED BY <1>1 DEF Retry, Discard, Types

\* The cloud processing a row changes the cloud, and only its own types.
LEMMA ArriveType ==
  ASSUME Types, NEW r \in PayloadType, Arrive(r)
  PROVE  cloud' \in [Io -> CloudType] /\ unseen' \subseteq Io /\ Verdict(r) \in Reply
  <1>1. r.io \in Io /\ cloud[r.io] \in CloudType /\ r.id \in 0..MaxRows /\ r.note \in 0..MaxRows
    BY DEF Types, PayloadType
  <1>2. r.op \in ResultOps => Norm(r.op) \in Result
    BY DEF ResultOps, Norm, Result
  <1>3. ASSUME NEW c \in CloudType PROVE Landed(c, r) \in CloudType
    <2> DEFINE v == c.version + 1
               res == IF r.op \in ResultOps THEN Norm(r.op) ELSE c.result
               at == IF r.op \in ResultOps THEN r.id ELSE c.at
               com == IF r.op \in MetaOps THEN c.comment ELSE r.note
    <2>1. v \in Nat /\ res \in Result /\ at \in 0..MaxRows /\ com \in 0..MaxRows
      BY <1>1, <1>2 DEF CloudType
    <2>2. Landed(c, r) = [c EXCEPT !.version = v, !.result = res, !.at = at, !.comment = com]
      BY DEF Landed
    <2> HIDE DEF v, res, at, com
    <2> QED BY <2>1, <2>2 DEF CloudType
  <1>4. Verdict(r) \in Reply
    BY IoOutboxAssumption DEF Verdict, Reply
  <1> QED BY <1>1, <1>3, <1>4 DEF Arrive, Types

\* An answer to a push.
LEMMA AnswerType ==
  ASSUME Types, NEW s \in Sender, Answer(s)
  PROVE  Types'
  <1>1. call[s].row \in PayloadType /\ Arrive(call[s].row)
    BY PayloadOf DEF Answer
  <1>2. call' \in [Sender -> CallState]
    BY <1>1, ArriveType, CallStates DEF Answer, Types
  <1> QED BY <1>1, <1>2, ArriveType DEF Answer, Types

\* A lost request or answer.
LEMMA LoseType ==
  ASSUME Types, NEW s \in Sender, Lose(s)
  PROVE  Types'
  <1>1. call[s].row \in PayloadType /\ "network" \in Reply
    BY PayloadOf DEF Lose, Reply
  <1>2. call' \in [Sender -> CallState] /\ late' \subseteq PayloadType
    BY <1>1, CallStates DEF Lose, Types
  <1> QED BY <1>2 DEF Lose, Types

\* A request that arrives after the client gave it up.
LEMMA ArriveLateType ==
  ASSUME Types, NEW r \in late, ArriveLate(r)
  PROVE  Types'
  BY ArriveType DEF ArriveLate, Types

\* A change made on the cloud.
LEMMA CloudChangeType ==
  ASSUME Types, NEW i \in Io, CloudChange(i)
  PROVE  Types'
  <1>1. cloud' \in [Io -> CloudType]
    <2>1. cloud[i] \in CloudType /\ cloud[i].version + 1 \in Nat /\ (~cloud[i].exists) \in BOOLEAN
      BY DEF Types, CloudType
    <2> DEFINE v == cloud[i].version + 1
               x == ~cloud[i].exists
    <2>2. /\ v \in Nat /\ x \in BOOLEAN
          /\ \/ cloud' = [cloud EXCEPT ![i] = [cloud[i] EXCEPT !.version = v]]
             \/ cloud' = [cloud EXCEPT ![i] = [cloud[i] EXCEPT !.exists = x]]
      BY <2>1 DEF CloudChange
    <2> HIDE DEF v, x
    <2>3. /\ [cloud[i] EXCEPT !.version = v] \in CloudType
          /\ [cloud[i] EXCEPT !.exists = x] \in CloudType
      BY <2>1, <2>2 DEF CloudType
    <2> QED BY <2>2, <2>3 DEF Types
  <1> QED BY <1>1 DEF CloudChange, Types

\* Tombstoning changes a flag of one IO.
LEMMA TombstoneType ==
  ASSUME Types, NEW id, Tombstone(id)
  PROVE  io' \in [Io -> IoType]
  <1>1. ASSUME NEW i \in Io PROVE [io[i] EXCEPT !.removed = TRUE] \in IoType
    BY DEF Types, IoType
  <1> QED BY <1>1 DEF Tombstone, Types

\* The instant drain acting on its answer.
LEMMA InstantReplyType ==
  ASSUME Types, NEW i \in Io, InstantReply(i)
  PROVE  Types'
  <1> DEFINE id == call[i].row.id
             reply == call[i].reply
  <1>0. queue \in SUBSET RowType /\ io \in [Io -> IoType]
    BY DEF Types
  <1> SUFFICES queue' \in SUBSET RowType /\ io' \in [Io -> IoType]
               /\ call' \in [Sender -> CallState] /\ want' \subseteq Io
    BY DEF InstantReply, Types
  <1>1. CASE /\ queue' = Delete(queue, {id}) /\ Continue(i, queue') /\ UNCHANGED io
    <2>1. queue' \in SUBSET RowType
      BY <1>0, <1>1 DEF Delete
    <2> QED BY <1>0, <1>1, <2>1, ContinueType
  <1>2. CASE /\ queue' = Amend(queue, {id}, Orphan) /\ Tombstone(id) /\ Continue(i, queue')
    <2>1. queue' \in SUBSET RowType
      BY <1>0, <1>2, RowChanges DEF Amend
    <2> QED BY <1>0, <1>2, <2>1, ContinueType, TombstoneType
  <1>3. CASE /\ queue' = Amend(queue, {id}, DeadLetter) /\ Continue(i, queue') /\ UNCHANGED io
    <2>1. queue' \in SUBSET RowType
      BY <1>0, <1>3, RowChanges DEF Amend
    <2> QED BY <1>0, <1>3, <2>1, ContinueType
  <1>4. CASE /\ Returned(i, queue) /\ UNCHANGED <<queue, io>>
    BY <1>0, <1>4, ReturnedType
  <1> QED BY <1>1, <1>2, <1>3, <1>4 DEF InstantReply

\* The two ways a run of pushToCloud begins.
LEMMA TickType ==
  ASSUME Types, TickDrain \/ TickB7
  PROVE  Types'
  <1>1. CASE TickDrain
    BY <1>1, CapAndDrainType DEF TickDrain, Types
  <1>2. CASE TickB7
    <2>1. {Payload(r) : r \in Conflicted} \in SUBSET PayloadType
      BY Payloads DEF Conflicted, Types
    <2>2. bg' \in BgState
      BY <1>2, <2>1 DEF TickB7, BgB7, BgState
    <2> QED BY <1>2, <2>2 DEF TickB7, Types
  <1> QED BY <1>1, <1>2

\* What pushToCloud holds in each of its states.
LEMMA BgHolds ==
  ASSUME Types
  PROVE  /\ bg.pc \in {"b7", "b7read"} => bg.rows \in SUBSET PayloadType
         /\ bg.pc = "b7read" => bg.view \in [Io -> CloudType]
         /\ bg.pc = "drain" => /\ bg.batch \in SUBSET PayloadType
                               /\ bg.blocked \in SUBSET Io /\ bg.fails \in Nat
  BY DEF Types, BgState, BgIdle

\* B7 reading the cloud, or giving up.
LEMMA B7FetchType ==
  ASSUME Types, B7Fetch
  PROVE  Types'
  <1>1. CASE bg' = BgB7Read(bg.rows, cloud) /\ UNCHANGED <<queue, call, left>>
    <2>1. bg.rows \in SUBSET PayloadType /\ cloud \in [Io -> CloudType]
      BY BgHolds DEF B7Fetch, Types
    <2>2. bg' \in BgState
      BY <1>1, <2>1 DEF BgB7Read, BgState
    <2> QED BY <1>1, <2>2 DEF B7Fetch, Types
  <1>2. CASE CapAndDrain(queue)
    BY <1>2, CapAndDrainType DEF B7Fetch, Types
  <1> QED BY <1>1, <1>2 DEF B7Fetch

\* B7 acting on what it read.
LEMMA B7ActType ==
  ASSUME Types, B7Act
  PROVE  Types'
  <1> DEFINE With(fates) == {r.id : r \in {x \in bg.rows : Fate(x, bg.view) \in fates}}
             Rebase(r)   == [r EXCEPT !.base = bg.view[r.io].version, !.strikes = 0,
                                      !.dead = FALSE, !.err = "rebased"]
             q == Amend(Delete(queue, With({"landed", "superseded", "stale"})),
                        With({"rebase"}), Rebase)
  <1>1. ASSUME NEW r \in RowType PROVE Rebase(r) \in RowType
    <2>1. bg.view[r.io].version \in Nat
      BY BgHolds DEF B7Act, CloudType, RowType
    <2> DEFINE v == bg.view[r.io].version
    <2> HIDE DEF v
    <2>2. v \in Nat
      BY <2>1 DEF v
    <2>3. [r EXCEPT !.base = v, !.strikes = 0, !.dead = FALSE, !.err = "rebased"] \in RowType
      BY <2>2 DEF RowType
    <2> QED BY <2>3 DEF v
  <1>2. q \in SUBSET RowType
    <2>1. Delete(queue, With({"landed", "superseded", "stale"})) \in SUBSET RowType
      BY TableChanges DEF Types
    <2> QED BY <1>1, <2>1 DEF Amend
  <1>3. CapAndDrain(q)
    BY DEF B7Act
  <1> HIDE DEF q
  <1> QED BY <1>2, <1>3, CapAndDrainType DEF B7Act, Types

\* pushToCloud acting on an answer.
LEMMA BgReplyType ==
  ASSUME Types, BgReply
  PROVE  Types'
  <1> DEFINE r == call[Background].row
             Go(ios, n) == GoOn(bg.batch, bg.blocked \cup ios, bg.fails + n)
  <1>0. /\ queue \in SUBSET RowType /\ io \in [Io -> IoType]
        /\ bg.batch \in SUBSET PayloadType /\ bg.blocked \in SUBSET Io /\ bg.fails \in Nat
        /\ r.io \in Io
    BY BgHolds, PayloadOf DEF BgReply, Types, Sender, PayloadType
  <1> HIDE DEF r
  <1>1. ASSUME NEW ios \in SUBSET {r.io}, NEW n \in {0, 1}, Go(ios, n)
        PROVE  call' \in [Sender -> CallState] /\ bg' \in BgState
    <2>1. bg.blocked \cup ios \in SUBSET Io /\ bg.fails + n \in Nat
      BY <1>0
    <2> QED BY <1>0, <1>1, <2>1, GoOnType
  <1> SUFFICES queue' \in SUBSET RowType /\ io' \in [Io -> IoType]
               /\ call' \in [Sender -> CallState] /\ bg' \in BgState
    BY DEF BgReply, Types
  <1>2. CASE queue' = Accept(queue, r) /\ Go({}, 0) /\ UNCHANGED io
    BY <1>0, <1>1, <1>2 DEF Accept
  <1>3. CASE queue' = Amend(queue, {r.id}, Orphan) /\ Tombstone(r.id) /\ Go({r.io}, 0)
    BY <1>0, <1>1, <1>3, TableChanges, TombstoneType
  <1>4. CASE queue' = Amend(queue, {r.id}, DeadLetter) /\ Go({r.io}, 0) /\ UNCHANGED io
    BY <1>0, <1>1, <1>4, TableChanges
  <1>5. CASE queue' = Amend(queue, {r.id}, Transient) /\ Go({}, 1) /\ UNCHANGED io
    BY <1>0, <1>1, <1>5, TableChanges
  <1>6. CASE queue' = Amend(queue, {r.id}, Strike) /\ Go({r.io}, 0) /\ UNCHANGED io
    BY <1>0, <1>1, <1>6, TableChanges
  <1> QED BY <1>2, <1>3, <1>4, <1>5, <1>6 DEF BgReply, r

\* What the reconciler enqueues for an IO, given a view of the cloud.
LEMMA MissingType ==
  ASSUME Types, NEW i \in Io, NEW view \in [Io -> CloudType], NEW e \in Missing(i, view)
  PROVE  /\ io[i].present /\ e.io = i /\ e.op \in Op
         /\ e.note \in 0..MaxRows /\ e.base \in Nat
  <1> DEFINE c == [view[i] EXCEPT !.result  = IF view[i].exists THEN @ ELSE None,
                                  !.comment = IF view[i].exists THEN @ ELSE 0,
                                  !.version = IF view[i].exists THEN @ ELSE 0]
  <1>1. c.version \in Nat
    BY DEF CloudType
  <1>2. io[i].comment \in 0..MaxRows /\ 0 \in 0..MaxRows /\ io[i].result \in Stored
    BY IoOutboxAssumption DEF Types, IoType
  <1>3. /\ io[i].present /\ e.io = i
        /\ e.op \in {"Cleared", "Comment"} \/ (e.op = io[i].result /\ io[i].result # None)
        /\ e.note \in {0, io[i].comment} /\ e.base = c.version
    <2> DEFINE Enqueue(op, kind, note) ==
                 [io |-> i, op |-> op, kind |-> kind, base |-> c.version, note |-> note]
               lacks == IF io[i].result # None /\ c.result = None
                          THEN {Enqueue(io[i].result, "result", io[i].comment)}
                        ELSE IF io[i].comment # 0 /\ c.comment = 0
                          THEN {Enqueue("Comment", "comment", io[i].comment)} ELSE {}
               clears == IF /\ io[i].result = None /\ io[i].hist = "Cleared"
                            /\ c.result # None /\ io[i].histAt > c.at
                         THEN {Enqueue("Cleared", "clear", 0)} ELSE {}
    <2> HIDE DEF c
    <2>1. /\ e \in lacks => \/ io[i].result # None /\ e = Enqueue(io[i].result, "result", io[i].comment)
                            \/ e = Enqueue("Comment", "comment", io[i].comment)
          /\ e \in clears => e = Enqueue("Cleared", "clear", 0)
      OBVIOUS
    <2> HIDE DEF lacks, clears
    <2>2. io[i].present /\ e \in lacks \cup clears
      BY DEF Missing, c, lacks, clears
    <2> QED BY <2>1, <2>2
  <1> HIDE DEF c
  <1> QED BY <1>1, <1>2, <1>3 DEF Op, MetaOps, ResultOps, Stored, Result

\* The reconciler: new rows get numbers within the bound.
LEMMA RecType ==
  ASSUME Types, RecFetch \/ RecAct
  PROVE  Types'
  <1>1. CASE RecFetch
    <2>1. Fetched(cloud) \in RecState
      BY DEF Fetched, RecState, Types
    <2> QED BY <1>1, <2>1 DEF RecFetch, Types
  <1>2. CASE RecAct
    <2> DEFINE lacking == UNION {Missing(i, rec.view) : i \in Io}
    <2>1. rec.view \in [Io -> CloudType]
      BY <1>2 DEF RecAct, Types, RecState, Idle
    <2>2. \A e \in lacking : e.io \in Io /\ e.op \in Op /\ e.note \in 0..MaxRows /\ e.base \in Nat
      BY <2>1, MissingType
    <2> HIDE DEF lacking
    <2>3. PICK last \in nextId - 1 .. MaxRows :
            \E number \in [lacking -> nextId .. last] :
               /\ queue' = Insert(queue, {Row(number[e], e.io, e.op, e.note, e.base) : e \in lacking})
               /\ nextId' = last + 1
      BY <1>2 DEF RecAct, lacking
    <2>4. PICK number \in [lacking -> nextId .. last] :
               /\ queue' = Insert(queue, {Row(number[e], e.io, e.op, e.note, e.base) : e \in lacking})
               /\ nextId' = last + 1
      BY <2>3
    <2>5. nextId .. last \subseteq 1..MaxRows /\ last + 1 \in 1 .. MaxRows + 1
      BY IoOutboxAssumption DEF Types
    <2>6. {Row(number[e], e.io, e.op, e.note, e.base) : e \in lacking} \in SUBSET RowType
      <3> SUFFICES ASSUME NEW e \in lacking
                   PROVE  Row(number[e], e.io, e.op, e.note, e.base) \in RowType
        OBVIOUS
      <3>1. number[e] \in 1..MaxRows
        BY <2>5
      <3> QED BY <2>2, <3>1, NewRow
    <2>7. queue' \in SUBSET RowType
      BY <2>4, <2>6, TableChanges DEF Types
    <2> QED BY <1>2, <2>4, <2>5, <2>7, CallStates DEF RecAct, Types
  <1> QED BY <1>1, <1>2

\* What a delta that has been fetched holds.
LEMMA DeltaHolds ==
  ASSUME Types, delta.pc = "fetched"
  PROVE  /\ DOMAIN delta.view \subseteq Io
         /\ \A i \in DOMAIN delta.view : delta.view[i] \in CloudType
  BY DEF Types, FetchedDelta, Idle

\* An upserted and a deleted IO are IOs.
LEMMA IoChanges ==
  ASSUME NEW x \in IoType, NEW c \in CloudType
  PROVE  Upserted(x, c) \in IoType /\ Deleted(x) \in IoType
  <1>1. Upserted(x, c) \in IoType
    <2> DEFINE keep == ProtectedClear(x, c)
               v   == c.version
               res == IF x.result = None /\ ~keep THEN c.result ELSE x.result
               com == IF x.comment = 0 /\ ~keep THEN c.comment ELSE x.comment
    <2>1. v \in Nat /\ res \in Stored /\ com \in 0..MaxRows
      BY DEF CloudType, IoType, Stored
    <2>2. Upserted(x, c) = [x EXCEPT !.present = TRUE, !.removed = FALSE, !.version = v,
                                     !.result = res, !.comment = com]
      BY DEF Upserted
    <2> HIDE DEF v, res, com
    <2> QED BY <2>1, <2>2 DEF IoType
  <1>2. Deleted(x) \in IoType
    <2> DEFINE h == x.hist
               at == x.histAt
    <2>1. h \in Stored \cup {"Updated"} /\ at \in 0..MaxRows /\ 0 \in 0..MaxRows
      BY IoOutboxAssumption DEF IoType
    <2>2. Deleted(x) = [Fresh EXCEPT !.present = FALSE, !.hist = h, !.histAt = at]
      BY DEF Deleted
    <2> HIDE DEF h, at
    <2>3. [Fresh EXCEPT !.present = FALSE, !.hist = h, !.histAt = at] \in IoType
      BY <2>1 DEF Fresh, IoType, Stored, Result
    <2> QED BY <2>2, <2>3
  <1> QED BY <1>1, <1>2

\* The delta pull.
LEMMA DeltaType ==
  ASSUME Types, Delta
  PROVE  Types'
  <1>1. CASE DeltaFetch
    <2>1. unseen \in SUBSET Io /\ [i \in unseen |-> cloud[i]] \in [unseen -> CloudType]
      BY DEF Types
    <2> DEFINE view == [i \in unseen |-> cloud[i]]
    <2>2. delta' = Fetched(view)
      BY <1>1 DEF DeltaFetch
    <2> HIDE DEF view
    <2>3. Fetched(view) \in FetchedDelta(unseen)
      BY <2>1 DEF Fetched, FetchedDelta, view
    <2>4. \E ios \in SUBSET Io : delta' \in FetchedDelta(ios)
      BY <2>1, <2>2, <2>3
    <2>5. unseen' \subseteq Io
      BY <1>1 DEF DeltaFetch
    <2> QED BY <1>1, <2>4, <2>5 DEF DeltaFetch, Types
  <1>2. CASE DeltaApply
    <2>1. \A i \in DOMAIN delta.view : i \in Io /\ delta.view[i] \in CloudType
      BY <1>2, DeltaHolds DEF DeltaApply
    <2>2. io' \in [Io -> IoType]
      <3>1. \A i \in Io : io[i] \in IoType /\ io'[i] \in {io[i], Deleted(io[i]), Upserted(io[i], delta.view[i])}
                          /\ (io'[i] \in {io[i], Deleted(io[i])} \/ i \in DOMAIN delta.view)
        BY <1>2 DEF DeltaApply, Types
      <3>2. \A i \in Io : io'[i] \in IoType
        <4> SUFFICES ASSUME NEW i \in Io PROVE io'[i] \in IoType
          OBVIOUS
        <4>1. CASE i \in DOMAIN delta.view
          BY <2>1, <3>1, <4>1, IoChanges
        <4>2. CASE i \notin DOMAIN delta.view
          <5>1. cloud[i] \in CloudType
            BY DEF Types
          <5> QED BY <3>1, <4>2, <5>1, IoChanges
        <4> QED BY <4>1, <4>2
      <3> QED BY <1>2, <3>2 DEF DeltaApply
    <2>3. queue' \in SUBSET RowType
      <3>1. \A x \in queue' : \E r \in queue : x \in {r, Release(r), Orphan(r)}
        BY <1>2 DEF DeltaApply
      <3>2. \A r \in queue : r \in RowType
        BY DEF Types
      <3> QED BY <3>1, <3>2, RowChanges
    <2> QED BY <1>2, <2>2, <2>3 DEF DeltaApply, Types
  <1> QED BY <1>1, <1>2 DEF Delta

\* A crash resets the process and keeps the tables.
LEMMA CrashType ==
  ASSUME Types, Crash
  PROVE  Types'
  <1>1. late' \subseteq PayloadType
    BY PayloadOf DEF Crash, Types
  <1>2. unseen' \subseteq Io
    BY DeltaHolds DEF Crash, InDelta, Types
  <1> QED BY <1>1, <1>2, CallStates DEF Crash, Types

-----------------------------------------------------------------------------
(* The inductive invariant *)

\* What holds of every row: its IO is there, it is hidden only for a removal,
\* and strikes, conflicts and parking all go back to a verdict in known.
Sound(r, ios, known) ==
  /\ ios[r.io].present
  /\ r.resolved => r.orphaned
  /\ r.dead \/ r.strikes > 0 \/ r.err = "conflict" => r.id \in known

\* A reply that is a verdict is on record before anybody acts on it.
RepliesAreRuled ==
  \A s \in Sender : call[s].pc = "answered" /\ call[s].reply \notin {"ok", "network"}
                      => call[s].row.id \in ruled

RowsSound == \A r \in queue : Sound(r, io, ruled)

IInv == Types /\ RowsSound /\ RepliesAreRuled

\* How the changes of a row keep it sound; parking and strikes need a verdict,
\* except at the cap, where the strikes themselves show that there was one.
LEMMA SoundChanges ==
  ASSUME NEW ios, NEW known, NEW r \in RowType, Sound(r, ios, known)
  PROVE  /\ Sound(Release(r), ios, known) /\ Sound(Transient(r), ios, known)
         /\ Sound(ParkAtCap(r), ios, known)
         /\ r.id \in known => /\ Sound(DeadLetter(r), ios, known)
                              /\ Sound(Orphan(r), ios, known) /\ Sound(Strike(r), ios, known)
  <1>1. Sound(Release(r), ios, known)
    BY DEF Sound, Release, RowType, None
  <1>2. Sound(Transient(r), ios, known)
    BY DEF Sound, Transient, RowType
  <1>3. Sound(ParkAtCap(r), ios, known)
    <2>1. CASE ~r.dead /\ AtCap(r)
      <3>1. r.strikes > 0 \/ r.err = "conflict"
        BY <2>1, IoOutboxAssumption DEF AtCap, RowType
      <3>2. r.id \in known
        BY <3>1 DEF Sound
      <3> QED BY <2>1, <3>2 DEF Sound, ParkAtCap, RowType
    <2>2. CASE ~(~r.dead /\ AtCap(r))
      BY <2>2 DEF ParkAtCap
    <2> QED BY <2>1, <2>2
  <1>4. ASSUME r.id \in known PROVE Sound(DeadLetter(r), ios, known)
    BY <1>4 DEF Sound, DeadLetter, RowType
  <1>5. ASSUME r.id \in known PROVE Sound(Orphan(r), ios, known)
    BY <1>5 DEF Sound, Orphan, RowType
  <1>6. ASSUME r.id \in known PROVE Sound(Strike(r), ios, known)
    BY <1>6 DEF Sound, Strike, RowType
  <1> QED BY <1>1, <1>2, <1>3, <1>4, <1>5, <1>6

\* A row stays sound while its IO stays and the record of verdicts grows.
LEMMA StaysSound ==
  ASSUME Types, NEW r \in RowType, NEW known, Sound(r, io, known),
         \A i \in Io : io[i].present => io'[i].present, known \subseteq ruled'
  PROVE  Sound(r, io', ruled')
  BY DEF Sound, RowType

\* The continuations of the drains start pushes and end them; they answer none.
LEMMA NoNewAnswers ==
  ASSUME Types, NEW s \in Sender, call'[s].pc = "answered",
         \/ \E i \in Io, q \in SUBSET RowType : \/ Resume(i, q) \/ EnqueueSyncPush(i, q)
                                                \/ Returned(i, q) \/ Continue(i, q)
         \/ \E batch, blocked, fails : GoOn(batch, blocked, fails)
  PROVE  call'[s] = call[s]
  <1>1. Idle.pc = "idle" /\ \A r : Sent(r).pc = "sent"
    BY DEF Idle, Sent
  <1>2. \A t \in Sender : \A x : call' = [call EXCEPT ![t] = x] => call'[s] = call[s] \/ call'[s] = x
    BY DEF Types
  <1>3. ASSUME NEW i \in Io, NEW q \in SUBSET RowType, Resume(i, q)
        PROVE  call'[s] = call[s]
    BY <1>1, <1>2, <1>3 DEF Resume, Sender
  <1>4. ASSUME NEW i \in Io, NEW q \in SUBSET RowType, EnqueueSyncPush(i, q)
        PROVE  call'[s] = call[s]
    BY <1>3, <1>4 DEF EnqueueSyncPush
  <1>5. ASSUME NEW i \in Io, NEW q \in SUBSET RowType, Returned(i, q)
        PROVE  call'[s] = call[s]
    BY <1>1, <1>2, <1>3, <1>5 DEF Returned, Sender
  <1>6. ASSUME NEW i \in Io, NEW q \in SUBSET RowType, Continue(i, q)
        PROVE  call'[s] = call[s]
    BY <1>3, <1>5, <1>6 DEF Continue
  <1>7. ASSUME NEW batch, NEW blocked, NEW fails, GoOn(batch, blocked, fails)
        PROVE  call'[s] = call[s]
    BY <1>1, <1>2, <1>7 DEF GoOn, Sender
  <1> QED BY <1>3, <1>4, <1>5, <1>6, <1>7

\* While verdicts are never forgotten and no push is newly answered, replies stay on record.
LEMMA RepliesKept ==
  ASSUME RepliesAreRuled, ruled \subseteq ruled',
         \A s \in Sender : call'[s].pc = "answered" => call'[s] = call[s]
  PROVE  RepliesAreRuled'
  BY DEF RepliesAreRuled

\* One lemma per action: it keeps the rows sound and the replies on record.
LEMMA RecordSound ==
  ASSUME IInv, NEW i \in Io, NEW op \in Op, NEW note \in 0..MaxRows, NEW newIo \in IoType,
         newIo.present, Record(i, op, note, newIo)
  PROVE  RowsSound' /\ RepliesAreRuled'
  <1> DEFINE new == Row(nextId, i, op, note, io[i].version)
  <1>1. \A j \in Io : io[j].present => io'[j].present
    BY DEF IInv, Record, Types, IoType
  <1>2. ruled' = ruled
    BY DEF Record
  <1>3. ASSUME NEW r \in queue PROVE Sound(r, io', ruled')
    BY <1>1, <1>2, StaysSound DEF IInv, RowsSound, Types
  <1>4. new.io = i /\ Sound(new, io', ruled')
    BY <1>1 DEF Row, Sound, Record, None
  <1>5. RowsSound'
    <2>1. queue' \subseteq queue \cup {new}
      BY DEF Record, Insert
    <2> HIDE DEF new
    <2> QED BY <1>3, <1>4, <2>1 DEF RowsSound
  <1>6. ASSUME NEW s \in Sender, call'[s].pc = "answered" PROVE call'[s] = call[s]
    <2>1. CASE UNCHANGED <<queue, want, call>>
      BY <2>1
    <2>2. CASE EnqueueSyncPush(i, queue')
      <3>1. queue' \in SUBSET RowType
        BY RecordType DEF IInv, Types
      <3> QED BY <1>6, <2>2, <3>1, NoNewAnswers DEF IInv
    <2> QED BY <2>1, <2>2 DEF Record
  <1> QED BY <1>2, <1>5, <1>6, RepliesKept DEF IInv

\* An IO that is worked on stays present, and the new row has no strikes.
LEMMA OperatorSound ==
  ASSUME IInv, NEW i \in Io, Operator(i)
  PROVE  RowsSound' /\ RepliesAreRuled'
  <1>0. Types
    BY DEF IInv
  <1> nextId \in 1..MaxRows /\ io[i].present
    BY <1>0, OperatorMay
  <1> io[i] \in IoType /\ io[i].comment \in 0..MaxRows /\ 0 \in 0..MaxRows /\ nextId \in 0..MaxRows
    BY <1>0, IoOutboxAssumption DEF Types, IoType
  <1> {"Passed", "Failed", "Cleared", "Comment", "Punchlist"} \subseteq Op
    BY DEF Op, MetaOps, ResultOps
  <1>1. ASSUME NEW result \in {"Passed", "Failed"}, Test(i, result)
        PROVE  RowsSound' /\ RepliesAreRuled'
    <2> DEFINE new == [io[i] EXCEPT !.result = result, !.comment = 0, !.hist = result, !.histAt = nextId]
    <2>1. new \in IoType /\ new.present
      BY DEF IoType, Stored, Result
    <2>2. Record(i, result, 0, new)
      BY <1>1 DEF Test
    <2> HIDE DEF new
    <2> QED BY <2>1, <2>2, RecordSound
  <1>2. CASE Reset(i)
    <2> DEFINE new == [io[i] EXCEPT !.result = None, !.comment = 0, !.hist = "Cleared", !.histAt = nextId]
    <2>1. new \in IoType /\ new.present
      BY DEF IoType, Stored, Result
    <2>2. Record(i, "Cleared", 0, new)
      BY <1>2 DEF Reset
    <2> HIDE DEF new
    <2> QED BY <2>1, <2>2, RecordSound
  <1>3. CASE Comment(i)
    <2>1. PICK note \in Notes(i) : Record(i, "Comment", note, Commented(i, note))
      BY <1>3 DEF Comment
    <2> QED BY <1>0, <2>1, NotesType, CommentedType, RecordSound
  <1>4. CASE Punchlist(i)
    BY <1>4, RecordSound DEF Punchlist
  <1>5. CASE Touch(i)
    <2>1. \A j \in Io : io[j].present => io'[j].present
      BY <1>0, <1>5, CommentedType DEF Touch, Types, IoType
    <2>2. queue' = queue /\ ruled' = ruled /\ call' = call
      BY <1>5 DEF Touch
    <2>3. RowsSound'
      BY <1>0, <2>1, <2>2, StaysSound DEF IInv, RowsSound, Types
    <2> QED BY <2>2, <2>3, RepliesKept DEF IInv
  <1>6. ASSUME NEW result \in Puts, Put(i, result) PROVE RowsSound' /\ RepliesAreRuled'
    <2>1. PICK note \in Notes(i) : Record(i, result, note, Written(i, result, note))
      BY <1>6 DEF Put, Written
    <2> QED BY <1>0, <2>1, NotesType, WrittenType, RecordSound
  <1> QED BY <1>1, <1>2, <1>3, <1>4, <1>5, <1>6 DEF Operator

\* A retried row is sound because it is active again.
LEMMA QueueActionSound ==
  ASSUME IInv, NEW r \in queue, Retry(r) \/ Discard(r)
  PROVE  RowsSound' /\ RepliesAreRuled'
  <1>1. io' = io /\ ruled' = ruled /\ call' = call
    BY DEF Retry, Discard
  <1>2. RowsSound'
    BY <1>1, SoundChanges DEF IInv, Types, RowsSound, Retry, Discard, Amend, Delete
  <1> QED BY <1>1, <1>2, RepliesKept DEF IInv

\* The cloud puts a verdict on record in the step in which it gives it.
LEMMA AnswerSound ==
  ASSUME IInv, NEW s \in Sender, Answer(s)
  PROVE  RowsSound' /\ RepliesAreRuled'
  <1> DEFINE p == call[s].row
  <1>1. io' = io /\ queue' = queue
        /\ ruled' = ruled \cup {r.id : r \in {x \in {p} : Verdict(x) # "ok"}}
        /\ call' = [call EXCEPT ![s] = Answered(p, Verdict(p))]
    BY DEF Answer
  <1> HIDE DEF p
  <1>2. RowsSound'
    BY <1>1, StaysSound DEF IInv, RowsSound, Types
  <1>3. ASSUME NEW t \in Sender, call'[t].pc = "answered", call'[t].reply \notin {"ok", "network"}
        PROVE  call'[t].row.id \in ruled'
    <2>1. CASE t = s
      <3>1. call'[t] = Answered(p, Verdict(p))
        BY <1>1, <2>1 DEF IInv, Types
      <3>2. call'[t].row = p /\ call'[t].reply = Verdict(p)
        BY <3>1 DEF Answered
      <3> QED BY <1>1, <1>3, <3>2
    <2>2. CASE t # s
      BY <1>1, <1>3, <2>2 DEF IInv, Types, RepliesAreRuled
    <2> QED BY <2>1, <2>2
  <1> QED BY <1>2, <1>3 DEF RepliesAreRuled

\* A lost push is answered "network", which needs no record.
LEMMA LoseSound ==
  ASSUME IInv, NEW s \in Sender, Lose(s)
  PROVE  RowsSound' /\ RepliesAreRuled'
  <1>1. /\ io' = io /\ queue' = queue /\ ruled' = ruled
        /\ call' = [call EXCEPT ![s] = Answered(call[s].row, "network")]
    BY DEF Lose
  <1>2. RowsSound'
    BY <1>1 DEF IInv, RowsSound
  <1>3. Answered(call[s].row, "network").reply = "network"
    BY DEF Answered
  <1>4. RepliesAreRuled'
    BY <1>1, <1>3 DEF IInv, Types, RepliesAreRuled
  <1> QED BY <1>2, <1>4

\* Steps that change neither the rows nor the replies.
LEMMA ElsewhereSound ==
  ASSUME IInv, UNCHANGED <<io, queue, call, ruled>>
  PROVE  RowsSound' /\ RepliesAreRuled'
  BY DEF IInv, RowsSound, RepliesAreRuled

\* A tombstoned IO is still present.
LEMMA TombstoneKeeps ==
  ASSUME Types, NEW id, Tombstone(id)
  PROVE  \A i \in Io : io[i].present => io'[i].present
  BY DEF Types, IoType, Tombstone

\* The row of an answered push that was not a network failure has had its verdict.
LEMMA AmendSound ==
  ASSUME IInv, NEW id, id \in ruled, ruled' = ruled,
         \A i \in Io : io[i].present => io'[i].present,
         \/ queue' = Amend(queue, {id}, Orphan) \/ queue' = Amend(queue, {id}, DeadLetter)
         \/ queue' = Amend(queue, {id}, Strike)
  PROVE  RowsSound'
  <1>1. ASSUME NEW r \in queue PROVE r \in RowType /\ Sound(r, io, ruled) /\ Sound(r, io', ruled')
    BY StaysSound DEF IInv, Types, RowsSound
  <1>2. CASE queue' = Amend(queue, {id}, Orphan)
    BY <1>1, <1>2, SoundChanges DEF Amend, RowsSound
  <1>3. CASE queue' = Amend(queue, {id}, DeadLetter)
    BY <1>1, <1>3, SoundChanges DEF Amend, RowsSound
  <1>4. CASE queue' = Amend(queue, {id}, Strike)
    BY <1>1, <1>4, SoundChanges DEF Amend, RowsSound
  <1> QED BY <1>2, <1>3, <1>4

\* The instant drain parks a row only on a verdict.
LEMMA InstantReplySound ==
  ASSUME IInv, NEW i \in Io, InstantReply(i)
  PROVE  RowsSound' /\ RepliesAreRuled'
  <1> DEFINE id == call[i].row.id
             reply == call[i].reply
  <1>0. Types /\ ruled' = ruled /\ i \in Sender
    BY DEF IInv, InstantReply, Sender
  <1>1. reply \notin {"ok", "network"} => id \in ruled
    BY <1>0 DEF IInv, RepliesAreRuled, InstantReply
  <1>2. RowsSound'
    <2>1. CASE queue' = Delete(queue, {id}) /\ UNCHANGED io
      BY <1>0, <2>1 DEF IInv, RowsSound, Delete
    <2>2. CASE reply = "status" /\ queue' = Amend(queue, {id}, Orphan) /\ Tombstone(id)
      <3>1. id \in ruled
        BY <1>1, <2>2
      <3>2. \A j \in Io : io[j].present => io'[j].present
        BY <1>0, <2>2, TombstoneKeeps
      <3> HIDE DEF id
      <3> QED BY <1>0, <2>2, <3>1, <3>2, AmendSound
    <2>3. CASE reply \in {"code", "refused"} /\ queue' = Amend(queue, {id}, DeadLetter) /\ UNCHANGED io
      <3>1. id \in ruled
        BY <1>1, <2>3
      <3> HIDE DEF id
      <3> QED BY <1>0, <2>3, <3>1, AmendSound
    <2>4. CASE UNCHANGED <<queue, io>>
      BY <1>0, <2>4 DEF IInv, RowsSound
    <2> QED BY <2>1, <2>2, <2>3, <2>4 DEF InstantReply
  <1>3. ASSUME NEW s \in Sender, call'[s].pc = "answered" PROVE call'[s] = call[s]
    <2>1. queue \in SUBSET RowType /\ queue' \in SUBSET RowType
      BY InstantReplyType DEF IInv, Types
    <2>2. Continue(i, queue') \/ Returned(i, queue)
      BY DEF InstantReply
    <2> QED BY <1>0, <1>3, <2>1, <2>2, NoNewAnswers
  <1> QED BY <1>0, <1>2, <1>3, RepliesKept DEF IInv

\* The retry cap parks a row only when it has strikes, hence a verdict.
LEMMA CapAndDrainSound ==
  ASSUME IInv, NEW q \in SUBSET RowType, \A r \in q : Sound(r, io, ruled), CapAndDrain(q),
         io' = io, ruled' = ruled
  PROVE  RowsSound' /\ RepliesAreRuled'
  <1>1. RowsSound'
    BY SoundChanges DEF CapAndDrain, RowsSound
  <1>2. ASSUME NEW s \in Sender, call'[s].pc = "answered" PROVE call'[s] = call[s]
    <2>1. \E batch, blocked, fails : GoOn(batch, blocked, fails)
      BY DEF CapAndDrain
    <2> QED BY <1>2, <2>1, NoNewAnswers DEF IInv
  <1> QED BY <1>1, <1>2, RepliesKept DEF IInv

\* Beginning a run parks what is at its cap.
LEMMA TickSound ==
  ASSUME IInv, TickDrain \/ TickB7 \/ B7Fetch
  PROVE  RowsSound' /\ RepliesAreRuled'
  <1>1. queue \in SUBSET RowType /\ \A r \in queue : Sound(r, io, ruled)
    BY DEF IInv, Types, RowsSound
  <1>2. CASE CapAndDrain(queue)
    <2>1. io' = io /\ ruled' = ruled
      BY DEF TickDrain, TickB7, B7Fetch
    <2> QED BY <1>1, <1>2, <2>1, CapAndDrainSound
  <1>3. CASE UNCHANGED <<queue, call>>
    <2>1. io' = io /\ ruled' = ruled
      BY DEF TickDrain, TickB7, B7Fetch
    <2> QED BY <1>3, <2>1, ElsewhereSound
  <1> QED BY <1>2, <1>3 DEF TickDrain, TickB7, B7Fetch

\* B7 deletes rows or releases them; it never parks one itself.
LEMMA B7ActSound ==
  ASSUME IInv, B7Act
  PROVE  RowsSound' /\ RepliesAreRuled'
  <1> DEFINE With(fates) == {r.id : r \in {x \in bg.rows : Fate(x, bg.view) \in fates}}
             Rebase(r)   == [r EXCEPT !.base = bg.view[r.io].version, !.strikes = 0,
                                      !.dead = FALSE, !.err = "rebased"]
             q == Amend(Delete(queue, With({"landed", "superseded", "stale"})),
                        With({"rebase"}), Rebase)
  <1>1. ASSUME NEW r \in RowType, Sound(r, io, ruled)
        PROVE  Rebase(r) \in RowType /\ Sound(Rebase(r), io, ruled)
    <2>1. bg.view[r.io].version \in Nat
      BY BgHolds DEF IInv, B7Act, CloudType, RowType
    <2> DEFINE v == bg.view[r.io].version
               s == [r EXCEPT !.base = v, !.strikes = 0, !.dead = FALSE, !.err = "rebased"]
    <2>2. v \in Nat
      BY <2>1
    <2> HIDE DEF v
    <2>3. s \in RowType
      BY <2>2 DEF RowType
    <2>4. Sound(s, io, ruled)
      BY <1>1 DEF RowType, Sound
    <2> QED BY <2>3, <2>4 DEF v
  <1>2. q \in SUBSET RowType /\ \A r \in q : Sound(r, io, ruled)
    <2> DEFINE d == Delete(queue, With({"landed", "superseded", "stale"}))
    <2>1. d \in SUBSET RowType /\ \A r \in d : Sound(r, io, ruled)
      BY DEF Delete, IInv, Types, RowsSound
    <2> DEFINE ids == With({"rebase"})
    <2>2. q = Amend(d, ids, Rebase)
      OBVIOUS
    <2> HIDE DEF d, ids
    <2> QED BY <1>1, <2>1, <2>2 DEF Amend
  <1>3. CapAndDrain(q) /\ io' = io /\ ruled' = ruled
    BY DEF B7Act
  <1> HIDE DEF q
  <1> QED BY <1>2, <1>3, CapAndDrainSound

\* pushToCloud strikes and parks on a verdict only; a network failure does neither.
LEMMA BgReplySound ==
  ASSUME IInv, BgReply
  PROVE  RowsSound' /\ RepliesAreRuled'
  <1> DEFINE r == call[Background].row
             reply == call[Background].reply
  <1>0. Types /\ ruled' = ruled /\ queue \subseteq RowType
    BY DEF IInv, BgReply, Types
  <1>1. reply \notin {"ok", "network"} => r.id \in ruled
    BY DEF IInv, RepliesAreRuled, BgReply, Sender
  <1>2. RowsSound'
    <2>1. CASE queue' = Accept(queue, r) /\ UNCHANGED io
      BY <1>0, <2>1 DEF IInv, RowsSound, Accept
    <2>2. CASE reply \in {"status", "code"} /\ queue' = Amend(queue, {r.id}, Orphan) /\ Tombstone(r.id)
      <3>1. \A j \in Io : io[j].present => io'[j].present
        BY <1>0, <2>2, TombstoneKeeps
      <3>2. r.id \in ruled
        BY <1>1, <2>2
      <3> HIDE DEF r
      <3> QED BY <1>0, <2>2, <3>1, <3>2, AmendSound
    <2>3. CASE /\ reply \in {"refused", "conflict"} /\ UNCHANGED io
               /\ \/ queue' = Amend(queue, {r.id}, DeadLetter)
                  \/ queue' = Amend(queue, {r.id}, Strike)
      <3>1. r.id \in ruled
        BY <1>1, <2>3
      <3> HIDE DEF r
      <3> QED BY <1>0, <2>3, <3>1, AmendSound
    <2>4. CASE queue' = Amend(queue, {r.id}, Transient) /\ UNCHANGED io
      <3> HIDE DEF r
      <3> QED BY <1>0, <2>4, SoundChanges DEF IInv, RowsSound, Amend
    <2> QED BY <2>1, <2>2, <2>3, <2>4 DEF BgReply
  <1>3. ASSUME NEW s \in Sender, call'[s].pc = "answered" PROVE call'[s] = call[s]
    <2>1. \E batch, blocked, fails : GoOn(batch, blocked, fails)
      BY DEF BgReply
    <2> QED BY <1>0, <1>3, <2>1, NoNewAnswers
  <1> QED BY <1>0, <1>2, <1>3, RepliesKept DEF IInv

\* The reconciler enqueues work of IOs that are present.
LEMMA RecActSound ==
  ASSUME IInv, RecAct
  PROVE  RowsSound' /\ RepliesAreRuled'
  <1> DEFINE lacking == UNION {Missing(i, rec.view) : i \in Io}
  <1>1. Types /\ io' = io /\ ruled' = ruled /\ call' = call
    BY DEF IInv, RecAct
  <1>2. rec.view \in [Io -> CloudType]
    BY <1>1 DEF RecAct, Types, RecState, Idle
  <1>3. \A e \in lacking : io[e.io].present
    BY <1>1, <1>2, MissingType
  <1> HIDE DEF lacking
  <1>4. PICK number :
          queue' = Insert(queue, {Row(number[e], e.io, e.op, e.note, e.base) : e \in lacking})
    <2>1. PICK last \in nextId - 1 .. MaxRows :
            \E number \in [lacking -> nextId .. last] :
               /\ queue' = Insert(queue, {Row(number[e], e.io, e.op, e.note, e.base) : e \in lacking})
               /\ nextId' = last + 1
      BY DEF RecAct, lacking
    <2> QED BY <2>1
  <1>5. ASSUME NEW e \in lacking
        PROVE  Sound(Row(number[e], e.io, e.op, e.note, e.base), io, ruled)
    BY <1>3 DEF Row, Sound, None
  <1>6. RowsSound'
    <2> DEFINE new == {Row(number[e], e.io, e.op, e.note, e.base) : e \in lacking}
    <2>1. \A r \in new : Sound(r, io, ruled)
      BY <1>5
    <2>2. queue' \subseteq queue \cup new
      BY <1>4 DEF Insert
    <2> HIDE DEF new
    <2> QED BY <1>1, <2>1, <2>2 DEF RowsSound, IInv
  <1> QED BY <1>1, <1>6, RepliesKept DEF IInv

\* A delta deletes an IO only when no row of it is left.
LEMMA DeltaSound ==
  ASSUME IInv, Delta
  PROVE  RowsSound' /\ RepliesAreRuled'
  <1>1. CASE DeltaFetch
    BY <1>1, ElsewhereSound DEF DeltaFetch
  <1>2. CASE DeltaApply
    <2> DEFINE back == {i \in DOMAIN delta.view : delta.view[i].exists}
               gone == DOMAIN delta.view \ back
    <2>1. Types /\ call' = call /\ ruled' = ruled \cup {r.id : r \in {x \in queue : x.io \in gone}}
      BY <1>2 DEF DeltaApply, IInv
    <2>2. ASSUME NEW r \in queue
          PROVE  /\ r \in RowType /\ Sound(r, io', ruled')
                 /\ r.io \in gone => r.id \in ruled'
      <3>1. r \in RowType /\ r.io \in Io /\ Sound(r, io, ruled) /\ RowsOf(queue, r.io) # {}
        BY <2>1 DEF IInv, Types, RowsSound, RowType, RowsOf
      <3>2. io'[r.io] = io[r.io] \/ io'[r.io] = Upserted(io[r.io], delta.view[r.io])
        BY <1>2, <3>1 DEF DeltaApply
      <3>3. io'[r.io].present
        BY <2>1, <3>1, <3>2 DEF Sound, Upserted, Types, IoType
      <3> QED BY <2>1, <3>1, <3>3 DEF Sound
    <2>3. ASSUME NEW x \in queue'
          PROVE  \E r \in queue : x = r \/ x = Release(r) \/ (r.io \in gone /\ x = Orphan(r))
      BY <1>2, <2>3 DEF DeltaApply
    <2> HIDE DEF back, gone
    <2>4. RowsSound'
      <3> SUFFICES ASSUME NEW x \in queue' PROVE Sound(x, io', ruled')
        BY DEF RowsSound
      <3>1. PICK r \in queue : x = r \/ x = Release(r) \/ (r.io \in gone /\ x = Orphan(r))
        BY <2>3
      <3> QED BY <2>2, <3>1, SoundChanges
    <2> QED BY <2>1, <2>4, RepliesKept DEF IInv
  <1> QED BY <1>1, <1>2 DEF Delta

\* A crash leaves no push answered.
LEMMA CrashSound ==
  ASSUME IInv, Crash
  PROVE  RowsSound' /\ RepliesAreRuled'
  <1>1. io' = io /\ queue' = queue /\ ruled' = ruled /\ \A s \in Sender : call'[s] = Idle
    BY DEF Crash
  <1>2. Idle.pc = "idle"
    BY DEF Idle
  <1> QED BY <1>1, <1>2 DEF IInv, RowsSound, RepliesAreRuled

-----------------------------------------------------------------------------
\* The empty queue satisfies the invariant.
LEMMA InitIInv == Init => IInv
  <1> SUFFICES ASSUME Init PROVE IInv
    OBVIOUS
  <1>1. 0 \in 0..MaxRows /\ 1 \in 1 .. MaxRows + 1
    BY IoOutboxAssumption
  <1>2. Fresh \in IoType
    BY <1>1 DEF Fresh, IoType, Stored, Result
  <1>3. [exists |-> TRUE, result |-> None, comment |-> 0, version |-> 0, at |-> 0] \in CloudType
    BY <1>1 DEF CloudType, Result
  <1>4. Types
    BY <1>1, <1>2, <1>3, CallStates DEF Init, Types
  <1>5. RowsSound /\ RepliesAreRuled
    BY DEF Init, RowsSound, RepliesAreRuled, Idle
  <1> QED BY <1>4, <1>5 DEF IInv

\* Every step of the system preserves the invariant.
LEMMA NextIInv == IInv /\ [Next]_vars => IInv'
  <1> SUFFICES ASSUME IInv, [Next]_vars PROVE IInv'
    OBVIOUS
  <1> Types
    BY DEF IInv
  <1>1. ASSUME NEW i \in Io, Operator(i) PROVE IInv'
    BY <1>1, OperatorType, OperatorSound DEF IInv
  <1>2. ASSUME NEW i \in Io, CloudChange(i) PROVE IInv'
    <2>1. UNCHANGED <<io, queue, call, ruled>>
      BY <1>2 DEF CloudChange
    <2> QED BY <1>2, <2>1, CloudChangeType, ElsewhereSound DEF IInv
  <1>3. CASE Delta
    BY <1>3, DeltaType, DeltaSound DEF IInv
  <1>4. ASSUME NEW s \in Sender, Drain(s) PROVE IInv'
    BY <1>4, AnswerType, AnswerSound, InstantReplyType, InstantReplySound DEF IInv, Drain
  <1>5. ASSUME NEW s \in Sender, Lose(s) PROVE IInv'
    BY <1>5, LoseType, LoseSound DEF IInv
  <1>6. ASSUME NEW r \in late, ArriveLate(r) PROVE IInv'
    <2>1. UNCHANGED <<io, queue, call, ruled>>
      BY <1>6 DEF ArriveLate
    <2> QED BY <1>6, <2>1, ArriveLateType, ElsewhereSound DEF IInv
  <1>7. ASSUME NEW r \in queue, Retry(r) \/ Discard(r) PROVE IInv'
    BY <1>7, QueueActionType, QueueActionSound DEF IInv
  <1>8. CASE TickDrain \/ TickB7 \/ B7Fetch
    BY <1>8, TickType, B7FetchType, TickSound DEF IInv
  <1>9. CASE B7Act
    BY <1>9, B7ActType, B7ActSound DEF IInv
  <1>10. CASE BgReply
    BY <1>10, BgReplyType, BgReplySound DEF IInv
  <1>11. CASE RecFetch
    <2>1. UNCHANGED <<io, queue, call, ruled>>
      BY <1>11 DEF RecFetch
    <2> QED BY <1>11, <2>1, RecType, ElsewhereSound DEF IInv
  <1>12. CASE RecAct
    BY <1>12, RecType, RecActSound DEF IInv
  <1>13. CASE Crash
    BY <1>13, CrashType, CrashSound DEF IInv
  <1>14. CASE UNCHANGED vars
    <2>1. Types'
      BY <1>14 DEF vars, Types
    <2> QED BY <1>14, <2>1, ElsewhereSound DEF vars, IInv
  <1> QED BY <1>1, <1>2, <1>3, <1>4, <1>5, <1>6, <1>7, <1>8, <1>9, <1>10, <1>11, <1>12, <1>13, <1>14
          DEF Next, PushToCloud

\* The types of the model are right in every state.
LEMMA OutboxRecords == Spec => []Types
  <1>1. IInv => Types
    BY DEF IInv
  <1> QED BY InitIInv, NextIInv, <1>1, PTL DEF Spec

\* isPushing: pushToCloud is in its drain exactly while it has a push in hand.
Held == call[Background] # Idle <=> bg.pc = "drain"

\* Where the drain of pushToCloud goes on, it holds both or neither.
LEMMA GoOnHeld ==
  ASSUME Types, NEW batch, NEW blocked, NEW fails, GoOn(batch, blocked, fails)
  PROVE  Held'
  <1> DEFINE todo == {r \in batch : r.io \notin blocked /\ fails < Tolerance}
  <1>1. /\ BgIdle.pc = "idle" /\ \A x, y, z : BgDrain(x, y, z).pc = "drain"
        /\ Idle.pc = "idle" /\ \A r : Sent(r).pc = "sent"
    BY DEF BgIdle, BgDrain, Idle, Sent
  <1>2. \A x : [call EXCEPT ![Background] = x][Background] = x
    BY DEF Types, Sender
  <1>3. CASE todo = {}
    BY <1>1, <1>2, <1>3 DEF GoOn, Held
  <1>4. CASE todo # {}
    <2>1. call'[Background] = Sent(Oldest(todo)) /\ bg'.pc = "drain"
      BY <1>1, <1>2, <1>4 DEF GoOn
    <2> HIDE DEF todo
    <2> QED BY <1>1, <2>1 DEF Held
  <1> QED BY <1>3, <1>4

\* The instant drain of an IO does not touch the push of pushToCloud.
LEMMA InstantKeepsBackground ==
  ASSUME Types, NEW i \in Io, NEW q, Resume(i, q) \/ EnqueueSyncPush(i, q) \/ Continue(i, q)
  PROVE  call'[Background] = call[Background]
  <1>1. \A x : [call EXCEPT ![i] = x][Background] = call[Background]
    BY IoOutboxAssumption DEF Types, Sender
  <1> QED BY <1>1 DEF Resume, EnqueueSyncPush, Continue, Returned

\* Every step keeps isPushing and the push of pushToCloud together.
LEMMA NextHeld ==
  ASSUME Types, Held, [Next]_vars
  PROVE  Held'
  <1>1. ASSUME call'[Background] = call[Background], bg' = bg PROVE Held'
    BY <1>1 DEF Held
  <1>2. ASSUME NEW i \in Io, Operator(i) PROVE Held'
    <2>1. ASSUME NEW op, NEW note, NEW newIo, Record(i, op, note, newIo) PROVE Held'
      BY <1>1, <2>1, InstantKeepsBackground DEF Record
    <2>2. CASE Touch(i)
      BY <1>1, <2>2 DEF Touch
    <2> QED BY <1>2, <2>1, <2>2 DEF Operator, Test, Reset, Put, Comment, Punchlist
  <1>3. ASSUME NEW s \in Sender, Answer(s) \/ Lose(s) PROVE Held'
    <2>1. bg' = bg
      BY <1>3 DEF Answer, Lose
    <2>2. CASE s = Background
      <3>1. \A r, x : Answered(r, x).pc = "answered"
        BY DEF Answered
      <3>2. Idle.pc = "idle" /\ call[Background].pc \in {"sent", "answered"}
            /\ \E r, x : call'[Background] = Answered(r, x)
        BY <1>3, <2>2 DEF Answer, Lose, Idle, Types
      <3> QED BY <2>1, <3>1, <3>2 DEF Held
    <2>3. CASE s # Background
      <3>1. call'[Background] = call[Background]
        BY <1>3, <2>3 DEF Answer, Lose, Types, Sender
      <3> QED BY <1>1, <2>1, <3>1
    <2> QED BY <2>2, <2>3
  <1>4. ASSUME NEW i \in Io, InstantReply(i) PROVE Held'
    <2>1. bg' = bg
      BY <1>4 DEF InstantReply
    <2>2. \E q : Continue(i, q) \/ Returned(i, q)
      BY <1>4 DEF InstantReply
    <2>3. \A x : [call EXCEPT ![i] = x][Background] = call[Background]
      BY IoOutboxAssumption DEF Types, Sender
    <2>4. call'[Background] = call[Background]
      BY <2>2, <2>3 DEF Continue, Returned, Resume
    <2> QED BY <1>1, <2>1, <2>4
  <1>5. CASE TickDrain \/ BgReply
    BY <1>5, GoOnHeld DEF TickDrain, CapAndDrain, BgReply
  <1>6. CASE TickB7
    <2>1. BgIdle.pc = "idle" /\ \A rows : BgB7(rows).pc = "b7"
      BY DEF BgIdle, BgB7
    <2> QED BY <1>6, <2>1 DEF TickB7, Held
  <1>7. CASE B7Fetch \/ B7Act
    <2>1. \A rows, view : BgB7Read(rows, view).pc = "b7read"
      BY DEF BgB7Read
    <2> QED BY <1>7, <2>1, GoOnHeld DEF B7Fetch, B7Act, CapAndDrain, Held
  <1>8. CASE Crash
    <2>1. call'[Background] = Idle /\ bg' = BgIdle
      BY <1>8 DEF Crash, Sender
    <2> QED BY <2>1 DEF Held, BgIdle, Idle
  <1>9. CASE \/ \E i \in Io : CloudChange(i)
             \/ \E r \in late : ArriveLate(r)
             \/ \E r \in queue : Retry(r) \/ Discard(r)
             \/ Delta \/ RecFetch \/ RecAct \/ UNCHANGED vars
    BY <1>1, <1>9 DEF CloudChange, ArriveLate, Retry, Discard, Delta, DeltaFetch, DeltaApply,
                      RecFetch, RecAct, vars
  <1> QED BY <1>2, <1>3, <1>4, <1>5, <1>6, <1>7, <1>8, <1>9 DEF Next, Drain, PushToCloud

\* Every stored value has its type, Ios.Result the word Cleared of a PUT among them,
\* and a run of pushToCloud holds isPushing for exactly as long as it pushes.
THEOREM OutboxTypes == Spec => []TypeOK
  <1>1. Init => Held
    BY DEF Init, Held, BgIdle, Idle, Sender
  <1>2. Types /\ Held /\ [Next]_vars => Held'
    BY NextHeld
  <1>3. Types /\ Held => TypeOK
    BY DEF Held, TypeOK
  <1> QED BY OutboxRecords, <1>1, <1>2, <1>3, PTL DEF Spec

\* However long the network fails, and however drains, crashes, deltas and
\* operators interleave, a row is parked only after the cloud has refused it
\* (or removed its IO): pushToCloud and drainPendingSyncsForIo park on verdicts.
THEOREM NetworkNeverParks == Spec => []ParkedMeansRuled
  <1>1. IInv => ParkedMeansRuled
    BY DEF IInv, RowsSound, Sound, ParkedMeansRuled
  <1> QED BY InitIInv, NextIInv, <1>1, PTL DEF Spec

\* No delta deletes an IO from under a queued row (applyDelta checks PendingSyncs).
THEOREM RowsKeepTheirIo == Spec => []RowsHaveTheirIo
  <1>1. IInv => RowsHaveTheirIo
    BY DEF IInv, RowsSound, Sound, RowsHaveTheirIo
  <1> QED BY InitIInv, NextIInv, <1>1, PTL DEF Spec

-----------------------------------------------------------------------------
(* Hidden rows.  Whether the IO of a hidden row is away is a matter of the    *)
(* tombstone, of the cloud and of the changes on their way; the delta in hand *)
(* must not bring a removal that the cloud has taken back unnoticed.          *)

Away(i) == io[i].removed \/ ~cloud[i].exists \/ i \in unseen \cup InDelta
HiddenAreAway == \A r \in queue : r.resolved => Away(r.io)

\* What a delta says of an IO is how it is, or more news of it are waiting.
ViewIsRecent ==
  delta.pc = "fetched" =>
    \A i \in DOMAIN delta.view : delta.view[i].exists = cloud[i].exists \/ i \in unseen

HInv == IInv /\ HiddenAreAway /\ ViewIsRecent

\* Steps after which a hidden row is one that was hidden, or one whose IO has just
\* been tombstoned, and after which every IO that was away still is.
LEMMA HiddenKept ==
  ASSUME HInv, queue' \subseteq RowType,
         \A x \in queue' : x.resolved => \/ io'[x.io].removed
                                         \/ \E r \in queue : r.io = x.io /\ r.resolved,
         \A i \in Io : Away(i) => Away(i)'
  PROVE  HiddenAreAway'
  <1> SUFFICES ASSUME NEW x \in queue', x.resolved PROVE Away(x.io)'
    BY DEF HiddenAreAway
  <1>1. CASE io'[x.io].removed
    BY <1>1 DEF Away
  <1>2. ASSUME NEW r \in queue, r.io = x.io, r.resolved PROVE Away(x.io)'
    <2>1. Away(x.io) /\ x.io \in Io
      BY <1>2 DEF HInv, HiddenAreAway, RowType
    <2> QED BY <2>1
  <1> QED BY <1>1, <1>2

\* The changes of a row keep it hidden or not, orphaning excepted.
LEMMA ChangesHide ==
  ASSUME NEW r \in RowType
  PROVE  /\ DeadLetter(r).io = r.io /\ DeadLetter(r).resolved = r.resolved
         /\ Transient(r).io = r.io /\ Transient(r).resolved = r.resolved
         /\ Strike(r).io = r.io /\ Strike(r).resolved = r.resolved
         /\ ParkAtCap(r).io = r.io /\ ParkAtCap(r).resolved = r.resolved
         /\ Orphan(r).io = r.io /\ Release(r).io = r.io /\ ~Release(r).resolved
  BY DEF RowType, DeadLetter, Transient, Strike, ParkAtCap, Orphan, Release

\* The steps that leave the table of IOs and the change feed alone.
LEMMA ElsewhereAway ==
  ASSUME HInv, queue' \subseteq RowType,
         \A x \in queue' : x.resolved => \E r \in queue : r.io = x.io /\ r.resolved,
         \A i \in Io : io'[i].removed = io[i].removed,
         UNCHANGED <<cloud, unseen, delta>>
  PROVE  HiddenAreAway' /\ ViewIsRecent'
  <1>1. \A i \in Io : Away(i) => Away(i)'
    BY DEF Away, InDelta
  <1>2. HiddenAreAway'
    BY <1>1, HiddenKept
  <1> QED BY <1>2 DEF HInv, ViewIsRecent

\* A request of an operator inserts a row that is not hidden.
LEMMA OperatorAway ==
  ASSUME HInv, NEW i \in Io, Operator(i), Types'
  PROVE  HiddenAreAway' /\ ViewIsRecent'
  <1>0. Types /\ queue' \subseteq RowType
    BY DEF HInv, IInv, Types
  <1>1. nextId \in 1..MaxRows
    BY <1>0, OperatorMay
  <1>2. ASSUME NEW op, NEW note, NEW newIo \in IoType, newIo.removed = io[i].removed,
               Record(i, op, note, newIo)
        PROVE  HiddenAreAway' /\ ViewIsRecent'
    <2> DEFINE new == Row(nextId, i, op, note, io[i].version)
    <2>1. queue' \subseteq queue \cup {new} /\ ~new.resolved
      BY <1>2 DEF Record, Insert, Row
    <2> HIDE DEF new
    <2>2. \A j \in Io : io'[j].removed = io[j].removed
      BY <1>0, <1>2 DEF Record, Types, IoType
    <2>3. UNCHANGED <<cloud, unseen, delta>>
      BY <1>2 DEF Record
    <2> QED BY <1>0, <2>1, <2>2, <2>3, ElsewhereAway
  <1> io[i] \in IoType /\ io[i].comment \in 0..MaxRows /\ 0 \in 0..MaxRows /\ nextId \in 0..MaxRows
    BY <1>0, <1>1, IoOutboxAssumption DEF Types, IoType
  <1>3. ASSUME NEW result \in {"Passed", "Failed"}, Test(i, result)
        PROVE  HiddenAreAway' /\ ViewIsRecent'
    <2> DEFINE new == [io[i] EXCEPT !.result = result, !.comment = 0, !.hist = result, !.histAt = nextId]
    <2>1. new \in IoType /\ new.removed = io[i].removed
      BY DEF IoType, Stored, Result
    <2>2. Record(i, result, 0, new)
      BY <1>3 DEF Test
    <2> HIDE DEF new
    <2> QED BY <1>2, <2>1, <2>2
  <1>4. CASE Reset(i)
    <2> DEFINE new == [io[i] EXCEPT !.result = None, !.comment = 0, !.hist = "Cleared", !.histAt = nextId]
    <2>1. new \in IoType /\ new.removed = io[i].removed
      BY DEF IoType, Stored, Result
    <2>2. Record(i, "Cleared", 0, new)
      BY <1>4 DEF Reset
    <2> HIDE DEF new
    <2> QED BY <1>2, <2>1, <2>2
  <1>5. ASSUME NEW result \in Puts, Put(i, result)
        PROVE  HiddenAreAway' /\ ViewIsRecent'
    <2>1. PICK note \in Notes(i) : Record(i, result, note, Written(i, result, note))
      BY <1>5 DEF Put, Written
    <2>2. note \in 0..MaxRows
      BY <1>0, <1>1, NotesType
    <2> QED BY <1>0, <1>1, <1>2, <2>1, <2>2, WrittenType
  <1>6. ASSUME NEW note \in 0..MaxRows
        PROVE  /\ Commented(i, note) \in IoType
               /\ Commented(i, note).removed = io[i].removed
    BY <1>0, <1>1, CommentedType DEF Commented, IoType
  <1>7. CASE Comment(i)
    <2>1. PICK note \in Notes(i) : Record(i, "Comment", note, Commented(i, note))
      BY <1>7 DEF Comment
    <2>2. note \in 0..MaxRows
      BY <1>0, <1>1, NotesType
    <2> QED BY <1>2, <1>6, <2>1, <2>2
  <1>8. CASE Punchlist(i)
    BY <1>2, <1>8 DEF Punchlist
  <1>9. CASE Touch(i)
    <2>1. \A j \in Io : io'[j].removed = io[j].removed
      BY <1>0, <1>6, <1>9 DEF Touch, Types, IoType
    <2>2. UNCHANGED <<queue, cloud, unseen, delta>>
      BY <1>9 DEF Touch
    <2> QED BY <1>0, <2>1, <2>2, ElsewhereAway
  <1> QED BY <1>3, <1>4, <1>5, <1>7, <1>8, <1>9 DEF Operator

\* A row a drain orphans has its IO tombstoned in the same step.
LEMMA RepliesAway ==
  ASSUME HInv, Types', (\E i \in Io : InstantReply(i)) \/ BgReply
  PROVE  HiddenAreAway' /\ ViewIsRecent'
  <1>0. Types /\ queue \subseteq RowType /\ queue' \subseteq RowType
    BY DEF HInv, IInv, Types
  <1>1. UNCHANGED <<cloud, unseen, delta>>
    BY DEF InstantReply, BgReply
  <1>2. ASSUME UNCHANGED io,
               \/ queue' \subseteq queue
               \/ \E id : \/ queue' = Amend(queue, {id}, DeadLetter)
                          \/ queue' = Amend(queue, {id}, Transient)
                          \/ queue' = Amend(queue, {id}, Strike)
        PROVE  HiddenAreAway' /\ ViewIsRecent'
    <2>1. \A x \in queue' : x.resolved => \E r \in queue : r.io = x.io /\ r.resolved
      BY <1>0, <1>2, ChangesHide DEF Amend
    <2> QED BY <1>0, <1>1, <1>2, <2>1, ElsewhereAway
  <1>3. ASSUME NEW id, queue' = Amend(queue, {id}, Orphan), Tombstone(id)
        PROVE  HiddenAreAway' /\ ViewIsRecent'
    <2>1. \A i \in Io : /\ io[i].removed => io'[i].removed
                        /\ (\E r \in queue : r.id = id /\ r.io = i) => io'[i].removed
      BY <1>0, <1>3 DEF Tombstone, Types, IoType
    <2>2. \A x \in queue' : x.resolved => \/ io'[x.io].removed
                                          \/ \E r \in queue : r.io = x.io /\ r.resolved
      <3> SUFFICES ASSUME NEW x \in queue', x.resolved
                   PROVE  io'[x.io].removed \/ \E r \in queue : r.io = x.io /\ r.resolved
        OBVIOUS
      <3>1. PICK r \in queue : x = IF r.id \in {id} THEN Orphan(r) ELSE r
        BY <1>3 DEF Amend
      <3>2. r \in RowType /\ r.io \in Io
        BY <1>0 DEF RowType
      <3>3. CASE r.id = id
        BY <2>1, <3>1, <3>2, <3>3, ChangesHide
      <3>4. CASE r.id # id
        BY <3>1, <3>4
      <3> QED BY <3>3, <3>4
    <2>3. \A i \in Io : Away(i) => Away(i)'
      BY <1>1, <2>1 DEF Away, InDelta
    <2>4. HiddenAreAway'
      BY <1>0, <2>2, <2>3, HiddenKept
    <2> QED BY <1>1, <2>4 DEF HInv, ViewIsRecent
  <1>4. ASSUME NEW i \in Io, InstantReply(i) PROVE HiddenAreAway' /\ ViewIsRecent'
    <2>1. Delete(queue, {call[i].row.id}) \subseteq queue
      BY DEF Delete
    <2> QED BY <1>2, <1>3, <1>4, <2>1 DEF InstantReply
  <1>5. CASE BgReply
    <2>1. Accept(queue, call[Background].row) \subseteq queue
      BY DEF Accept
    <2> QED BY <1>2, <1>3, <1>5, <2>1 DEF BgReply
  <1> QED BY <1>4, <1>5

\* pushToCloud parks at the cap, deletes and rebases; it hides nothing.
LEMMA TicksAway ==
  ASSUME HInv, Types', TickDrain \/ TickB7 \/ B7Fetch \/ B7Act
  PROVE  HiddenAreAway' /\ ViewIsRecent'
  <1>0. Types /\ queue \subseteq RowType /\ queue' \subseteq RowType
    BY DEF HInv, IInv, Types
  <1>1. UNCHANGED <<io, cloud, unseen, delta>>
    BY DEF TickDrain, TickB7, B7Fetch, B7Act
  <1>2. ASSUME NEW q \in SUBSET RowType, CapAndDrain(q),
               \A x \in q : x.resolved => \E r \in queue : r.io = x.io /\ r.resolved
        PROVE  \A x \in queue' : x.resolved => \E r \in queue : r.io = x.io /\ r.resolved
    BY <1>2, ChangesHide DEF CapAndDrain
  <1>3. CASE TickDrain \/ TickB7 \/ B7Fetch
    <2>1. \A x \in queue' : x.resolved => \E r \in queue : r.io = x.io /\ r.resolved
      BY <1>0, <1>2, <1>3 DEF TickDrain, TickB7, B7Fetch
    <2> QED BY <1>0, <1>1, <2>1, ElsewhereAway
  <1>4. CASE B7Act
    <2> DEFINE With(fates) == {r.id : r \in {x \in bg.rows : Fate(x, bg.view) \in fates}}
               Rebase(r) == [r EXCEPT !.base = bg.view[r.io].version, !.strikes = 0,
                                      !.dead = FALSE, !.err = "rebased"]
               kept == Delete(queue, With({"landed", "superseded", "stale"}))
               q == Amend(kept, With({"rebase"}), Rebase)
    <2>1. CapAndDrain(q)
      BY <1>4 DEF B7Act
    <2>2. ASSUME NEW x \in q
          PROVE  \E r \in queue : x.io = r.io /\ x.resolved = r.resolved
      <3>1. PICK r \in kept : x = IF r.id \in With({"rebase"}) THEN Rebase(r) ELSE r
        BY <2>2 DEF Amend
      <3>2. r \in queue /\ r \in RowType
        BY <1>0 DEF Delete
      <3>3. Rebase(r).io = r.io /\ Rebase(r).resolved = r.resolved
        BY <3>2 DEF RowType
      <3> HIDE DEF Rebase, With
      <3> QED BY <3>1, <3>2, <3>3
    <2> HIDE DEF q
    <2>3. ASSUME NEW x \in queue', x.resolved
          PROVE  \E r \in queue : r.io = x.io /\ r.resolved
      <3>1. PICK y \in q : x = ParkAtCap(y)
        BY <2>1, <2>3 DEF CapAndDrain
      <3>2. x.io = y.io /\ x.resolved = y.resolved
        BY <3>1 DEF ParkAtCap
      <3> QED BY <2>2, <2>3, <3>2
    <2> QED BY <1>0, <1>1, <2>3, ElsewhereAway
  <1> QED BY <1>3, <1>4

\* A delta releases what is hidden of the IOs that are back, and hides what is
\* queued for those that are gone; the cloud has not got them, or has news of them.
LEMMA DeltaAway ==
  ASSUME HInv, Types', Delta
  PROVE  HiddenAreAway' /\ ViewIsRecent'
  <1>0. Types /\ queue \subseteq RowType /\ queue' \subseteq RowType
    BY DEF HInv, IInv, Types
  <1>1. CASE DeltaFetch
    <2> DEFINE view == [i \in unseen |-> cloud[i]]
    <2>1. /\ delta = Idle /\ delta' = Fetched(view) /\ unseen' = {}
          /\ UNCHANGED <<io, queue, cloud>>
      BY <1>1 DEF DeltaFetch
    <2>2. InDelta = {} /\ InDelta' = unseen
      BY <2>1 DEF InDelta, Idle, Fetched
    <2>3. \A i \in Io : Away(i) => Away(i)'
      BY <2>1, <2>2 DEF Away
    <2>4. HiddenAreAway'
      BY <1>0, <2>1, <2>3, HiddenKept
    <2>5. ViewIsRecent'
      BY <2>1 DEF ViewIsRecent, Fetched
    <2> QED BY <2>4, <2>5
  <1>2. CASE DeltaApply
    <2> DEFINE back == {i \in DOMAIN delta.view : delta.view[i].exists}
               gone == DOMAIN delta.view \ back
    <2>1. /\ delta.pc = "fetched" /\ delta' = Idle /\ UNCHANGED <<cloud, unseen>>
          /\ queue' = {IF r.io \in back /\ r.orphaned THEN Release(r)
                       ELSE IF r.io \in gone /\ ~r.orphaned THEN Orphan(r) ELSE r : r \in queue}
          /\ io' = [i \in Io |-> IF i \in back THEN Upserted(io[i], delta.view[i])
                                 ELSE IF i \in gone /\ RowsOf(queue, i) = {} THEN Deleted(io[i])
                                 ELSE io[i]]
      BY <1>2 DEF DeltaApply
    <2>2. InDelta = back \cup gone /\ back \cap gone = {}
      BY <2>1 DEF InDelta
    <2>3. \A i \in gone : ~cloud[i].exists \/ i \in unseen
      BY <1>0, <2>1, DeltaHolds DEF HInv, ViewIsRecent, CloudType, Types
    <2> HIDE DEF back, gone
    <2>4. HiddenAreAway'
      <3> SUFFICES ASSUME NEW x \in queue', x.resolved PROVE Away(x.io)'
        BY DEF HiddenAreAway
      <3>1. PICK r \in queue : x = IF r.io \in back /\ r.orphaned THEN Release(r)
                                   ELSE IF r.io \in gone /\ ~r.orphaned THEN Orphan(r) ELSE r
        BY <2>1
      <3>2. r \in RowType /\ r.io \in Io
        BY <1>0 DEF RowType
      <3>3. x.io = r.io
        BY <3>1, <3>2, ChangesHide
      <3>4. CASE r.io \in gone
        BY <2>1, <2>3, <3>3, <3>4 DEF Away
      <3>5. CASE r.io \in back
        <4>1. ~r.orphaned /\ x = r
          BY <2>2, <3>1, <3>2, <3>5, ChangesHide
        <4> QED BY <4>1 DEF HInv, IInv, RowsSound, Sound
      <3>6. CASE r.io \notin gone /\ r.io \notin back
        <4>1. x = r /\ Away(r.io)
          BY <3>1, <3>6 DEF HInv, HiddenAreAway
        <4>2. r.io \notin InDelta /\ io'[r.io] = io[r.io]
          BY <2>1, <2>2, <3>2, <3>6
        <4> QED BY <2>1, <4>1, <4>2 DEF Away
      <3> QED BY <3>4, <3>5, <3>6
    <2>5. ViewIsRecent'
      BY <2>1 DEF ViewIsRecent, Idle
    <2> QED BY <2>4, <2>5
  <1> QED BY <1>1, <1>2 DEF Delta

\* What happens on the cloud: a push changes no IO's presence, and a change is news.
LEMMA CloudAway ==
  ASSUME HInv, \/ \E s \in Sender : Answer(s)
               \/ \E r \in late : ArriveLate(r)
               \/ \E i \in Io : CloudChange(i)
  PROVE  HiddenAreAway' /\ ViewIsRecent'
  <1>0. Types /\ queue \subseteq RowType
    BY DEF HInv, IInv, Types
  <1>1. UNCHANGED <<io, queue, delta>> /\ unseen \subseteq unseen'
    BY DEF Answer, ArriveLate, CloudChange, Arrive
  <1>2. \A i \in Io : cloud'[i].exists = cloud[i].exists \/ i \in unseen'
    <2>1. ASSUME NEW r \in PayloadType, Arrive(r)
          PROVE  \A i \in Io : cloud'[i].exists = cloud[i].exists \/ i \in unseen'
      <3>1. \A c \in CloudType : Landed(c, r).exists = c.exists
        BY DEF Landed, CloudType
      <3> QED BY <1>0, <2>1, <3>1 DEF Arrive, Types, PayloadType
    <2>2. ASSUME NEW i \in Io, CloudChange(i)
          PROVE  \A j \in Io : cloud'[j].exists = cloud[j].exists \/ j \in unseen'
      BY <1>0, <2>2 DEF CloudChange, Types, CloudType
    <2> QED BY <1>0, <2>1, <2>2, PayloadOf DEF Answer, ArriveLate, Types
  <1>3. \A i \in Io : Away(i) => Away(i)'
    BY <1>1, <1>2 DEF Away, InDelta
  <1>4. HiddenAreAway'
    BY <1>0, <1>1, <1>3, HiddenKept
  <1>5. ViewIsRecent'
    BY <1>0, <1>1, <1>2, DeltaHolds DEF HInv, ViewIsRecent
  <1> QED BY <1>4, <1>5

\* Every step keeps hidden rows to IOs that are away.
LEMMA NextHInv == HInv /\ [Next]_vars => HInv'
  <1> SUFFICES ASSUME HInv, [Next]_vars PROVE HInv'
    OBVIOUS
  <1>1. IInv' /\ Types' /\ Types /\ queue \subseteq RowType
    BY NextIInv DEF HInv, IInv, Types
  <1>2. ASSUME UNCHANGED <<io, queue, cloud, unseen, delta>> PROVE HiddenAreAway' /\ ViewIsRecent'
    BY <1>1, <1>2, ElsewhereAway
  <1>3. CASE \E i \in Io : Operator(i)
    BY <1>1, <1>3, OperatorAway DEF HInv
  <1>4. CASE \/ \E s \in Sender : Answer(s)
             \/ \E r \in late : ArriveLate(r)
             \/ \E i \in Io : CloudChange(i)
    BY <1>1, <1>4, CloudAway DEF HInv
  <1>5. CASE (\E i \in Io : InstantReply(i)) \/ BgReply
    BY <1>1, <1>5, RepliesAway DEF HInv
  <1>6. CASE TickDrain \/ TickB7 \/ B7Fetch \/ B7Act
    BY <1>1, <1>6, TicksAway DEF HInv
  <1>7. CASE Delta
    BY <1>1, <1>7, DeltaAway DEF HInv
  <1>8. ASSUME NEW r \in queue, Retry(r) \/ Discard(r) PROVE HInv'
    <2>1. \A x \in queue' : x.resolved => \E y \in queue : y.io = x.io /\ y.resolved
      BY <1>1, <1>8, ChangesHide DEF Retry, Discard, Amend, Delete
    <2>2. UNCHANGED <<io, cloud, unseen, delta>> /\ queue' \subseteq RowType
      BY <1>1, <1>8 DEF Retry, Discard, Types
    <2> QED BY <1>1, <2>1, <2>2, ElsewhereAway DEF HInv
  <1>9. CASE (\E s \in Sender : Lose(s)) \/ RecFetch \/ UNCHANGED vars
    BY <1>1, <1>2, <1>9 DEF Lose, RecFetch, vars, HInv
  <1>10. CASE RecAct
    <2> DEFINE lacking == UNION {Missing(i, rec.view) : i \in Io}
    <2> HIDE DEF lacking
    <2>0. PICK last \in nextId - 1 .. MaxRows :
            \E number \in [lacking -> nextId .. last] :
              queue' = Insert(queue, {Row(number[e], e.io, e.op, e.note, e.base) : e \in lacking})
      BY <1>10 DEF RecAct, lacking
    <2>1. PICK number \in [lacking -> nextId .. last] :
            queue' = Insert(queue, {Row(number[e], e.io, e.op, e.note, e.base) : e \in lacking})
      BY <2>0
    <2>2. \A x \in queue' : x.resolved => x \in queue
      BY <2>1 DEF Insert, Row
    <2>3. UNCHANGED <<io, cloud, unseen, delta>> /\ queue' \subseteq RowType
      BY <1>1, <1>10 DEF RecAct, Types
    <2> QED BY <1>1, <2>2, <2>3, ElsewhereAway DEF HInv
  <1>11. CASE Crash
    <2>1. /\ UNCHANGED <<io, queue, cloud>> /\ delta' = Idle
          /\ unseen' = unseen \cup InDelta
      BY <1>11 DEF Crash
    <2>2. \A i \in Io : Away(i) => Away(i)'
      BY <2>1 DEF Away
    <2>3. HiddenAreAway'
      BY <1>1, <2>1, <2>2, HiddenKept
    <2>4. ViewIsRecent'
      BY <2>1 DEF ViewIsRecent, Idle
    <2> QED BY <1>1, <2>3, <2>4 DEF HInv
  <1> QED BY <1>3, <1>4, <1>5, <1>6, <1>7, <1>8, <1>9, <1>10, <1>11 DEF Next, Drain, PushToCloud

\* A row that is hidden from the operator can be released, and its IO is away: the
\* tablet holds it for removed, or the cloud does not have it, or the change that
\* brought it back is on its way and will release the row (applyDelta).
THEOREM HiddenRowsAreAway == Spec => []HiddenMeansAway
  <1>1. Init => HInv
    BY InitIInv DEF Init, HInv, HiddenAreAway, ViewIsRecent, Idle
  <1>2. HInv => HiddenMeansAway
    BY DEF HInv, IInv, RowsSound, Sound, HiddenAreAway, Away, HiddenMeansAway
  <1> QED BY NextHInv, <1>1, <1>2, PTL DEF Spec

-----------------------------------------------------------------------------
(* Results do not vanish.  The proof follows every row back to the operation *)
(* it was inserted for: the rows of the table and the copies the senders     *)
(* hold agree with the log, hence with each other, even when B7 acts on      *)
(* rows it read before an await; what the cloud holds has come from such an  *)
(* operation; and a queued result is what the tablet holds, or later work    *)
(* has overtaken it.                                                         *)

\* The instances the theorem speaks of.  With metadata rows, B7 takes such a row
\* for the successor of a result; and a clear is protected only while it is the
\* last thing that happened to its IO, which a comment ends.  Both break
\* NoSilentLoss.  With the reconciler the row of a clear may be younger than the
\* clear, which Stands below does not allow for.
Plain == /\ Ops \cap MetaOps = {}
         /\ "Cleared" \in Ops => ~Reconciling /\ "Comment" \notin Ops

\* The operation a row, or a copy of it, stands for.
Entry(r) == [id |-> r.id, io |-> r.io, op |-> r.op]
Recorded(rows) == \A r \in rows : Entry(r) \in log

LogOK == /\ log \subseteq [id : 1..MaxRows, io : Io, op : Op]
         /\ \A e \in log : e.id < nextId
         /\ \A e, f \in log : e.id = f.id => e = f

\* Every copy a sender holds across an await stands for a recorded operation.
InFlight ==
  /\ \A s \in Sender : call[s].pc # "idle" => Entry(call[s].row) \in log
  /\ bg.pc \in {"b7", "b7read"} => Recorded(bg.rows)
  /\ bg.pc = "drain" => Recorded(bg.batch)

\* A push that was accepted is on record before its row is deleted.
AcceptedIsSettled ==
  \A s \in Sender : call[s].pc = "answered" /\ call[s].reply = "ok" => call[s].row.id \in settled

\* A result in c, the cloud's copy of IO i, comes from an operation.
Comes(c, i) == c.result # None => [id |-> c.at, io |-> i, op |-> c.result] \in log
CloudComes == /\ \A i \in Io : Comes(cloud[i], i)
              /\ delta.pc = "fetched" => \A i \in DOMAIN delta.view : Comes(delta.view[i], i)

\* What the tablet holds in x is what a row with operation op and number id says.
Says(op, id, x) ==
  op \in ResultOps => /\ Norm(x.result) = Norm(op)
                      /\ op = "Cleared" => x.hist = "Cleared" /\ x.histAt = id
Stands == \A r \in queue : Overtaken(r, log) \/ Says(r.op, r.id, io[r.io])

\* What the restriction to plain instances keeps out.
OpsPlain == /\ \A e \in log : e.op \notin MetaOps /\ (e.op = "Cleared" => "Cleared" \in Ops)
            /\ \A i \in Io : "Cleared" \in {io[i].hist, io[i].result} => "Cleared" \in Ops
            /\ ~Reconciling => rec = Idle

Rest == /\ LogOK /\ Recorded(queue) /\ Recorded(late) /\ InFlight
        /\ AcceptedIsSettled /\ CloudComes /\ Stands /\ OpsPlain

LInv == Plain /\ IInv /\ Rest

\* What NoSilentLoss asks of the row r in a step.
Accounted(r) ==
  \/ \E x \in queue' : x.id = r.id
  \/ r.id \in settled' \cup excused'
  \/ cloud[r.io].result = Norm(r.op)
  \/ Overtaken(r, log')
  \/ r.dead /\ r.id \in ruled
AllAccounted == \A r \in queue : r.op \in ResultOps => Accounted(r)

\* A copy of a row stands for the same operation, and so does a changed row.
LEMMA SameEntry ==
  ASSUME NEW r
  PROVE  /\ Entry(Payload(r)) = Entry(r)
         /\ Sent(r).pc = "sent" /\ Sent(r).row = Payload(r)
         /\ \A x : Answered(r, x).pc = "answered" /\ Answered(r, x).row = r /\ Answered(r, x).reply = x
  BY DEF Entry, Payload, Sent, Answered

LEMMA ChangesKeepEntry ==
  ASSUME NEW r \in RowType
  PROVE  /\ Entry(DeadLetter(r)) = Entry(r) /\ Entry(Orphan(r)) = Entry(r)
         /\ Entry(Release(r)) = Entry(r) /\ Entry(Transient(r)) = Entry(r)
         /\ Entry(Strike(r)) = Entry(r) /\ Entry(ParkAtCap(r)) = Entry(r)
  BY DEF Entry, RowType, DeadLetter, Orphan, Release, Transient, Strike, ParkAtCap

\* Two rows of one number are rows of one operation on one IO.
LEMMA OneEntry ==
  ASSUME LogOK, NEW r, NEW x, Entry(r) \in log, Entry(x) \in log, r.id = x.id
  PROVE  r.io = x.io /\ r.op = x.op
  <1>1. Entry(r) = Entry(x)
    BY DEF LogOK, Entry
  <1> QED BY <1>1 DEF Entry

\* A row stays overtaken while the log grows.
LEMMA OvertakenStays ==
  ASSUME NEW r, NEW l, NEW m, l \subseteq m, Overtaken(r, l)
  PROVE  Overtaken(r, m)
  BY DEF Overtaken

\* Later work on the IO of a row overtakes it, where no work is metadata.
LEMMA LaterOvertakes ==
  ASSUME NEW r, r.op \notin MetaOps, NEW l, NEW e \in l, e.io = r.io, e.id > r.id, e.op \notin MetaOps
  PROVE  Overtaken(r, l)
  BY DEF Overtaken

\* A table whose rows come, entry by entry, from the rows of the old one.
Derived(q) == \A x \in q : \E r \in queue : Entry(x) = Entry(r)

\* Nothing the queue depends on has changed in the IOs that have a row.
Untouched == \A r \in queue : /\ io'[r.io].result = io[r.io].result
                              /\ io'[r.io].hist = io[r.io].hist
                              /\ io'[r.io].histAt = io[r.io].histAt

LEMMA RowsStand ==
  ASSUME LInv, Derived(queue'), Untouched, log' = log
  PROVE  Recorded(queue)' /\ Stands'
  <1> SUFFICES ASSUME NEW x \in queue'
               PROVE  /\ Entry(x) \in log'
                      /\ Overtaken(x, log') \/ Says(x.op, x.id, io'[x.io])
    BY DEF Recorded, Stands
  <1>1. PICK r \in queue : Entry(x) = Entry(r)
    BY DEF Derived
  <1>2. x.id = r.id /\ x.io = r.io /\ x.op = r.op
    BY <1>1 DEF Entry
  <1>3. Entry(r) \in log
    BY DEF LInv, Rest, Recorded
  <1>4. Overtaken(r, log) \/ Says(r.op, r.id, io[r.io])
    BY DEF LInv, Rest, Stands
  <1>5. CASE Overtaken(r, log)
    BY <1>1, <1>2, <1>3, <1>5 DEF Overtaken
  <1>6. CASE Says(r.op, r.id, io[r.io])
    BY <1>1, <1>2, <1>3, <1>6 DEF Says, Untouched
  <1> QED BY <1>4, <1>5, <1>6

\* The steps of the senders: each push stays, ends, or starts with a row of rows.
Carries(rows) ==
  \A s \in Sender : \/ call'[s] = call[s] \/ call'[s] = Idle
                    \/ \E r \in rows : call'[s] = Sent(r)

LEMMA DrainsCarry ==
  ASSUME Types, NEW i \in Io, NEW q \in SUBSET RowType,
         Resume(i, q) \/ EnqueueSyncPush(i, q) \/ Returned(i, q) \/ Continue(i, q)
  PROVE  Carries(q)
  <1>1. \A t \in Sender : \A x : call' = [call EXCEPT ![t] = x]
                                     => \A s \in Sender : call'[s] = call[s] \/ call'[s] = x
    BY DEF Types
  <1>2. ASSUME Resume(i, q) PROVE Carries(q)
    <2>1. CASE Active(q, i) = {}
      BY <1>1, <1>2, <2>1 DEF Resume, Carries, Sender
    <2>2. CASE Active(q, i) # {}
      <3>1. Active(q, i) \subseteq q /\ \A r \in Active(q, i) : r.id \in Nat
        BY DEF Active, RowsOf, RowType
      <3>2. Oldest(Active(q, i)) \in q
        BY <2>2, <3>1, OldestIsOne
      <3> QED BY <1>1, <1>2, <2>2, <3>2 DEF Resume, Carries, Sender
    <2> QED BY <2>1, <2>2
  <1>3. ASSUME EnqueueSyncPush(i, q) PROVE Carries(q)
    BY <1>2, <1>3 DEF EnqueueSyncPush, Carries
  <1>4. ASSUME Returned(i, q) PROVE Carries(q)
    BY <1>1, <1>2, <1>4 DEF Returned, Carries, Sender
  <1>5. ASSUME Continue(i, q) PROVE Carries(q)
    BY <1>2, <1>4, <1>5 DEF Continue
  <1> QED BY <1>2, <1>3, <1>4, <1>5

LEMMA GoingOnCarries ==
  ASSUME Types, NEW batch \in SUBSET PayloadType, NEW blocked, NEW fails,
         GoOn(batch, blocked, fails)
  PROVE  /\ Carries(batch)
         /\ bg' = BgIdle \/ \E rest \in SUBSET batch : bg' = BgDrain(rest, blocked, fails)
  <1> DEFINE todo == {r \in batch : r.io \notin blocked /\ fails < Tolerance}
  <1>1. \A x : call' = [call EXCEPT ![Background] = x]
                 => \A s \in Sender : call'[s] = call[s] \/ call'[s] = x
    BY DEF Types
  <1>2. CASE todo = {}
    BY <1>1, <1>2 DEF GoOn, Carries
  <1>3. CASE todo # {}
    <2>1. \A r \in todo : r.id \in Nat
      BY DEF PayloadType
    <2>2. Oldest(todo) \in todo
      BY <1>3, <2>1, OldestIsOne
    <2>3. /\ call' = [call EXCEPT ![Background] = Sent(Oldest(todo))]
          /\ bg' = BgDrain(todo \ {Oldest(todo)}, blocked, fails)
      BY <1>3 DEF GoOn
    <2>4. Oldest(todo) \in batch /\ todo \ {Oldest(todo)} \in SUBSET batch
      BY <2>2
    <2> HIDE DEF todo
    <2> QED BY <1>1, <2>3, <2>4 DEF Carries
  <1> QED BY <1>2, <1>3

\* Such steps hold on to recorded operations only, and accept nothing.
LEMMA CarryingKeeps ==
  ASSUME LInv, NEW rows, Carries(rows), \A r \in rows : Entry(r) \in log',
         log \subseteq log', settled \subseteq settled'
  PROVE  /\ \A s \in Sender : call'[s].pc # "idle" => Entry(call'[s].row) \in log'
         /\ AcceptedIsSettled'
  <1>1. Idle.pc = "idle"
    BY DEF Idle
  <1>2. ASSUME NEW s \in Sender
        PROVE  /\ call'[s].pc # "idle" => Entry(call'[s].row) \in log'
               /\ call'[s].pc = "answered" /\ call'[s].reply = "ok" => call'[s].row.id \in settled'
    <2>1. CASE call'[s] = call[s]
      BY <2>1 DEF LInv, Rest, InFlight, AcceptedIsSettled
    <2>2. CASE call'[s] = Idle
      BY <1>1, <2>2
    <2>3. ASSUME NEW r \in rows, call'[s] = Sent(r)
          PROVE  Entry(call'[s].row) \in log' /\ call'[s].pc = "sent"
      BY <2>3, SameEntry
    <2> QED BY <2>1, <2>2, <2>3 DEF Carries
  <1> QED BY <1>2 DEF AcceptedIsSettled

\* The views of the cloud keep their origin while the log grows and they stay.
LEMMA ViewsStay ==
  ASSUME LInv, UNCHANGED <<cloud, delta>>, log \subseteq log'
  PROVE  CloudComes'
  BY DEF LInv, Rest, CloudComes, Comes

\* One lemma per action: the invariant stays, and every result is accounted for.
LEMMA RecordKeeps ==
  ASSUME LInv, IInv', NEW i \in Io, NEW op \in Op, NEW note \in 0..MaxRows, NEW newIo \in IoType,
         Says(op, nextId, newIo), "Cleared" \in {newIo.hist, newIo.result} => "Cleared" \in Ops,
         Record(i, op, note, newIo)
  PROVE  Rest' /\ AllAccounted
  <1> DEFINE e == [id |-> nextId, io |-> i, op |-> op]
             new == Row(nextId, i, op, note, io[i].version)
  <1>0. Types /\ Types' /\ nextId \in 1..MaxRows
    BY IoOutboxAssumption DEF LInv, IInv, Record, Types
  <1>1. op \in Ops /\ op \notin MetaOps /\ \A f \in log : f.op \notin MetaOps
    BY DEF Record, LInv, Rest, Plain, OpsPlain
  <1>2. log' = log \cup {e} /\ nextId' = nextId + 1
    BY DEF Record
  <1>3. /\ e.id = nextId /\ e.io = i /\ e.op = op
        /\ new.id = nextId /\ new.io = i /\ new.op = op /\ Entry(new) = e
    BY DEF Row, Entry
  <1>4. io' = [io EXCEPT ![i] = [newIo EXCEPT !.version = io[i].version + 1]]
    BY DEF Record
  <1>5. /\ io'[i].result = newIo.result /\ io'[i].hist = newIo.hist /\ io'[i].histAt = newIo.histAt
        /\ \A j \in Io : j # i => io'[j] = io[j]
    BY <1>0, <1>4 DEF Types, IoType
  <1>6. queue' \subseteq queue \cup {new}
    BY DEF Record, Insert
  <1>7. \A r \in queue : Entry(r) \in log /\ r.id < nextId /\ r.op \notin MetaOps /\ r.io \in Io
    <2> SUFFICES ASSUME NEW r \in queue
                 PROVE  Entry(r) \in log /\ r.id < nextId /\ r.op \notin MetaOps /\ r.io \in Io
      OBVIOUS
    <2>1. Entry(r) \in log
      BY DEF LInv, Rest, Recorded
    <2>2. Entry(r).id = r.id /\ Entry(r).op = r.op
      BY DEF Entry
    <2>3. r.io \in Io
      BY <1>0 DEF Types, RowType
    <2> QED BY <1>1, <2>1, <2>2, <2>3 DEF LInv, Rest, LogOK
  <1>8. \A r \in queue : r.io = i => Overtaken(r, log')
    <2> SUFFICES ASSUME NEW r \in queue, r.io = i PROVE Overtaken(r, log')
      OBVIOUS
    <2>1. e \in log' /\ e.id > r.id /\ r.op \notin MetaOps /\ e.op \notin MetaOps /\ e.io = r.io
      BY <1>0, <1>1, <1>2, <1>3, <1>7 DEF Types, RowType
    <2> HIDE DEF e
    <2> QED BY <2>1, LaterOvertakes
  <1> HIDE DEF e, new
  <1>9. LogOK'
    <2>1. log' \subseteq [id : 1..MaxRows, io : Io, op : Op]
      BY <1>0, <1>2 DEF LInv, Rest, LogOK, e
    <2>2. \A f \in log' : f.id < nextId'
      BY <1>0, <1>2, <1>3 DEF LInv, Rest, LogOK
    <2>3. \A f, g \in log' : f.id = g.id => f = g
      BY <1>0, <1>2, <1>3 DEF LInv, Rest, LogOK
    <2> QED BY <2>1, <2>2, <2>3 DEF LogOK
  <1>10. Recorded(queue)' /\ Recorded(late)'
    <2>1. late' = late
      BY DEF Record
    <2> QED BY <1>2, <1>3, <1>6, <1>7, <2>1 DEF Recorded, LInv, Rest
  <1>11. Stands'
    <2> SUFFICES ASSUME NEW r \in queue' PROVE Overtaken(r, log') \/ Says(r.op, r.id, io'[r.io])
      BY DEF Stands
    <2>1. CASE r \in queue /\ r.io = i
      BY <1>8, <2>1
    <2>2. CASE r \in queue /\ r.io # i
      BY <1>2, <1>5, <1>7, <2>2, OvertakenStays DEF LInv, Rest, Stands
    <2>3. CASE r = new
      BY <1>3, <1>5, <2>3 DEF Says
    <2> QED BY <1>6, <2>1, <2>2, <2>3
  <1>12. OpsPlain'
    <2>1. UNCHANGED rec
      BY DEF Record
    <2>2. \A j \in Io : "Cleared" \in {io'[j].hist, io'[j].result} => "Cleared" \in Ops
      BY <1>5 DEF LInv, Rest, OpsPlain
    <2> QED BY <1>1, <1>2, <1>3, <2>1, <2>2 DEF LInv, Rest, OpsPlain
  <1>13. UNCHANGED <<cloud, delta, late, bg, settled>>
    BY DEF Record
  <1>14. CloudComes'
    BY <1>2, <1>13, ViewsStay
  <1>15. InFlight' /\ AcceptedIsSettled'
    <2>1. Carries(queue')
      <3>1. CASE UNCHANGED <<queue, want, call>>
        BY <3>1 DEF Carries
      <3>2. CASE EnqueueSyncPush(i, queue')
        <4>1. queue' \in SUBSET RowType
          BY <1>0 DEF Types
        <4> QED BY <1>0, <3>2, <4>1, DrainsCarry
      <3> QED BY <3>1, <3>2 DEF Record
    <2>2. \A r \in queue' : Entry(r) \in log'
      BY <1>10 DEF Recorded
    <2>3. /\ \A s \in Sender : call'[s].pc # "idle" => Entry(call'[s].row) \in log'
          /\ AcceptedIsSettled'
      BY <1>2, <1>13, <2>1, <2>2, CarryingKeeps
    <2> QED BY <1>2, <1>13, <2>3 DEF InFlight, LInv, Rest, Recorded
  <1>16. AllAccounted
    <2> SUFFICES ASSUME NEW r \in queue PROVE Accounted(r)
      BY DEF AllAccounted
    <2>1. CASE r.io = i
      BY <1>8, <2>1 DEF Accounted
    <2>2. CASE r.io # i
      <3>1. r \in queue'
        BY <1>3, <2>2 DEF Record, Insert, Coalesced, new
      <3> QED BY <3>1 DEF Accounted
    <2> QED BY <2>1, <2>2
  <1> QED BY <1>9, <1>10, <1>11, <1>12, <1>14, <1>15, <1>16 DEF Rest

\* An operator's request: the row, if there is one, says what the tablet now holds.
LEMMA OperatorKeeps ==
  ASSUME LInv, IInv', NEW i \in Io, Operator(i)
  PROVE  Rest' /\ AllAccounted
  <1>0. Types /\ nextId \in 1..MaxRows
    BY OperatorMay DEF LInv, IInv
  <1>1. io[i] \in IoType /\ io[i].comment \in 0..MaxRows /\ 0 \in 0..MaxRows /\ nextId \in 0..MaxRows
    BY <1>0, IoOutboxAssumption DEF Types, IoType
  <1>2. {"Passed", "Failed", "Cleared", "Comment", "Punchlist"} \subseteq Op
    BY DEF Op, MetaOps, ResultOps
  <1>3. ASSUME NEW result \in {"Passed", "Failed"}, Test(i, result)
        PROVE  Rest' /\ AllAccounted
    <2> DEFINE new == [io[i] EXCEPT !.result = result, !.comment = 0, !.hist = result, !.histAt = nextId]
    <2>1. new \in IoType /\ new.result = result /\ new.hist = result
      BY <1>1 DEF IoType, Stored, Result
    <2>2. Record(i, result, 0, new)
      BY <1>3 DEF Test
    <2> HIDE DEF new
    <2>3. Says(result, nextId, new) /\ new.hist # "Cleared"
      BY <2>1 DEF Says, Norm
    <2> QED BY <1>1, <1>2, <2>1, <2>2, <2>3, RecordKeeps
  <1>4. CASE Reset(i)
    <2> DEFINE new == [io[i] EXCEPT !.result = None, !.comment = 0, !.hist = "Cleared", !.histAt = nextId]
    <2>1. new \in IoType /\ new.result = None /\ new.hist = "Cleared" /\ new.histAt = nextId
      BY <1>1 DEF IoType, Stored, Result
    <2>2. Record(i, "Cleared", 0, new)
      BY <1>4 DEF Reset
    <2> HIDE DEF new
    <2>3. Says("Cleared", nextId, new) /\ "Cleared" \in Ops
      BY <2>1, <2>2 DEF Says, Norm, Record
    <2> QED BY <1>1, <1>2, <2>1, <2>2, <2>3, RecordKeeps
  <1>5. CASE Comment(i)
    <2>1. PICK note \in Notes(i) : Record(i, "Comment", note, Commented(i, note))
      BY <1>5 DEF Comment
    <2>2. note \in 0..MaxRows /\ Commented(i, note) \in IoType
      BY <1>0, <1>1, <2>1, NotesType, CommentedType
    <2>3. "Cleared" \notin {Commented(i, note).hist, Commented(i, note).result}
      <3>1. "Cleared" \notin Ops
        BY <2>1 DEF Record, LInv, Plain
      <3> QED BY <1>1, <3>1, CommentedHas DEF LInv, Rest, OpsPlain
    <2>4. Says("Comment", nextId, Commented(i, note))
      BY DEF Says, ResultOps
    <2> QED BY <1>2, <2>1, <2>2, <2>3, <2>4, RecordKeeps
  <1>6. Punchlist(i) => FALSE
    BY DEF Punchlist, Record, LInv, Plain, MetaOps
  <1>7. CASE Touch(i)
    <2>1. /\ UNCHANGED <<queue, cloud, delta, call, late, bg, rec, log, settled>>
          /\ nextId' = nextId + 1 /\ "Comment" \in Ops
          /\ io' = [io EXCEPT ![i] = [Commented(i, io[i].comment) EXCEPT !.version = @ + 1]]
      BY <1>7 DEF Touch
    <2>2. "Cleared" \notin Ops
      BY <2>1 DEF LInv, Plain
    <2>3. /\ io'[i].result = io[i].result /\ "Cleared" \notin {io'[i].hist, io'[i].result}
          /\ \A j \in Io : j # i => io'[j] = io[j]
      <3> DEFINE new == Commented(i, io[i].comment)
      <3>1. new \in IoType /\ new.result = io[i].result /\ new.hist \in {io[i].result, "Updated"}
        BY <1>0, <1>1, CommentedType, CommentedHas
      <3>2. io' = [io EXCEPT ![i] = [new EXCEPT !.version = @ + 1]]
        BY <2>1
      <3> HIDE DEF new
      <3>3. io'[i].result = new.result /\ io'[i].hist = new.hist /\ \A j \in Io : j # i => io'[j] = io[j]
        BY <1>0, <3>1, <3>2 DEF Types, IoType
      <3>4. io[i].result # "Cleared"
        BY <2>2 DEF LInv, Rest, OpsPlain
      <3> QED BY <3>1, <3>3, <3>4
    <2>4. LogOK'
      BY <1>0, <2>1 DEF LInv, Rest, LogOK
    <2>5. Recorded(queue)' /\ Recorded(late)' /\ InFlight' /\ AcceptedIsSettled'
      BY <2>1 DEF LInv, Rest, Recorded, InFlight, AcceptedIsSettled
    <2>6. CloudComes'
      BY <2>1, ViewsStay
    <2>7. OpsPlain'
      BY <2>1, <2>3 DEF LInv, Rest, OpsPlain
    <2>8. Stands'
      <3> SUFFICES ASSUME NEW r \in queue PROVE Overtaken(r, log) \/ Says(r.op, r.id, io'[r.io])
        BY <2>1 DEF Stands
      <3>1. r.io \in Io /\ Entry(r) \in log /\ Entry(r).op = r.op
        BY <1>0 DEF Types, RowType, LInv, Rest, Recorded, Entry
      <3>2. r.op # "Cleared"
        BY <2>2, <3>1 DEF LInv, Rest, OpsPlain
      <3>3. io'[r.io].result = io[r.io].result
        BY <2>3, <3>1
      <3>4. Overtaken(r, log) \/ Says(r.op, r.id, io[r.io])
        BY DEF LInv, Rest, Stands
      <3> QED BY <3>2, <3>3, <3>4 DEF Says
    <2>9. AllAccounted
      BY <2>1 DEF AllAccounted, Accounted
    <2> QED BY <2>4, <2>5, <2>6, <2>7, <2>8, <2>9 DEF Rest
  <1>8. ASSUME NEW result \in Puts, Put(i, result) PROVE Rest' /\ AllAccounted
    <2>1. PICK note \in Notes(i) : Record(i, result, note, Written(i, result, note))
      BY <1>8 DEF Put, Written
    <2>2. note \in 0..MaxRows
      BY <1>0, NotesType
    <2>3. /\ result \in Op /\ result \in Ops /\ Written(i, result, note) \in IoType
          /\ Written(i, result, note).result = result /\ Written(i, result, note).hist = result
          /\ Written(i, result, note).histAt = nextId
      BY <1>0, <2>2, WrittenType
    <2>4. Says(result, nextId, Written(i, result, note))
      BY <2>3 DEF Says
    <2> QED BY <2>1, <2>2, <2>3, <2>4, RecordKeeps
  <1> QED BY <1>3, <1>4, <1>5, <1>6, <1>7, <1>8 DEF Operator

\* What a step keeps that adds no work and changes no result on the tablet.
LEMMA NoNewWork ==
  ASSUME LInv, Derived(queue'), Untouched, UNCHANGED <<log, nextId>>,
         \A i \in Io : "Cleared" \in {io'[i].hist, io'[i].result}
                         => "Cleared" \in {io[i].hist, io[i].result},
         ~Reconciling => rec' = Idle
  PROVE  LogOK' /\ Recorded(queue)' /\ Stands' /\ OpsPlain'
  <1>1. LogOK'
    BY DEF LInv, Rest, LogOK
  <1>2. Recorded(queue)' /\ Stands'
    BY RowsStand
  <1>3. OpsPlain'
    BY DEF LInv, Rest, OpsPlain
  <1> QED BY <1>1, <1>2, <1>3

\* ... in particular one that leaves the tables alone, and the log.
LEMMA TablesAlone ==
  ASSUME LInv, UNCHANGED <<io, queue, log, nextId>>, ~Reconciling => rec' = Idle
  PROVE  LogOK' /\ Recorded(queue)' /\ Stands' /\ OpsPlain' /\ AllAccounted
  <1>1. Derived(queue') /\ Untouched
    BY DEF Derived, Untouched
  <1>2. AllAccounted
    BY DEF AllAccounted, Accounted
  <1> QED BY <1>1, <1>2, NoNewWork

\* The rows a drain or an operator amends or deletes come from the table.
LEMMA AmendedRows ==
  ASSUME LInv, NEW ids
  PROVE  /\ Derived(Amend(queue, ids, Orphan)) /\ Derived(Amend(queue, ids, DeadLetter))
         /\ Derived(Amend(queue, ids, Release)) /\ Derived(Amend(queue, ids, Strike))
         /\ Derived(Amend(queue, ids, Transient)) /\ Derived(Delete(queue, ids)) /\ Derived(queue)
  <1>1. queue \subseteq RowType
    BY DEF LInv, IInv, Types
  <1>2. Derived(Amend(queue, ids, Orphan)) /\ Derived(Amend(queue, ids, DeadLetter))
    BY <1>1, ChangesKeepEntry DEF Amend, Derived
  <1>3. Derived(Amend(queue, ids, Release)) /\ Derived(Amend(queue, ids, Strike))
    BY <1>1, ChangesKeepEntry DEF Amend, Derived
  <1>4. Derived(Amend(queue, ids, Transient)) /\ Derived(Delete(queue, ids)) /\ Derived(queue)
    BY <1>1, ChangesKeepEntry DEF Amend, Delete, Derived
  <1> QED BY <1>2, <1>3, <1>4

\* Amending a table loses no row of it.
LEMMA AmendingLosesNone ==
  ASSUME LInv, NEW ids,
         \/ queue' = Amend(queue, ids, Orphan) \/ queue' = Amend(queue, ids, DeadLetter)
         \/ queue' = Amend(queue, ids, Release) \/ queue' = Amend(queue, ids, Strike)
         \/ queue' = Amend(queue, ids, Transient)
  PROVE  AllAccounted
  <1> SUFFICES ASSUME NEW r \in queue PROVE \E x \in queue' : x.id = r.id
    BY DEF AllAccounted, Accounted
  <1>1. r \in RowType
    BY DEF LInv, IInv, Types
  <1>2. /\ Orphan(r).id = r.id /\ DeadLetter(r).id = r.id /\ Release(r).id = r.id
        /\ Strike(r).id = r.id /\ Transient(r).id = r.id
    BY <1>1 DEF RowType, Orphan, DeadLetter, Release, Strike, Transient
  <1>3. \/ r \in queue' \/ Orphan(r) \in queue' \/ DeadLetter(r) \in queue'
        \/ Release(r) \in queue' \/ Strike(r) \in queue' \/ Transient(r) \in queue'
    BY DEF Amend
  <1> QED BY <1>2, <1>3

\* Sync Center: a discarded row is the operator's decision.
LEMMA QueueActionKeeps ==
  ASSUME LInv, NEW r \in queue, Retry(r) \/ Discard(r)
  PROVE  Rest' /\ AllAccounted
  <1>1. UNCHANGED <<io, nextId, cloud, delta, call, late, bg, rec, log, settled>>
    BY DEF Retry, Discard
  <1>2. Derived(queue')
    BY AmendedRows DEF Retry, Discard
  <1>3. LogOK' /\ Recorded(queue)' /\ Stands' /\ OpsPlain'
    BY <1>1, <1>2, NoNewWork DEF Untouched, LInv, Rest, OpsPlain
  <1>4. Recorded(late)' /\ InFlight' /\ AcceptedIsSettled'
    BY <1>1 DEF LInv, Rest, Recorded, InFlight, AcceptedIsSettled
  <1>5. CloudComes'
    BY <1>1, ViewsStay
  <1>6. AllAccounted
    <2>1. CASE Retry(r)
      BY <2>1, AmendingLosesNone DEF Retry
    <2>2. CASE Discard(r)
      BY <2>2 DEF Discard, Delete, AllAccounted, Accounted
    <2> QED BY <2>1, <2>2
  <1> QED BY <1>3, <1>4, <1>5, <1>6 DEF Rest

\* What the cloud processes leaves it with results that come from operations.
LEMMA ArriveKeeps ==
  ASSUME LInv, NEW r, r \in PayloadType, Entry(r) \in log, Arrive(r), UNCHANGED <<log, delta>>
  PROVE  /\ CloudComes' /\ settled \subseteq settled'
         /\ Verdict(r) = "ok" => r.id \in settled'
  <1>0. cloud \in [Io -> CloudType] /\ r.io \in Io
    BY DEF LInv, IInv, Types, PayloadType
  <1>1. settled \subseteq settled' /\ (Verdict(r) = "ok" => r.id \in settled')
    BY DEF Arrive
  <1>2. ASSUME NEW i \in Io PROVE Comes(cloud[i], i)'
    <2>1. CASE cloud'[i] = cloud[i]
      BY <2>1 DEF LInv, Rest, CloudComes, Comes
    <2>2. CASE i = r.io /\ cloud'[i] = Landed(cloud[i], r)
      <3>1. CASE r.op \in ResultOps
        <4>1. cloud'[i].result = Norm(r.op) /\ cloud'[i].at = r.id
          BY <1>0, <2>2, <3>1 DEF Landed, CloudType
        <4>2. Norm(r.op) # None => Norm(r.op) = r.op
          BY DEF Norm
        <4> QED BY <2>2, <4>1, <4>2 DEF Comes, Entry
      <3>2. CASE r.op \notin ResultOps
        <4>1. cloud'[i].result = cloud[i].result /\ cloud'[i].at = cloud[i].at
          BY <1>0, <2>2, <3>2 DEF Landed, CloudType
        <4> QED BY <4>1 DEF LInv, Rest, CloudComes, Comes
      <3> QED BY <3>1, <3>2
    <2>3. \/ cloud'[i] = cloud[i]
          \/ i = r.io /\ cloud'[i] = Landed(cloud[i], r)
      BY <1>0 DEF Arrive
    <2> QED BY <2>1, <2>2, <2>3
  <1>3. CloudComes'
    BY <1>2 DEF LInv, Rest, CloudComes, Comes
  <1> QED BY <1>1, <1>3

\* The cloud answers: an accepted row is on record with the answer.
LEMMA AnswerKeeps ==
  ASSUME LInv, NEW s \in Sender, Answer(s)
  PROVE  Rest' /\ AllAccounted
  <1> DEFINE p == call[s].row
             v == Verdict(p)
  <1>1. UNCHANGED <<io, queue, nextId, delta, late, bg, rec, log>>
    BY DEF Answer
  <1>2. p \in PayloadType /\ Entry(p) \in log
    BY PayloadOf DEF Answer, LInv, IInv, Rest, InFlight
  <1>3. Arrive(p) /\ call' = [call EXCEPT ![s] = Answered(p, v)]
    BY DEF Answer
  <1> HIDE DEF p, v
  <1>4. CloudComes' /\ settled \subseteq settled' /\ (v = "ok" => p.id \in settled')
    BY <1>1, <1>2, <1>3, ArriveKeeps DEF v
  <1>5. /\ LogOK' /\ Recorded(queue)' /\ Stands' /\ OpsPlain' /\ AllAccounted
    BY <1>1, TablesAlone DEF LInv, Rest, OpsPlain
  <1>6. ASSUME NEW t \in Sender
        PROVE  /\ call'[t].pc # "idle" => Entry(call'[t].row) \in log'
               /\ call'[t].pc = "answered" /\ call'[t].reply = "ok" => call'[t].row.id \in settled'
    <2>1. CASE t = s
      <3>1. call'[t] = Answered(p, v)
        BY <1>3, <2>1 DEF LInv, IInv, Types
      <3> QED BY <1>1, <1>2, <1>4, <3>1, SameEntry
    <2>2. CASE t # s
      <3>1. call'[t] = call[t]
        BY <1>3, <2>2 DEF LInv, IInv, Types
      <3> QED BY <1>1, <1>4, <3>1 DEF LInv, Rest, InFlight, AcceptedIsSettled
    <2> QED BY <2>1, <2>2
  <1>7. InFlight' /\ AcceptedIsSettled'
    BY <1>1, <1>6 DEF InFlight, AcceptedIsSettled, LInv, Rest, Recorded
  <1>8. Recorded(late)'
    BY <1>1 DEF LInv, Rest, Recorded
  <1> QED BY <1>4, <1>5, <1>7, <1>8 DEF Rest

\* A push is lost: a copy of its row may still be under way.
LEMMA LoseKeeps ==
  ASSUME LInv, NEW s \in Sender, Lose(s)
  PROVE  Rest' /\ AllAccounted
  <1> DEFINE p == call[s].row
  <1>1. UNCHANGED <<io, queue, nextId, cloud, delta, bg, rec, log, settled>>
    BY DEF Lose
  <1>2. Entry(p) \in log
    BY DEF Lose, LInv, Rest, InFlight
  <1>3. late' \subseteq late \cup {p} /\ call' = [call EXCEPT ![s] = Answered(p, "network")]
    BY DEF Lose
  <1> HIDE DEF p
  <1>4. /\ LogOK' /\ Recorded(queue)' /\ Stands' /\ OpsPlain' /\ AllAccounted
    BY <1>1, TablesAlone DEF LInv, Rest, OpsPlain
  <1>5. Recorded(late)'
    BY <1>1, <1>2, <1>3 DEF LInv, Rest, Recorded
  <1>6. ASSUME NEW t \in Sender
        PROVE  /\ call'[t].pc # "idle" => Entry(call'[t].row) \in log'
               /\ call'[t].pc = "answered" /\ call'[t].reply = "ok" => call'[t].row.id \in settled'
    <2>1. CASE t = s
      <3>1. call'[t] = Answered(p, "network")
        BY <1>3, <2>1 DEF LInv, IInv, Types
      <3>2. call'[t].row = p /\ call'[t].reply = "network"
        BY <3>1 DEF Answered
      <3>3. Entry(call'[t].row) \in log'
        BY <1>1, <1>2, <3>2
      <3> QED BY <3>2, <3>3
    <2>2. CASE t # s
      <3>1. call'[t] = call[t]
        BY <1>3, <2>2 DEF LInv, IInv, Types
      <3> QED BY <1>1, <3>1 DEF LInv, Rest, InFlight, AcceptedIsSettled
    <2> QED BY <2>1, <2>2
  <1>7. InFlight' /\ AcceptedIsSettled'
    BY <1>1, <1>6 DEF InFlight, AcceptedIsSettled, LInv, Rest, Recorded
  <1>8. CloudComes'
    BY <1>1, ViewsStay
  <1> QED BY <1>4, <1>5, <1>7, <1>8 DEF Rest

\* A late push changes the cloud behind the back of the tablet.
LEMMA ArriveLateKeeps ==
  ASSUME LInv, NEW r \in late, ArriveLate(r)
  PROVE  Rest' /\ AllAccounted
  <1>1. UNCHANGED <<io, queue, nextId, delta, call, bg, rec, log>> /\ late' = late \ {r}
    BY DEF ArriveLate
  <1>2. r \in PayloadType /\ Entry(r) \in log /\ Arrive(r)
    BY DEF ArriveLate, LInv, IInv, Types, Rest, Recorded
  <1>3. CloudComes' /\ settled \subseteq settled'
    BY <1>1, <1>2, ArriveKeeps
  <1>4. /\ LogOK' /\ Recorded(queue)' /\ Stands' /\ OpsPlain' /\ AllAccounted
    BY <1>1, TablesAlone DEF LInv, Rest, OpsPlain
  <1>5. Recorded(late)' /\ InFlight' /\ AcceptedIsSettled'
    BY <1>1, <1>3 DEF LInv, Rest, Recorded, InFlight, AcceptedIsSettled
  <1> QED BY <1>3, <1>4, <1>5 DEF Rest

\* Edits, deletions and restorations on the cloud leave its result.
LEMMA CloudChangeKeeps ==
  ASSUME LInv, NEW i \in Io, CloudChange(i)
  PROVE  Rest' /\ AllAccounted
  <1>1. UNCHANGED <<io, queue, nextId, delta, call, late, bg, rec, log, settled>>
    BY DEF CloudChange
  <1>2. /\ LogOK' /\ Recorded(queue)' /\ Stands' /\ OpsPlain' /\ AllAccounted
    BY <1>1, TablesAlone DEF LInv, Rest, OpsPlain
  <1>3. \A j \in Io : cloud'[j].result = cloud[j].result /\ cloud'[j].at = cloud[j].at
    BY DEF CloudChange, LInv, IInv, Types, CloudType
  <1>4. CloudComes'
    BY <1>1, <1>3 DEF LInv, Rest, CloudComes, Comes
  <1>5. Recorded(late)' /\ InFlight' /\ AcceptedIsSettled'
    BY <1>1 DEF LInv, Rest, Recorded, InFlight, AcceptedIsSettled
  <1> QED BY <1>2, <1>4, <1>5 DEF Rest

\* A tombstone changes nothing of what an IO holds.
LEMMA TombstoneLeaves ==
  ASSUME Types, NEW id, Tombstone(id)
  PROVE  \A i \in Io : /\ io'[i].result = io[i].result
                       /\ io'[i].hist = io[i].hist /\ io'[i].histAt = io[i].histAt
  BY DEF Types, IoType, Tombstone

\* The instant drain deletes a row only after the cloud has accepted it.
LEMMA InstantReplyKeeps ==
  ASSUME LInv, IInv', NEW i \in Io, InstantReply(i)
  PROVE  Rest' /\ AllAccounted
  <1> DEFINE id == call[i].row.id
             reply == call[i].reply
  <1>0. Types /\ i \in Sender /\ queue \in SUBSET RowType /\ queue' \in SUBSET RowType
    BY DEF LInv, IInv, Types, Sender
  <1>1. UNCHANGED <<nextId, cloud, delta, late, bg, rec, log, settled, excused>>
    BY DEF InstantReply
  <1>2. reply = "ok" => id \in settled
    BY <1>0 DEF InstantReply, LInv, Rest, AcceptedIsSettled
  <1>3. \A j \in Io : /\ io'[j].result = io[j].result
                      /\ io'[j].hist = io[j].hist /\ io'[j].histAt = io[j].histAt
    <2>1. Tombstone(id) \/ UNCHANGED io
      BY DEF InstantReply
    <2> QED BY <1>0, <2>1, TombstoneLeaves
  <1>4. \/ reply = "ok" /\ queue' = Delete(queue, {id})
        \/ queue' = Amend(queue, {id}, Orphan) \/ queue' = Amend(queue, {id}, DeadLetter)
        \/ queue' = queue
    BY DEF InstantReply
  <1>5. Continue(i, queue') \/ Returned(i, queue)
    BY DEF InstantReply
  <1> HIDE DEF id, reply
  <1>6. Derived(queue')
    BY <1>4, AmendedRows
  <1>7. Untouched
    BY <1>0, <1>3 DEF Untouched, RowType
  <1>8. /\ LogOK' /\ Recorded(queue)' /\ Stands' /\ OpsPlain'
    BY <1>1, <1>3, <1>6, <1>7, NoNewWork DEF LInv, Rest, OpsPlain
  <1>9. Recorded(late)'
    BY <1>1 DEF LInv, Rest, Recorded
  <1>10. CloudComes'
    BY <1>1, ViewsStay
  <1>11. InFlight' /\ AcceptedIsSettled'
    <2>1. Carries(queue') \/ Carries(queue)
      BY <1>0, <1>5, DrainsCarry
    <2>2. \A r \in queue \cup queue' : Entry(r) \in log'
      BY <1>1, <1>8 DEF LInv, Rest, Recorded
    <2>3. /\ \A s \in Sender : call'[s].pc # "idle" => Entry(call'[s].row) \in log'
          /\ AcceptedIsSettled'
      BY <1>1, <2>1, <2>2, CarryingKeeps
    <2> QED BY <1>1, <2>3 DEF InFlight, LInv, Rest, Recorded
  <1>12. AllAccounted
    <2>1. CASE reply = "ok" /\ queue' = Delete(queue, {id})
      BY <1>1, <1>2, <2>1 DEF Delete, AllAccounted, Accounted
    <2>2. CASE queue' = queue
      BY <2>2 DEF AllAccounted, Accounted
    <2> QED BY <1>4, <2>1, <2>2, AmendingLosesNone
  <1> QED BY <1>8, <1>9, <1>10, <1>11, <1>12 DEF Rest

\* The retry cap and the start of a run, on a table q that comes from the old one.
LEMMA CapAndDrainKeeps ==
  ASSUME LInv, IInv', NEW q \in SUBSET RowType, Derived(q), CapAndDrain(q),
         UNCHANGED <<io, nextId, cloud, delta, late, rec, log>>, settled \subseteq settled'
  PROVE  /\ Rest' /\ \A r \in q : \E x \in queue' : x.id = r.id
  <1>1. queue' = {ParkAtCap(r) : r \in q}
    BY DEF CapAndDrain
  <1>2. \A r \in q : Entry(ParkAtCap(r)) = Entry(r) /\ ParkAtCap(r).id = r.id
    <2>1. \A r \in q : ParkAtCap(r).id = r.id
      BY DEF ParkAtCap, RowType
    <2> QED BY <2>1, ChangesKeepEntry
  <1>3. Derived(queue') /\ \A r \in q : \E x \in queue' : x.id = r.id
    BY <1>1, <1>2 DEF Derived
  <1>4. /\ LogOK' /\ Recorded(queue)' /\ Stands' /\ OpsPlain'
    BY <1>3, NoNewWork DEF Untouched, LInv, Rest, OpsPlain
  <1>5. Recorded(late)'
    BY DEF LInv, Rest, Recorded
  <1>6. CloudComes'
    BY ViewsStay
  <1>7. InFlight' /\ AcceptedIsSettled'
    <2> DEFINE batch == {Payload(r) : r \in {x \in queue' : ~x.dead}}
    <2>1. queue' \subseteq RowType
      BY DEF IInv, Types
    <2>2. batch \in SUBSET PayloadType /\ \A r \in batch : Entry(r) \in log'
      BY <1>4, <2>1, Payloads, SameEntry DEF Recorded
    <2>3. GoOn(batch, {}, 0)
      BY DEF CapAndDrain
    <2> HIDE DEF batch
    <2>4. Carries(batch) /\ (bg' = BgIdle \/ \E rest \in SUBSET batch : bg' = BgDrain(rest, {}, 0))
      BY <2>2, <2>3, GoingOnCarries DEF LInv, IInv
    <2>5. /\ \A s \in Sender : call'[s].pc # "idle" => Entry(call'[s].row) \in log'
          /\ AcceptedIsSettled'
      BY <2>2, <2>4, CarryingKeeps
    <2>6. /\ bg'.pc \notin {"b7", "b7read"}
          /\ bg'.pc = "drain" => \A r \in bg'.batch : Entry(r) \in log'
      BY <2>2, <2>4 DEF BgIdle, BgDrain
    <2> QED BY <2>5, <2>6 DEF InFlight, Recorded
  <1> QED BY <1>3, <1>4, <1>5, <1>6, <1>7 DEF Rest

\* The beginning of a run, and what B7 reads.
LEMMA TicksKeep ==
  ASSUME LInv, IInv', TickDrain \/ TickB7 \/ B7Fetch
  PROVE  Rest' /\ AllAccounted
  <1>1. UNCHANGED <<io, nextId, cloud, delta, late, rec, log, settled>>
    BY DEF TickDrain, TickB7, B7Fetch
  <1>2. CASE CapAndDrain(queue)
    <2>1. queue \in SUBSET RowType /\ Derived(queue)
      BY DEF LInv, IInv, Types, Derived
    <2>2. Rest' /\ \A r \in queue : \E x \in queue' : x.id = r.id
      BY <1>1, <1>2, <2>1, CapAndDrainKeeps
    <2> QED BY <2>2 DEF AllAccounted, Accounted
  <1>3. CASE UNCHANGED <<queue, call>> /\ bg'.pc \in {"b7", "b7read"}
             /\ \A r \in bg'.rows : Entry(r) \in log
    <2>1. /\ LogOK' /\ Recorded(queue)' /\ Stands' /\ OpsPlain' /\ AllAccounted
      BY <1>1, <1>3, TablesAlone DEF LInv, Rest, OpsPlain
    <2>2. Recorded(late)' /\ InFlight' /\ AcceptedIsSettled'
      BY <1>1, <1>3 DEF LInv, Rest, Recorded, InFlight, AcceptedIsSettled
    <2>3. CloudComes'
      BY <1>1, ViewsStay
    <2> QED BY <2>1, <2>2, <2>3 DEF Rest
  <1>4. CASE TickB7
    <2>1. \A r \in {Payload(x) : x \in Conflicted} : Entry(r) \in log
      BY SameEntry DEF Conflicted, LInv, Rest, Recorded
    <2> QED BY <1>3, <1>4, <2>1 DEF TickB7, BgB7
  <1>5. CASE bg.pc = "b7" /\ bg' = BgB7Read(bg.rows, cloud) /\ UNCHANGED <<queue, call, left>>
    <2>1. \A r \in bg.rows : Entry(r) \in log
      BY <1>5 DEF LInv, Rest, InFlight, Recorded
    <2> QED BY <1>3, <1>5, <2>1 DEF BgB7Read
  <1> QED BY <1>2, <1>4, <1>5 DEF TickDrain, B7Fetch

\* The fates in which B7 deletes a row.
LEMMA Fates ==
  ASSUME NEW p, NEW view
  PROVE  Fate(p, view) \in {"superseded", "stale"}
           => (\E x \in queue : SupersededBy(p, x)) \/ ~LocalTruth(p)
  <1>1. CASE ~view[p.io].exists
    BY <1>1 DEF Fate
  <1>2. CASE view[p.io].exists /\ view[p.io].result = Norm(p.op)
    BY <1>2 DEF Fate
  <1>3. CASE view[p.io].exists /\ view[p.io].result # Norm(p.op)
    <2>1. Fate(p, view) = IF \E x \in queue : SupersededBy(p, x) THEN "superseded"
                          ELSE IF LocalTruth(p) THEN "rebase" ELSE "stale"
      BY <1>3 DEF Fate
    <2> QED BY <2>1
  <1> QED BY <1>1, <1>2, <1>3

\* B7 deletes a result only if the cloud has it, or later work has overtaken it.
LEMMA B7ActKeeps ==
  ASSUME LInv, IInv', B7Act
  PROVE  Rest' /\ AllAccounted
  <1> DEFINE With(fates) == {r.id : r \in {x \in bg.rows : Fate(x, bg.view) \in fates}}
             Rebase(r)   == [r EXCEPT !.base = bg.view[r.io].version, !.strikes = 0,
                                      !.dead = FALSE, !.err = "rebased"]
             d == Delete(queue, With({"landed", "superseded", "stale"}))
             q == Amend(d, With({"rebase"}), Rebase)
  <1>0. Types /\ queue \subseteq RowType
    BY DEF LInv, IInv, Types
  <1>1. /\ UNCHANGED <<io, nextId, cloud, delta, late, rec, log>> /\ CapAndDrain(q)
        /\ settled' = settled \cup With({"landed"})
    BY DEF B7Act
  <1>2. ASSUME NEW r \in RowType
        PROVE  Rebase(r) \in RowType /\ Entry(Rebase(r)) = Entry(r) /\ Rebase(r).id = r.id
    <2>1. bg.view[r.io].version \in Nat
      BY <1>0, BgHolds DEF B7Act, CloudType, RowType
    <2> DEFINE v == bg.view[r.io].version
               s == [r EXCEPT !.base = v, !.strikes = 0, !.dead = FALSE, !.err = "rebased"]
    <2>2. v \in Nat
      BY <2>1
    <2> HIDE DEF v
    <2>3. s \in RowType
      BY <2>2 DEF RowType
    <2>4. s.id = r.id /\ s.io = r.io /\ s.op = r.op
      BY DEF RowType
    <2> QED BY <2>3, <2>4 DEF v, Entry
  <1>3. d \subseteq queue
    BY DEF Delete
  <1>4. q \in SUBSET RowType /\ Derived(q) /\ \A r \in d : \E x \in q : x.id = r.id
    <2> DEFINE ids == With({"rebase"})
    <2>1. q = {IF r.id \in ids THEN Rebase(r) ELSE r : r \in d}
      BY DEF Amend
    <2> HIDE DEF d, q, ids, Rebase
    <2>2. \A r \in d : r \in RowType
      BY <1>0, <1>3
    <2>3. q \in SUBSET RowType
      BY <1>2, <2>1, <2>2
    <2>4. Derived(q)
      BY <1>2, <1>3, <2>1, <2>2 DEF Derived
    <2>5. \A r \in d : \E x \in q : x.id = r.id
      BY <1>2, <2>1, <2>2
    <2> QED BY <2>3, <2>4, <2>5
  <1>5. Rest' /\ \A r \in q : \E x \in queue' : x.id = r.id
    <2>1. settled \subseteq settled'
      BY <1>1
    <2> HIDE DEF q, With
    <2> QED BY <1>1, <1>4, <2>1, CapAndDrainKeeps
  <1>6. ASSUME NEW r \in queue, r.op \in ResultOps PROVE Accounted(r)
    <2>1. CASE r \in d
      BY <1>4, <1>5, <2>1 DEF Accounted
    <2>2. CASE r \notin d
      <3>1. PICK p \in bg.rows : p.id = r.id /\ Fate(p, bg.view) \in {"landed", "superseded", "stale"}
        BY <2>2 DEF Delete
      <3>2. p.io = r.io /\ p.op = r.op
        <4>1. Entry(p) \in log /\ Entry(r) \in log /\ LogOK
          BY DEF LInv, Rest, InFlight, Recorded, B7Act
        <4> QED BY <3>1, <4>1, OneEntry
      <3>3. CASE Fate(p, bg.view) = "landed"
        BY <1>1, <3>1, <3>3 DEF Accounted
      <3>4. ASSUME NEW x \in queue, SupersededBy(p, x) PROVE Overtaken(r, log)
        <4>1. x.io = r.io /\ x.id > r.id
          BY <3>1, <3>2, <3>4 DEF SupersededBy
        <4>2. Entry(x) \in log /\ Entry(r) \in log
          BY DEF LInv, Rest, Recorded
        <4>3. Entry(x).id = x.id /\ Entry(x).io = x.io /\ Entry(r).op = r.op
          BY DEF Entry
        <4>4. Entry(x).op \notin MetaOps /\ r.op \notin MetaOps
          BY <4>2, <4>3 DEF LInv, Rest, OpsPlain
        <4> QED BY <4>1, <4>2, <4>3, <4>4, LaterOvertakes
      <3>5. CASE ~LocalTruth(p)
        <4>1. io[r.io].present
          BY DEF LInv, IInv, RowsSound, Sound
        <4>2. Norm(io[r.io].result) # Norm(r.op)
          BY <1>6, <3>2, <3>5, <4>1 DEF LocalTruth, ResultOps
        <4>3. Overtaken(r, log)
          BY <1>6, <4>2 DEF LInv, Rest, Stands, Says
        <4> QED BY <1>1, <4>3 DEF Accounted
      <3>6. Overtaken(r, log) => Accounted(r)
        BY <1>1 DEF Accounted
      <3> QED BY <3>1, <3>3, <3>4, <3>5, <3>6, Fates
    <2> QED BY <2>1, <2>2
  <1> QED BY <1>5, <1>6 DEF AllAccounted

\* pushToCloud deletes the accepted row, and with it rows parked on a verdict.
LEMMA BgReplyKeeps ==
  ASSUME LInv, IInv', BgReply
  PROVE  Rest' /\ AllAccounted
  <1> DEFINE r == call[Background].row
             reply == call[Background].reply
  <1>0. Types /\ Background \in Sender /\ queue \in SUBSET RowType
    BY DEF LInv, IInv, Types, Sender
  <1>1. UNCHANGED <<nextId, cloud, delta, late, rec, log, settled, excused, ruled>>
    BY DEF BgReply
  <1>2. reply = "ok" => r.id \in settled
    BY <1>0 DEF BgReply, LInv, Rest, AcceptedIsSettled
  <1>3. \A j \in Io : /\ io'[j].result = io[j].result
                      /\ io'[j].hist = io[j].hist /\ io'[j].histAt = io[j].histAt
    <2>1. Tombstone(r.id) \/ UNCHANGED io
      BY DEF BgReply
    <2> QED BY <1>0, <2>1, TombstoneLeaves
  <1>4. \/ reply = "ok" /\ queue' = Accept(queue, r)
        \/ queue' = Amend(queue, {r.id}, Orphan) \/ queue' = Amend(queue, {r.id}, DeadLetter)
        \/ queue' = Amend(queue, {r.id}, Strike) \/ queue' = Amend(queue, {r.id}, Transient)
    BY DEF BgReply
  <1>5. \E blocked, fails : GoOn(bg.batch, blocked, fails)
    BY DEF BgReply
  <1>6. bg.batch \in SUBSET PayloadType /\ \A x \in bg.batch : Entry(x) \in log
    BY <1>0, BgHolds DEF BgReply, LInv, Rest, InFlight, Recorded
  <1> HIDE DEF r, reply
  <1>7. Derived(queue')
    <2>1. Derived(Accept(queue, r))
      BY DEF Accept, Derived
    <2> QED BY <1>4, <2>1, AmendedRows
  <1>8. Untouched
    BY <1>0, <1>3 DEF Untouched, RowType
  <1>9. /\ LogOK' /\ Recorded(queue)' /\ Stands' /\ OpsPlain'
    BY <1>1, <1>3, <1>7, <1>8, NoNewWork DEF LInv, Rest, OpsPlain
  <1>10. Recorded(late)'
    BY <1>1 DEF LInv, Rest, Recorded
  <1>11. CloudComes'
    BY <1>1, ViewsStay
  <1>12. InFlight' /\ AcceptedIsSettled'
    <2>1. PICK blocked, fails : GoOn(bg.batch, blocked, fails)
      BY <1>5
    <2>2. /\ Carries(bg.batch)
          /\ bg' = BgIdle \/ \E rest \in SUBSET bg.batch : bg' = BgDrain(rest, blocked, fails)
      BY <1>0, <1>6, <2>1, GoingOnCarries
    <2>3. /\ \A s \in Sender : call'[s].pc # "idle" => Entry(call'[s].row) \in log'
          /\ AcceptedIsSettled'
      BY <1>1, <1>6, <2>2, CarryingKeeps
    <2>4. /\ bg'.pc \notin {"b7", "b7read"}
          /\ bg'.pc = "drain" => \A x \in bg'.batch : Entry(x) \in log'
      BY <1>1, <1>6, <2>2 DEF BgIdle, BgDrain
    <2> QED BY <2>3, <2>4 DEF InFlight, Recorded
  <1>13. AllAccounted
    <2>1. CASE reply = "ok" /\ queue' = Accept(queue, r)
      <3> SUFFICES ASSUME NEW x \in queue PROVE Accounted(x)
        BY DEF AllAccounted
      <3>1. CASE x \in queue'
        BY <3>1 DEF Accounted
      <3>2. CASE x \notin queue'
        <4>1. x.id = r.id \/ x.dead
          BY <2>1, <3>2 DEF Accept
        <4>2. x.dead => x.id \in ruled
          BY DEF LInv, IInv, RowsSound, Sound
        <4> QED BY <1>1, <1>2, <2>1, <4>1, <4>2 DEF Accounted
      <3> QED BY <3>1, <3>2
    <2> QED BY <1>4, <2>1, AmendingLosesNone
  <1> QED BY <1>9, <1>10, <1>11, <1>12, <1>13 DEF Rest

\* In a plain instance the reconciler enqueues results the tablet holds, and comments.
LEMMA MissingSays ==
  ASSUME LInv, rec.pc = "fetched", NEW i \in Io, NEW e \in Missing(i, rec.view)
  PROVE  /\ e.io = i /\ e.op \in Op \ (MetaOps \cup {"Cleared"})
         /\ \A n : Says(e.op, n, io[e.io])
  <1>1. Reconciling /\ io[i].hist # "Cleared" /\ io[i].result \in Result
    <2>1. Reconciling /\ "Cleared" \notin Ops
      BY DEF LInv, Rest, OpsPlain, Plain, Idle
    <2>2. io[i].hist # "Cleared" /\ io[i].result # "Cleared"
      BY <2>1 DEF LInv, Rest, OpsPlain
    <2> QED BY <2>1, <2>2 DEF LInv, IInv, Types, IoType, Stored
  <1> DEFINE c == [rec.view[i] EXCEPT !.result  = IF rec.view[i].exists THEN @ ELSE None,
                                      !.comment = IF rec.view[i].exists THEN @ ELSE 0,
                                      !.version = IF rec.view[i].exists THEN @ ELSE 0]
             Enqueue(op, kind, note) ==
               [io |-> i, op |-> op, kind |-> kind, base |-> c.version, note |-> note]
             lacks == IF io[i].result # None /\ c.result = None
                        THEN {Enqueue(io[i].result, "result", io[i].comment)}
                      ELSE IF io[i].comment # 0 /\ c.comment = 0
                        THEN {Enqueue("Comment", "comment", io[i].comment)} ELSE {}
             clears == IF /\ io[i].result = None /\ io[i].hist = "Cleared"
                          /\ c.result # None /\ io[i].histAt > c.at
                       THEN {Enqueue("Cleared", "clear", 0)} ELSE {}
  <1> HIDE DEF c
  <1>2. clears = {}
    BY <1>1
  <1>3. e \in lacks => \/ io[i].result # None /\ e = Enqueue(io[i].result, "result", io[i].comment)
                      \/ e = Enqueue("Comment", "comment", io[i].comment)
    OBVIOUS
  <1> HIDE DEF lacks, clears
  <1>4. e \in lacks \cup clears
    BY DEF Missing, c, lacks, clears
  <1>5. e.io = i /\ (e.op = "Comment" \/ (e.op = io[i].result /\ io[i].result # None))
    BY <1>2, <1>3, <1>4
  <1>6. e.op = "Comment" \/ (e.op = io[i].result /\ io[i].result \in {"Passed", "Failed"})
    BY <1>1, <1>5 DEF Result
  <1>7. e.op \in Op \ (MetaOps \cup {"Cleared"})
    BY <1>6 DEF Op, MetaOps, ResultOps
  <1>8. \A n : Says(e.op, n, io[e.io])
    BY <1>5, <1>6 DEF Says, ResultOps, Norm
  <1> QED BY <1>5, <1>7, <1>8

LEMMA ReconcilerKeeps ==
  ASSUME LInv, IInv', RecFetch \/ RecAct
  PROVE  Rest' /\ AllAccounted
  <1>1. UNCHANGED <<io, cloud, delta, call, late, bg, settled, excused>>
    BY DEF RecFetch, RecAct
  <1>2. CASE RecFetch
    <2>1. Reconciling /\ UNCHANGED <<queue, log, nextId>>
      BY <1>2 DEF RecFetch
    <2>2. /\ LogOK' /\ Recorded(queue)' /\ Stands' /\ OpsPlain' /\ AllAccounted
      BY <1>1, <2>1, TablesAlone
    <2>3. Recorded(late)' /\ InFlight' /\ AcceptedIsSettled'
      BY <1>1, <2>1 DEF LInv, Rest, Recorded, InFlight, AcceptedIsSettled
    <2>4. CloudComes'
      BY <1>1, <2>1, ViewsStay
    <2> QED BY <2>2, <2>3, <2>4 DEF Rest
  <1>3. CASE RecAct
    <2> DEFINE lacking == UNION {Missing(i, rec.view) : i \in Io}
    <2>0. Types /\ rec.pc = "fetched" /\ rec' = Idle /\ nextId \in 1 .. MaxRows + 1
      BY <1>3 DEF RecAct, LInv, IInv, Types
    <2>1. \A e \in lacking : /\ e.io \in Io /\ e.op \in Op \ (MetaOps \cup {"Cleared"})
                             /\ \A n : Says(e.op, n, io[e.io])
      BY <2>0, MissingSays
    <2> HIDE DEF lacking
    <2>2. PICK last \in nextId - 1 .. MaxRows :
            \E number \in [lacking -> nextId .. last] :
               /\ {number[e] : e \in lacking} = nextId .. last
               /\ \A e, f \in lacking :
                    /\ number[e] = number[f] => e = f
                    /\ e.kind = "clear" /\ f.kind # "clear" => number[e] < number[f]
               /\ queue' = Insert(queue, {Row(number[e], e.io, e.op, e.note, e.base) : e \in lacking})
               /\ log' = log \cup {[id |-> number[e], io |-> e.io, op |-> e.op] : e \in lacking}
               /\ nextId' = last + 1
      BY <1>3 DEF RecAct, lacking
    <2>3. PICK number \in [lacking -> nextId .. last] :
               /\ \A e, f \in lacking :
                    /\ number[e] = number[f] => e = f
                    /\ e.kind = "clear" /\ f.kind # "clear" => number[e] < number[f]
               /\ queue' = Insert(queue, {Row(number[e], e.io, e.op, e.note, e.base) : e \in lacking})
               /\ log' = log \cup {[id |-> number[e], io |-> e.io, op |-> e.op] : e \in lacking}
               /\ nextId' = last + 1
      BY <2>2
    <2> DEFINE new == {Row(number[e], e.io, e.op, e.note, e.base) : e \in lacking}
               added == {[id |-> number[e], io |-> e.io, op |-> e.op] : e \in lacking}
    <2>4. \A e \in lacking : number[e] \in nextId .. last /\ number[e] \in 1..MaxRows
      <3>1. nextId .. last \subseteq 1..MaxRows
        BY <2>0, IoOutboxAssumption
      <3> QED BY <3>1
    <2>5. \A f \in added : /\ f \in [id : 1..MaxRows, io : Io, op : Op] /\ f.id \in nextId .. last
                           /\ f.op \notin MetaOps /\ f.op # "Cleared"
      BY <2>1, <2>4
    <2>6. \A f, g \in added : f.id = g.id => f = g
      BY <2>3
    <2>7. \A x \in new : Entry(x) \in added /\ Says(x.op, x.id, io[x.io])
      <3> SUFFICES ASSUME NEW e \in lacking,
                          NEW x, x = Row(number[e], e.io, e.op, e.note, e.base)
                   PROVE  Entry(x) \in added /\ Says(x.op, x.id, io[x.io])
        OBVIOUS
      <3>1. x.id = number[e] /\ x.io = e.io /\ x.op = e.op
        BY DEF Row
      <3>2. Entry(x) = [id |-> number[e], io |-> e.io, op |-> e.op]
        BY <3>1 DEF Entry
      <3> QED BY <2>1, <3>1, <3>2
    <2>8. queue' = Insert(queue, new) /\ log' = log \cup added /\ nextId' = last + 1
      BY <2>3
    <2> HIDE DEF new, added
    <2>9. LogOK'
      <3>1. log' \subseteq [id : 1..MaxRows, io : Io, op : Op]
        BY <2>5, <2>8 DEF LInv, Rest, LogOK
      <3>2. \A f \in log : f.id \in Nat /\ f.id < nextId
        BY <3>1, <2>8 DEF LInv, Rest, LogOK
      <3>3. \A f \in log' : f.id < nextId'
        BY <2>0, <2>5, <2>8, <3>2
      <3>4. \A f, g \in log' : f.id = g.id => f = g
        <4> SUFFICES ASSUME NEW f \in log', NEW g \in log', f.id = g.id PROVE f = g
          OBVIOUS
        <4>1. CASE f \in log /\ g \in log
          BY <4>1 DEF LInv, Rest, LogOK
        <4>2. CASE f \in added /\ g \in added
          BY <2>6, <4>2
        <4>3. ~(f \in log /\ g \in added) /\ ~(f \in added /\ g \in log)
          BY <2>0, <2>5, <3>2
        <4> QED BY <2>8, <4>1, <4>2, <4>3
      <3> QED BY <3>1, <3>3, <3>4 DEF LogOK
    <2>10. queue' \subseteq queue \cup new
      BY <2>8 DEF Insert
    <2>11. Recorded(queue)' /\ Recorded(late)'
      BY <1>1, <2>7, <2>8, <2>10 DEF LInv, Rest, Recorded
    <2>12. Stands'
      BY <1>1, <2>7, <2>8, <2>10, OvertakenStays DEF LInv, Rest, Stands
    <2>13. OpsPlain'
      BY <1>1, <2>0, <2>5, <2>8 DEF LInv, Rest, OpsPlain
    <2>14. CloudComes'
      BY <1>1, <2>8, ViewsStay
    <2>15. InFlight' /\ AcceptedIsSettled'
      BY <1>1, <2>8 DEF LInv, Rest, InFlight, AcceptedIsSettled, Recorded
    <2>16. AllAccounted
      <3> SUFFICES ASSUME NEW x \in queue PROVE Accounted(x)
        BY DEF AllAccounted
      <3>1. CASE x \in queue'
        BY <3>1 DEF Accounted
      <3>2. CASE x \notin queue'
        <4>1. PICK r \in new : Coalesced(x, r)
          BY <2>8, <3>2 DEF Insert
        <4>2. r.io = x.io /\ r.id > x.id
          BY <4>1 DEF Coalesced
        <4>3. /\ Entry(r) \in added /\ Entry(r) \in log'
              /\ Entry(r).io = r.io /\ Entry(r).id = r.id
          BY <2>7, <2>8 DEF Entry
        <4>4. Entry(x) \in log /\ Entry(x).op = x.op
          BY DEF LInv, Rest, Recorded, Entry
        <4>5. x.op \notin MetaOps /\ Entry(r).op \notin MetaOps
          BY <2>5, <4>3, <4>4 DEF LInv, Rest, OpsPlain
        <4>6. Overtaken(x, log')
          BY <4>2, <4>3, <4>5, LaterOvertakes
        <4> QED BY <4>6 DEF Accounted
      <3> QED BY <3>1, <3>2
    <2> QED BY <2>9, <2>11, <2>12, <2>13, <2>14, <2>15, <2>16 DEF Rest
  <1> QED BY <1>2, <1>3

\* A delta fills in a result only where the tablet has none and nobody cleared it;
\* a clear is overruled by later work alone, and that work is in the log.
LEMMA UpsertKeepsWork ==
  ASSUME LInv, NEW r \in queue, NEW c \in CloudType, Comes(c, r.io),
         ~Overtaken(r, log), Says(r.op, r.id, io[r.io])
  PROVE  Says(r.op, r.id, Upserted(io[r.io], c))
  <1> DEFINE x == io[r.io]
             u == Upserted(x, c)
  <1>0. /\ r \in RowType /\ r.io \in Io /\ x \in IoType /\ x.present
        /\ Entry(r) \in log /\ r.op \notin MetaOps
    <2>1. r \in RowType /\ r.io \in Io
      BY DEF LInv, IInv, Types, RowType
    <2>2. x \in IoType /\ x.present
      BY <2>1 DEF LInv, IInv, Types, RowsSound, Sound
    <2>3. Entry(r) \in log /\ Entry(r).op = r.op
      BY DEF LInv, Rest, Recorded, Entry
    <2> QED BY <2>1, <2>2, <2>3 DEF LInv, Rest, OpsPlain
  <1>1. u.hist = x.hist /\ u.histAt = x.histAt
    BY <1>0 DEF Upserted, IoType
  <1>2. u.result = IF x.result = None /\ ~ProtectedClear(x, c) THEN c.result ELSE x.result
    BY <1>0 DEF Upserted, IoType
  <1>3. CASE r.op \in ResultOps /\ r.op # "Cleared"
    <2>1. x.result = r.op /\ r.op # None
      BY <1>0, <1>3 DEF Says, Norm, ResultOps, None
    <2> QED BY <1>2, <1>3, <2>1 DEF Says
  <1>4. CASE r.op = "Cleared"
    <2>1. x.result \in {None, "Cleared"} /\ x.hist = "Cleared" /\ x.histAt = r.id
      BY <1>0, <1>4 DEF Says, Norm, ResultOps
    <2>2. x.result = None /\ c.result # None => ProtectedClear(x, c)
      <3> SUFFICES ASSUME x.result = None, c.result # None PROVE c.at <= r.id
        BY <1>0, <2>1 DEF ProtectedClear
      <3> DEFINE e == [id |-> c.at, io |-> r.io, op |-> c.result]
      <3>1. e \in log
        BY DEF Comes
      <3>2. e.id = c.at /\ e.io = r.io /\ e.op \notin MetaOps
        BY <3>1 DEF LInv, Rest, OpsPlain
      <3> HIDE DEF e
      <3>3. ~(c.at > r.id)
        BY <1>0, <3>1, <3>2, LaterOvertakes
      <3>4. c.at \in Nat /\ r.id \in Nat
        BY <1>0 DEF CloudType, RowType
      <3> QED BY <3>3, <3>4
    <2>3. u.result \in {None, "Cleared"}
      BY <1>2, <2>1, <2>2
    <2> QED BY <1>1, <1>4, <2>1, <2>3 DEF Says, Norm
  <1>5. CASE r.op \notin ResultOps
    BY <1>5 DEF Says
  <1> QED BY <1>3, <1>4, <1>5

LEMMA DeltaKeeps ==
  ASSUME LInv, IInv', Delta
  PROVE  Rest' /\ AllAccounted
  <1>0. Types /\ queue \subseteq RowType
    BY DEF LInv, IInv, Types
  <1>1. UNCHANGED <<nextId, cloud, call, late, bg, rec, log, settled>>
    BY DEF Delta, DeltaFetch, DeltaApply
  <1>2. Recorded(late)' /\ InFlight' /\ AcceptedIsSettled'
    BY <1>1 DEF LInv, Rest, Recorded, InFlight, AcceptedIsSettled
  <1>3. CASE DeltaFetch
    <2>1. UNCHANGED <<io, queue>> /\ delta' = Fetched([i \in unseen |-> cloud[i]])
      BY <1>3 DEF DeltaFetch
    <2>2. /\ LogOK' /\ Recorded(queue)' /\ Stands' /\ OpsPlain' /\ AllAccounted
      BY <1>1, <2>1, TablesAlone DEF LInv, Rest, OpsPlain
    <2>3. CloudComes'
      <3>1. \A i \in Io : Comes(cloud[i], i)
        BY DEF LInv, Rest, CloudComes
      <3>2. delta'.view = [i \in unseen |-> cloud[i]] /\ unseen \subseteq Io
        BY <1>0, <2>1 DEF Fetched, Types
      <3> QED BY <1>1, <3>1, <3>2 DEF CloudComes, Comes
    <2> QED BY <1>2, <2>2, <2>3 DEF Rest
  <1>4. CASE DeltaApply
    <2> DEFINE back == {i \in DOMAIN delta.view : delta.view[i].exists}
               gone == DOMAIN delta.view \ back
    <2>1. /\ delta.pc = "fetched" /\ delta' = Idle
          /\ io' = [i \in Io |-> IF i \in back THEN Upserted(io[i], delta.view[i])
                                 ELSE IF i \in gone /\ RowsOf(queue, i) = {} THEN Deleted(io[i])
                                 ELSE io[i]]
          /\ queue' = {IF r.io \in back /\ r.orphaned THEN Release(r)
                       ELSE IF r.io \in gone /\ ~r.orphaned THEN Orphan(r) ELSE r : r \in queue}
      BY <1>4 DEF DeltaApply
    <2>2. \A i \in DOMAIN delta.view : delta.view[i] \in CloudType /\ Comes(delta.view[i], i)
      BY <1>0, <2>1, DeltaHolds DEF LInv, Rest, CloudComes
    <2>3. back \subseteq DOMAIN delta.view
      OBVIOUS
    <2> HIDE DEF back, gone
    <2>4. LogOK'
      BY <1>1 DEF LInv, Rest, LogOK
    <2>5. ASSUME NEW r \in queue
          PROVE  /\ Entry(r) \in log'
                 /\ Overtaken(r, log') \/ Says(r.op, r.id, io'[r.io])
      <3>1. r.io \in Io /\ RowsOf(queue, r.io) # {}
        BY <1>0 DEF RowType, RowsOf
      <3>2. \/ io'[r.io] = io[r.io]
            \/ r.io \in back /\ io'[r.io] = Upserted(io[r.io], delta.view[r.io])
        BY <2>1, <3>1
      <3>3. Entry(r) \in log /\ (Overtaken(r, log) \/ Says(r.op, r.id, io[r.io]))
        BY DEF LInv, Rest, Recorded, Stands
      <3>4. CASE io'[r.io] = io[r.io]
        BY <1>1, <3>3, <3>4
      <3>5. CASE r.io \in back /\ io'[r.io] = Upserted(io[r.io], delta.view[r.io])
        <4>1. delta.view[r.io] \in CloudType /\ Comes(delta.view[r.io], r.io)
          BY <2>2, <2>3, <3>5
        <4> QED BY <1>1, <3>3, <3>5, <4>1, UpsertKeepsWork
      <3> QED BY <3>2, <3>4, <3>5
    <2>6. ASSUME NEW r \in queue
          PROVE  /\ Entry(Release(r)) = Entry(r) /\ Entry(Orphan(r)) = Entry(r)
                 /\ Release(r).id = r.id /\ Orphan(r).id = r.id
      BY <1>0, ChangesKeepEntry DEF RowType, Release, Orphan
    <2>7. \A x \in queue' : \E r \in queue : Entry(x) = Entry(r)
      BY <2>1, <2>6
    <2>8. Recorded(queue)' /\ Stands'
      <3> SUFFICES ASSUME NEW x \in queue'
                   PROVE  /\ Entry(x) \in log'
                          /\ Overtaken(x, log') \/ Says(x.op, x.id, io'[x.io])
        BY DEF Recorded, Stands
      <3>1. PICK r \in queue : Entry(x) = Entry(r)
        BY <2>7
      <3>2. x.id = r.id /\ x.io = r.io /\ x.op = r.op
        BY <3>1 DEF Entry
      <3>3. Overtaken(r, log') => Overtaken(x, log')
        BY <3>2 DEF Overtaken
      <3> QED BY <2>5, <3>1, <3>2, <3>3
    <2>9. AllAccounted
      <3> SUFFICES ASSUME NEW r \in queue PROVE \E x \in queue' : x.id = r.id
        BY DEF AllAccounted, Accounted
      <3>1. r \in queue' \/ Release(r) \in queue' \/ Orphan(r) \in queue'
        BY <2>1
      <3> QED BY <2>6, <3>1
    <2>10. OpsPlain'
      <3>1. ASSUME NEW i \in Io
            PROVE  io'[i].hist = io[i].hist /\ (io'[i].result = "Cleared" => io[i].result = "Cleared")
        <4>1. io[i] \in IoType
          BY <1>0 DEF Types
        <4>2. \A c \in CloudType : /\ Upserted(io[i], c).hist = io[i].hist
                                   /\ Upserted(io[i], c).result = "Cleared" => io[i].result = "Cleared"
          BY <4>1 DEF IoType, Upserted, CloudType, Result, None
        <4>3. Deleted(io[i]).hist = io[i].hist /\ Deleted(io[i]).result # "Cleared"
          BY <4>1 DEF IoType, Deleted, Fresh, None
        <4>4. i \in back => delta.view[i] \in CloudType
          BY <1>0, <2>1, DeltaHolds DEF back
        <4> QED BY <2>1, <4>2, <4>3, <4>4
      <3> QED BY <1>1, <3>1 DEF LInv, Rest, OpsPlain
    <2>11. CloudComes'
      BY <1>1, <2>1 DEF LInv, Rest, CloudComes, Comes, Idle
    <2> QED BY <1>2, <2>4, <2>8, <2>9, <2>10, <2>11 DEF Rest
  <1> QED BY <1>3, <1>4 DEF Delta

\* A crash drops every copy but those under way.
LEMMA CrashKeeps ==
  ASSUME LInv, Crash
  PROVE  Rest' /\ AllAccounted
  <1>1. /\ UNCHANGED <<io, queue, nextId, cloud, log, settled>>
        /\ rec' = Idle /\ delta' = Idle /\ bg' = BgIdle /\ \A s \in Sender : call'[s] = Idle
    BY DEF Crash
  <1>2. late' \subseteq late \cup {call[s].row : s \in {t \in Sender : call[t].pc = "sent"}}
    BY DEF Crash
  <1>3. Idle.pc = "idle" /\ BgIdle.pc = "idle"
    BY DEF Idle, BgIdle
  <1>4. /\ LogOK' /\ Recorded(queue)' /\ Stands' /\ OpsPlain' /\ AllAccounted
    BY <1>1, TablesAlone
  <1>5. Recorded(late)'
    <2>1. \A s \in Sender : call[s].pc = "sent" => Entry(call[s].row) \in log
      BY DEF LInv, Rest, InFlight
    <2>2. \A r \in late : Entry(r) \in log
      BY DEF LInv, Rest, Recorded
    <2> QED BY <1>1, <1>2, <2>1, <2>2 DEF Recorded
  <1>6. InFlight' /\ AcceptedIsSettled'
    BY <1>1, <1>3 DEF InFlight, AcceptedIsSettled
  <1>7. CloudComes'
    BY <1>1, <1>3 DEF LInv, Rest, CloudComes, Comes
  <1> QED BY <1>4, <1>5, <1>6, <1>7 DEF Rest

-----------------------------------------------------------------------------
LEMMA InitLInv == Plain /\ Init => LInv
  <1> SUFFICES ASSUME Plain, Init PROVE LInv
    OBVIOUS
  <1>1. log = {} /\ queue = {} /\ late = {} /\ \A s \in Sender : call[s] = Idle
    BY DEF Init
  <1>2. bg = BgIdle /\ delta = Idle /\ rec = Idle
    BY DEF Init
  <1>3. Idle.pc = "idle" /\ BgIdle.pc = "idle"
    BY DEF Idle, BgIdle
  <1>4. \A i \in Io : cloud[i].result = None /\ io[i].hist = None /\ io[i].result = None
    BY DEF Init, Fresh
  <1>5. LogOK /\ Recorded(queue) /\ Recorded(late) /\ Stands
    BY <1>1 DEF LogOK, Recorded, Stands
  <1>6. InFlight /\ AcceptedIsSettled
    BY <1>1, <1>2, <1>3 DEF InFlight, AcceptedIsSettled
  <1>7. CloudComes
    BY <1>2, <1>3, <1>4 DEF CloudComes, Comes
  <1>8. OpsPlain
    BY <1>1, <1>2, <1>4 DEF OpsPlain, None
  <1> QED BY <1>5, <1>6, <1>7, <1>8, InitIInv DEF LInv, Rest

\* Every step preserves the invariant and accounts for every queued result.
LEMMA NextLInv == LInv /\ [Next]_vars => LInv' /\ AllAccounted
  <1> SUFFICES ASSUME LInv, [Next]_vars PROVE LInv' /\ AllAccounted
    OBVIOUS
  <1>0. IInv' /\ Plain'
    BY NextIInv DEF LInv, Plain
  <1> SUFFICES Rest' /\ AllAccounted
    BY <1>0 DEF LInv
  <1>1. ASSUME NEW i \in Io, Operator(i) PROVE Rest' /\ AllAccounted
    BY <1>0, <1>1, OperatorKeeps
  <1>2. ASSUME NEW i \in Io, CloudChange(i) PROVE Rest' /\ AllAccounted
    BY <1>2, CloudChangeKeeps
  <1>3. ASSUME NEW s \in Sender, Drain(s) PROVE Rest' /\ AllAccounted
    BY <1>0, <1>3, AnswerKeeps, InstantReplyKeeps DEF Drain
  <1>4. ASSUME NEW s \in Sender, Lose(s) PROVE Rest' /\ AllAccounted
    BY <1>4, LoseKeeps
  <1>5. ASSUME NEW r \in late, ArriveLate(r) PROVE Rest' /\ AllAccounted
    BY <1>5, ArriveLateKeeps
  <1>6. ASSUME NEW r \in queue, Retry(r) \/ Discard(r) PROVE Rest' /\ AllAccounted
    BY <1>6, QueueActionKeeps
  <1>7. CASE PushToCloud
    BY <1>0, <1>7, TicksKeep, B7ActKeeps, BgReplyKeeps DEF PushToCloud
  <1>8. CASE Delta
    BY <1>0, <1>8, DeltaKeeps
  <1>9. CASE RecFetch \/ RecAct
    BY <1>0, <1>9, ReconcilerKeeps
  <1>10. CASE Crash
    BY <1>10, CrashKeeps
  <1>11. CASE UNCHANGED vars
    <2>1. UNCHANGED <<io, queue, nextId, cloud, delta, call, late, bg, rec, log, settled>>
      BY <1>11 DEF vars
    <2>2. /\ LogOK' /\ Recorded(queue)' /\ Stands' /\ OpsPlain' /\ AllAccounted
      BY <2>1, TablesAlone DEF LInv, Rest, OpsPlain
    <2>3. Recorded(late)' /\ InFlight' /\ AcceptedIsSettled'
      BY <2>1 DEF LInv, Rest, Recorded, InFlight, AcceptedIsSettled
    <2> QED BY <2>1, <2>2, <2>3, ViewsStay DEF Rest
  <1> QED BY <1>1, <1>2, <1>3, <1>4, <1>5, <1>6, <1>7, <1>8, <1>9, <1>10, <1>11 DEF Next

\* In every plain instance no queued result vanishes unaccounted for, whatever B7,
\* the two drains, the trigger, the delta, crashes and late requests do to each
\* other: a row that leaves the queue was accepted, was discarded, holds what the
\* cloud holds, was overtaken by later work in the log, or had been parked on a
\* verdict of the cloud.
THEOREM ResultsDoNotVanish == Plain /\ Spec => NoSilentLoss
  <1>1. LInv /\ [Next]_vars
          => [\A r \in {x \in queue : x.op \in ResultOps} :
                 \/ \E x \in queue' : x.id = r.id
                 \/ r.id \in settled' \cup excused'
                 \/ cloud[r.io].result = Norm(r.op)
                 \/ Overtaken(r, log')
                 \/ r.dead /\ r.id \in ruled]_vars
    BY NextLInv DEF AllAccounted, Accounted
  <1>2. LInv /\ [Next]_vars => LInv'
    BY NextLInv
  <1> QED BY InitLInv, <1>1, <1>2, PTL DEF Spec, NoSilentLoss
=============================================================================
