-------------------------- MODULE DeltaFeed_proofs --------------------------
(***************************************************************************)
(* What the cursor has passed is in the tables, for any sections, any       *)
(* length of the change log and any number of pullers at work.             *)
(*                                                                         *)
(* The argument follows a payload from the cloud to the table.  A request   *)
(* carries a cursor that is not ahead of the local one; a delta covers what *)
(* lies between that cursor and the head it was taken at, in content (Ios)  *)
(* or by a flag (Flags); a scoped pull in hand covers what the cursor has   *)
(* passed.  For the IOs this holds as long as no other payload was applied  *)
(* in between, which `overlap` records; the flags need no such condition,   *)
(* because a section is fetched when its turn comes.                       *)
(***************************************************************************)
EXTENDS DeltaFeed, TLAPS

\* Nothing local or in hand is ahead of the change log.
Behind ==
  /\ cursor <= head /\ pruned <= head /\ \A x \in Part : last[x] <= head
  /\ have["io"] <= last["io"]
  /\ \A p \in Puller :
       /\ job[p].pc = "asking" => job[p].since <= cursor
       /\ job[p].pc = "answered" => job[p].delta.to <= head /\ job[p].delta.io <= last["io"]
       /\ job[p].pc = "pulling" => job[p].io <= last["io"]

\* Payloads bring the IOs up to where the cursor is or will be, and none is older
\* than the table; the hash is of an IO set the table has had.
Ios ==
  ~overlap =>
    /\ last["io"] <= cursor => have["io"] = last["io"]
    /\ hash <= have["io"]
    /\ \A p \in Puller :
         /\ job[p].pc = "answered" =>
              /\ cursor <= job[p].delta.to
              /\ last["io"] <= job[p].delta.to => Upserted(job[p].delta) = last["io"]
              /\ have["io"] <= Upserted(job[p].delta)
         /\ job[p].pc = "pulling" =>
              /\ last["io"] <= cursor => job[p].io = last["io"]
              /\ have["io"] <= job[p].io

\* A delta flags every section with an entry that the cursor is about to pass.
Flags ==
  \A p \in Puller, s \in Section :
    job[p].pc = "answered" /\ cursor < last[s] /\ last[s] <= job[p].delta.to
      => s \in job[p].delta.flags

\* The sections that p will refresh whatever happens to its scoped pull: what a
\* catch-up does finally is not among them, since it begins only after that pull.
Duty(p) == Todo(p) \cap Refreshes(p)

Sections ==
  \A s \in Section :
    last[s] <= cursor /\ have[s] # last[s] => s \in dropped \/ \E p \in Puller : s \in Duty(p)

IInv == TypeOK /\ Behind /\ Ios /\ Flags /\ Sections

-----------------------------------------------------------------------------
(* The states of a puller *)

DeltaType == [to : 0..MaxSeq, io : 0..MaxSeq, flags : SUBSET Section, empty : BOOLEAN]

\* What a state of each kind holds.
LEMMA JobShape ==
  ASSUME NEW j \in JobType
  PROVE  /\ j.pc \in {"idle", "asking", "answered", "refreshing", "pulling"}
         /\ j.pc = "asking" => j.since \in 0..MaxSeq
         /\ j.pc = "answered" => j.delta \in DeltaType
         /\ j.pc = "refreshing" => j.todo \subseteq Section
         /\ j.pc = "pulling" => j.io \in 0..MaxSeq
  BY DEF JobType, Rest, DeltaType

LEMMA Jobs ==
  /\ Rest \in JobType /\ Rest.pc = "idle"
  /\ \A n \in 0..MaxSeq : Asking(n) \in JobType /\ Asking(n).pc = "asking" /\ Asking(n).since = n
  /\ \A d \in DeltaType : Delta(d) \in JobType /\ Delta(d).pc = "answered" /\ Delta(d).delta = d
  /\ \A ss \in SUBSET Section :
       Refreshing(ss) \in JobType /\ Refreshing(ss).pc = "refreshing" /\ Refreshing(ss).todo = ss
  /\ \A n \in 0..MaxSeq : Pulling(n) \in JobType /\ Pulling(n).pc = "pulling" /\ Pulling(n).io = n
  BY DEF JobType, Rest, Asking, Delta, Refreshing, Pulling, DeltaType

LEMMA Parts == /\ "io" \in Part /\ Section \subseteq Part /\ "io" \notin Section
               /\ "config" \in Section /\ \A x \in Part : x # "io" => x \in Section
  BY DeltaFeedAssumption DEF Part

\* A puller that has settled has the given sections before it, and nothing in hand.
LEMMA Settling ==
  ASSUME TypeOK, NEW p \in Puller, NEW todo \in SUBSET Section, Settled(p, todo)
  PROVE  /\ job' \in [Puller -> JobType]
         /\ job'[p].pc \in {"idle", "refreshing"} /\ Todo(p)' = todo
         /\ \A q \in Puller \ {p} : job'[q] = job[q] /\ Todo(q)' = Todo(q)
  <1>1. PICK j \in JobType : /\ job' = [job EXCEPT ![p] = j]
                             /\ \/ j = Rest /\ todo = {}
                                \/ j = Refreshing(todo)
    BY Jobs DEF Settled
  <1>2. job' \in [Puller -> JobType] /\ job'[p] = j /\ \A q \in Puller \ {p} : job'[q] = job[q]
    BY <1>1 DEF TypeOK
  <1>3. job'[p].pc \in {"idle", "refreshing"} /\ Todo(p)' = todo
    BY <1>1, <1>2, Jobs DEF Todo
  <1> QED BY <1>2, <1>3 DEF Todo

-----------------------------------------------------------------------------
LEMMA InitInv == Init => IInv
  <1> SUFFICES ASSUME Init PROVE IInv
    OBVIOUS
  <1> USE DeltaFeedAssumption DEF Init
  <1>1. hinted \in BOOLEAN /\ overlap \in BOOLEAN
    BY Zenon
  <1>2. TypeOK
    BY <1>1, Jobs DEF TypeOK
  <1>3. Behind /\ Ios /\ Flags
    BY Jobs, Parts DEF Behind, Ios, Flags
  <1>4. Sections
    BY Parts DEF Sections
  <1> QED BY <1>2, <1>3, <1>4 DEF IInv

\* A new entry of the change log is beyond every cursor.
LEMMA ChangeInv == ASSUME IInv, NEW x \in Part, Change(x) PROVE IInv'
  <1> USE DeltaFeedAssumption DEF IInv
  <1>1. /\ head < MaxSeq /\ head' = head + 1 /\ last' = [last EXCEPT ![x] = head + 1]
        /\ UNCHANGED <<pullers, pruned, have, cursor, gated, windows, hash, job,
                       left, dropped, overlap>>
    BY DEF Change
  <1>2. hinted' \in BOOLEAN
    <2>1. hinted' \in {hinted, "hint" \in pullers}
      BY DEF Change
    <2>2. ("hint" \in pullers) \in BOOLEAN /\ hinted \in BOOLEAN
      BY DEF TypeOK
    <2> QED BY <2>1, <2>2, Zenon
  <1>3. /\ head' \in 0..MaxSeq /\ last' \in [Part -> 0..MaxSeq] /\ last'[x] = head + 1
        /\ \A y \in Part \ {x} : last'[y] = last[y]
        /\ \A y \in Part : last[y] <= last'[y]
    BY <1>1 DEF TypeOK, Behind
  <1>4. TypeOK'
    BY <1>1, <1>2, <1>3 DEF TypeOK
  <1>5. \A p \in Puller : job[p] \in JobType
    BY DEF TypeOK
  <1>6. Behind'
    BY <1>1, <1>3, <1>5, Parts, JobShape DEF TypeOK, Behind, DeltaType
  <1>7. Ios'
    BY <1>1, <1>3, <1>5, Parts, JobShape DEF TypeOK, Behind, Ios, Upserted, DeltaType
  <1>8. Flags'
    BY <1>1, <1>3, <1>5, Parts, JobShape DEF TypeOK, Behind, Flags, DeltaType
  <1>9. Sections'
    BY <1>1, <1>3, Parts DEF TypeOK, Behind, Sections, Duty, Todo
  <1> QED BY <1>4, <1>6, <1>7, <1>8, <1>9

\* Steps of the surroundings: only bounds, gates, windows and hints change.
LEMMA AroundInv ==
  ASSUME IInv, UNCHANGED <<pullers, head, last, have, cursor, hash, job, dropped, overlap>>,
         \/ pruned' = pruned /\ gated' = gated /\ hinted' = hinted /\ left' = left
              /\ windows' \subseteq windows
         \/ pruned' = head /\ Misfortune /\ UNCHANGED <<gated, hinted, windows>>
         \/ \E x \in {"config", "l2"} \cap Section : gated' \in {gated \ {x}, gated \cup {x}}
              /\ (left' = left \/ Misfortune) /\ UNCHANGED <<pruned, hinted, windows>>
  PROVE  IInv'
  <1> USE DeltaFeedAssumption DEF IInv
  <1>1. left' \in 0..Budget /\ (left' = left \/ Misfortune)
    BY DEF TypeOK, Misfortune
  <1>2. pruned' \in {pruned, head} /\ hinted' = hinted
    OBVIOUS
  <1>3. gated' \subseteq {"config", "l2"} \cap Section /\ windows' \subseteq {"manual", "catchup"}
    BY DEF TypeOK
  <1>4. TypeOK'
    BY <1>1, <1>2, <1>3 DEF TypeOK
  <1>5. Behind'
    BY <1>2 DEF TypeOK, Behind
  <1>6. Ios' /\ Flags' /\ Sections'
    BY DEF Ios, Flags, Sections, Duty, Todo, Upserted
  <1> QED BY <1>4, <1>5, <1>6

\* A request that starts carries the cursor.
LEMMA AskInv ==
  ASSUME IInv, NEW p \in Puller, job[p] = Rest, Ask(p) \/ UNCHANGED job,
         UNCHANGED <<pullers, head, last, pruned, have, cursor, gated, hash,
                     left, dropped, overlap>>,
         hinted' \in {hinted, FALSE}, windows' \in {windows, {"catchup"}}
  PROVE  IInv'
  <1> USE DeltaFeedAssumption DEF IInv
  <1>1. /\ job' \in [Puller -> JobType]
        /\ job'[p] = Rest \/ job'[p] = Asking(cursor)
        /\ \A q \in Puller \ {p} : job'[q] = job[q]
    BY Jobs DEF TypeOK, Ask
  <1>2. /\ job'[p].pc \in {"idle", "asking"} /\ (job'[p].pc = "asking" => job'[p].since = cursor)
        /\ Todo(p) = {}
    BY <1>1, Jobs DEF Todo, TypeOK
  <1>3. hinted' \in BOOLEAN
    BY Zenon DEF TypeOK
  <1>4. TypeOK'
    BY <1>1, <1>3 DEF TypeOK
  <1>5. Behind'
    BY <1>1, <1>2 DEF TypeOK, Behind
  <1>6. Ios'
    BY <1>1, <1>2 DEF Ios, Upserted
  <1>7. Flags'
    BY <1>1, <1>2 DEF Flags
  <1>8. \A q \in Puller : Duty(q)' = Duty(q)
    BY <1>1, <1>2 DEF Duty, Todo
  <1>9. Sections'
    BY <1>8 DEF Sections
  <1> QED BY <1>4, <1>5, <1>6, <1>7, <1>9

\* A delta holds or flags what lies between the request's cursor and the head.
LEMMA AnswerInv == ASSUME IInv, NEW p \in Puller, Answer(p) PROVE IInv'
  <1> USE DeltaFeedAssumption DEF IInv
  <1> DEFINE since == job[p].since
             new == {x \in Part : last[x] > Top(since, pruned) \/ Resync(since)}
             d == [to    |-> head,
                   io    |-> IF "io" \in new THEN last["io"] ELSE 0,
                   flags |-> new \ {"io"},
                   empty |-> Resync(since) /\ ~Quick]
  <1>1. /\ job[p].pc = "asking" /\ job' = [job EXCEPT ![p] = Delta(d)]
        /\ UNCHANGED <<pullers, head, last, pruned, have, cursor, gated, hinted, windows,
                       hash, left, dropped, overlap>>
    BY DEF Answer
  <1>2. since \in 0..MaxSeq /\ since <= cursor
    BY <1>1, JobShape DEF TypeOK, Behind
  <1>3. d \in DeltaType /\ d.to = head /\ d.io \in {0, last["io"]} /\ d.flags = new \ {"io"}
    <2>1. (Resync(since) /\ ~Quick) \in BOOLEAN
      OBVIOUS
    <2>2. new \ {"io"} \subseteq Section
      BY Parts
    <2> HIDE DEF new
    <2>3. (IF "io" \in new THEN last["io"] ELSE 0) \in 0..MaxSeq
      BY Parts DEF TypeOK
    <2> QED BY <2>1, <2>2, <2>3 DEF DeltaType, TypeOK
  <1>4. last["io"] <= since \/ Upserted(d) = last["io"]
    <2>1. last["io"] \in Nat /\ have["io"] \in Nat /\ have["io"] <= last["io"]
          /\ pruned \in Nat /\ since \in Nat
      BY <1>2, Parts DEF TypeOK, Behind
    <2>2. CASE "io" \in new
      <3>1. d.io = last["io"]
        BY <2>2
      <3> HIDE DEF d, new, since
      <3> QED BY <2>1, <3>1 DEF Upserted
    <2>3. CASE "io" \notin new
      <3>1. ~(last["io"] > Top(since, pruned)) /\ ~Resync(since)
        BY <2>3, Parts
      <3> HIDE DEF d, new, since
      <3> QED BY <2>1, <3>1 DEF Top, Resync
    <2> QED BY <2>2, <2>3
  <1>5. \A s \in Section : since < last[s] => s \in d.flags
    BY <1>2, <1>3, Parts DEF TypeOK, Top, Resync
  <1> HIDE DEF d, new, since
  <1>6. /\ job' \in [Puller -> JobType]
        /\ job'[p].pc = "answered" /\ job'[p].delta = d
        /\ \A q \in Puller \ {p} : job'[q] = job[q]
    BY <1>1, <1>3, Jobs DEF TypeOK
  <1>7. TypeOK'
    BY <1>1, <1>6 DEF TypeOK
  <1>8. Behind'
    BY <1>1, <1>3, <1>6, Parts DEF TypeOK, Behind
  <1>9. Ios'
    <2> SUFFICES ASSUME ~overlap PROVE Ios'
      BY <1>1 DEF Ios
    <2>1. /\ last["io"] <= cursor => have["io"] = last["io"]
          /\ have["io"] \in Nat /\ last["io"] \in Nat /\ have["io"] <= last["io"]
      BY Parts DEF Ios, TypeOK, Behind
    <2>2. have["io"] <= Upserted(d) /\ Upserted(d) = last["io"]
      <3>1. CASE last["io"] <= since
        BY <3>1, <1>2, <1>3, <2>1 DEF Upserted, TypeOK
      <3>2. CASE Upserted(d) = last["io"]
        BY <3>2, <2>1
      <3> QED BY <3>1, <3>2, <1>4
    <2> QED BY <1>1, <1>3, <1>6, <2>2 DEF Ios, Behind, Upserted
  <1>10. Flags'
    <2> SUFFICES ASSUME NEW q \in Puller, NEW s \in Section,
                        job'[q].pc = "answered", cursor < last[s], last[s] <= job'[q].delta.to
                 PROVE  s \in job'[q].delta.flags
      BY <1>1 DEF Flags
    <2>1. CASE q = p
      <3>1. last[s] \in Nat /\ cursor \in Nat
        <4>1. s \in Part
          BY Parts
        <4> QED BY <4>1 DEF TypeOK
      <3>2. since < last[s]
        BY <1>2, <3>1
      <3> QED BY <2>1, <1>5, <1>6, <3>2
    <2>2. CASE q # p
      BY <2>2, <1>6 DEF Flags
    <2> QED BY <2>1, <2>2
  <1>11. \A q \in Puller : Duty(q)' = Duty(q)
    BY <1>1, <1>6 DEF Duty, Todo
  <1>12. Sections'
    BY <1>1, <1>11 DEF Sections
  <1> QED BY <1>7, <1>8, <1>9, <1>10, <1>12

\* Failing is settling with "config" to fetch: nothing was in hand.
LEMMA FailInv == ASSUME IInv, NEW p \in Puller, Fail(p) PROVE IInv'
  <1> USE DeltaFeedAssumption DEF IInv
  <1> DEFINE todo == {"config"} \cup Finally(p)
  <1>1. /\ job[p].pc = "asking" /\ Misfortune /\ Settled(p, todo)
        /\ UNCHANGED <<pullers, head, last, pruned, have, cursor, gated, hinted, windows,
                       hash, dropped, overlap>>
    BY DEF Fail
  <1>2. todo \in SUBSET Section
    BY Parts DEF Finally
  <1> HIDE DEF todo
  <1>3. /\ job' \in [Puller -> JobType] /\ job'[p].pc \in {"idle", "refreshing"}
        /\ \A q \in Puller \ {p} : job'[q] = job[q] /\ Todo(q)' = Todo(q)
    BY <1>1, <1>2, Settling
  <1>4. left' \in 0..Budget
    BY <1>1 DEF Misfortune, TypeOK
  <1>5. TypeOK'
    BY <1>1, <1>3, <1>4 DEF TypeOK
  <1>6. Behind' /\ Ios' /\ Flags'
    <2>1. Behind' /\ Flags'
      BY <1>1, <1>3 DEF Behind, Flags
    <2>2. Ios'
      BY <1>1, <1>3 DEF Ios, Upserted
    <2> QED BY <2>1, <2>2
  <1>7. Todo(p) = {}
    BY <1>1 DEF Todo
  <1>8. Sections'
    BY <1>1, <1>3, <1>7 DEF Sections, Duty
  <1> QED BY <1>5, <1>6, <1>8

\* A delta that is not empty brings the IOs to where it puts the cursor; the flagged
\* sections become a duty of the puller or are left out for the record.
LEMMA ApplyInv == ASSUME IInv, NEW p \in Puller, Apply(p) PROVE IInv'
  <1> USE DeltaFeedAssumption DEF IInv
  <1> DEFINE d == job[p].delta
  <1>1. /\ job[p].pc = "answered"
        /\ UNCHANGED <<pullers, head, last, pruned, gated, hinted, windows, hash, left>>
    BY DEF Apply
  <1>2. d \in DeltaType /\ d.flags \subseteq Section
    BY <1>1, JobShape DEF TypeOK, DeltaType
  <1>3. Todo(p) = {}
    BY <1>1 DEF Todo
  <1>4. CASE d.empty
    <2> DEFINE todo == {"config"} \cup Finally(p)
    <2>1. Settled(p, todo) /\ UNCHANGED <<have, cursor, dropped, overlap>>
      BY <1>4 DEF Apply
    <2>2. todo \in SUBSET Section
      BY Parts DEF Finally
    <2> HIDE DEF todo
    <2>3. /\ job' \in [Puller -> JobType] /\ job'[p].pc \in {"idle", "refreshing"}
          /\ \A q \in Puller \ {p} : job'[q] = job[q] /\ Todo(q)' = Todo(q)
      BY <2>1, <2>2, Settling
    <2>4. TypeOK'
      BY <1>1, <2>1, <2>3 DEF TypeOK
    <2>5. \A q \in Puller : job'[q].pc \in {"asking", "answered", "pulling"}
                             => q # p /\ job'[q] = job[q]
      BY <2>3
    <2>6. Behind' /\ Flags'
      BY <1>1, <2>1, <2>5 DEF Behind, Flags
    <2>7. Ios'
      BY <1>1, <2>1, <2>5 DEF Ios, Upserted
    <2>8. Sections'
      BY <1>1, <1>3, <2>1, <2>3 DEF Sections, Duty
    <2> QED BY <2>4, <2>6, <2>7, <2>8
  <1>5. CASE ~d.empty
    <2> DEFINE todo == (d.flags \cap Refreshes(p)) \cup Finally(p)
    <2>1. /\ have' = [have EXCEPT !["io"] = Upserted(d)] /\ cursor' = Advance(d.to)
          /\ Settled(p, todo)
          /\ dropped' = dropped \cup (d.flags \ Refreshes(p))
          /\ overlap' = Overlapping(p)
      BY <1>5 DEF Apply
    <2>2. todo \in SUBSET Section
      BY <1>2, Parts DEF Finally
    <2>3. d.flags \subseteq todo \cup (d.flags \ Refreshes(p))
      OBVIOUS
    <2> HIDE DEF todo
    <2>4. /\ job' \in [Puller -> JobType] /\ job'[p].pc \in {"idle", "refreshing"}
          /\ Todo(p)' = todo
          /\ \A q \in Puller \ {p} : job'[q] = job[q] /\ Todo(q)' = Todo(q)
      BY <2>1, <2>2, Settling
    <2>5. /\ Upserted(d) \in 0..MaxSeq /\ Upserted(d) <= last["io"]
          /\ cursor' \in 0..MaxSeq /\ cursor <= cursor' /\ cursor' <= head
          /\ cursor' = cursor \/ cursor' = d.to
      BY <1>1, <1>2, <2>1, Parts DEF DeltaType, TypeOK, Behind, Upserted, Advance, Top
    <2>6. have' \in [Part -> 0..MaxSeq] /\ have'["io"] = Upserted(d)
          /\ \A s \in Section : have'[s] = have[s]
      BY <2>1, <2>5, Parts DEF TypeOK
    <2>7. overlap' \in BOOLEAN /\ dropped' \subseteq Section
      <3>1. overlap' \in BOOLEAN
        BY <2>1, Zenon DEF Overlapping, TypeOK
      <3> QED BY <3>1, <1>2, <2>1 DEF TypeOK
    <2>8. TypeOK'
      BY <1>1, <2>4, <2>5, <2>6, <2>7 DEF TypeOK
    <2>9. Behind'
      <3>1. \A q \in Puller : job[q].pc = "asking" => job[q].since \in Nat
        BY JobShape DEF TypeOK
      <3> QED BY <1>1, <2>4, <2>5, <2>6, <3>1, Parts DEF Behind, TypeOK
    <2>10. Ios'
      <3> SUFFICES ASSUME ~overlap' PROVE Ios'
        BY DEF Ios
      <3>1. ~overlap /\ \A q \in Puller \ {p} : job[q].pc \notin {"answered", "pulling"}
        BY <2>1 DEF Overlapping, InHand
      <3>2. \A q \in Puller : job'[q].pc \notin {"answered", "pulling"}
        BY <3>1, <2>4
      <3>3. /\ cursor <= d.to /\ (last["io"] <= d.to => Upserted(d) = last["io"])
            /\ have["io"] <= Upserted(d) /\ hash <= have["io"]
        BY <1>1, <3>1 DEF Ios
      <3>4. cursor' = d.to /\ hash <= Upserted(d)
        BY <1>2, <2>1, <2>5, <3>3, Parts DEF Advance, Top, DeltaType, TypeOK
      <3> QED BY <1>1, <2>6, <3>2, <3>3, <3>4 DEF Ios
    <2>11. Flags'
      <3>1. \A s \in Section : last[s] \in Nat
        BY Parts DEF TypeOK
      <3> QED BY <1>1, <2>4, <2>5, <3>1 DEF Flags, TypeOK
    <2>12. Sections'
      <3> SUFFICES ASSUME NEW s \in Section, last[s] <= cursor', have[s] # last[s]
                   PROVE  s \in dropped' \/ \E q \in Puller : s \in Duty(q)'
        BY <1>1, <2>6 DEF Sections
      <3>1. CASE last[s] <= cursor
        <4>1. s \in dropped \/ \E q \in Puller \ {p} : s \in Duty(q)
          BY <3>1, <1>3 DEF Sections, Duty
        <4> QED BY <4>1, <2>1, <2>4 DEF Duty
      <3>2. CASE ~(last[s] <= cursor)
        <4>1. last[s] \in Nat /\ cursor \in Nat /\ d.to \in Nat
          <5>1. last[s] \in Nat /\ cursor \in Nat
            BY Parts DEF TypeOK
          <5> QED BY <5>1, <1>2 DEF DeltaType
        <4>2. cursor < last[s] /\ last[s] <= d.to
          BY <2>5, <3>2, <4>1
        <4>3. s \in d.flags
          BY <1>1, <4>2 DEF Flags
        <4>4. s \in todo \cap Refreshes(p) \/ s \in d.flags \ Refreshes(p)
          BY <2>3, <4>3
        <4> QED BY <2>1, <2>4, <4>4 DEF Duty
      <3> QED BY <3>1, <3>2
    <2> QED BY <2>8, <2>9, <2>10, <2>11, <2>12
  <1> QED BY <1>4, <1>5

\* One section is up to date, or its refresh is on record as missing.
LEMMA GranularInv == ASSUME IInv, NEW p \in Puller, NEW s \in Section, Granular(p, s) PROVE IInv'
  <1> USE DeltaFeedAssumption DEF IInv
  <1> DEFINE todo == job[p].todo \ {s}
  <1>1. /\ job[p].pc = "refreshing" /\ Settled(p, todo)
        /\ UNCHANGED <<pullers, head, last, pruned, cursor, gated, hinted, windows, hash,
                       overlap>>
    BY DEF Granular, Turn
  <1>2. \/ /\ have' = [have EXCEPT ![s] = last[s]] /\ dropped' = dropped \ {s} /\ left' = left
        \/ /\ dropped' = dropped \cup {s} /\ have' = have /\ (left' = left \/ Misfortune)
    BY DEF Granular
  <1>3. job[p].todo \subseteq Section /\ todo \in SUBSET Section /\ Todo(p) = job[p].todo
    BY <1>1, JobShape DEF TypeOK, Todo
  <1>4. todo = Todo(p) \ {s}
    BY <1>3
  <1> HIDE DEF todo
  <1>5. /\ job' \in [Puller -> JobType] /\ job'[p].pc \in {"idle", "refreshing"}
        /\ Todo(p)' = todo
        /\ \A q \in Puller \ {p} : job'[q] = job[q] /\ Todo(q)' = Todo(q)
    BY <1>1, <1>3, Settling
  <1>6. left' \in 0..Budget
    BY <1>2 DEF Misfortune, TypeOK
  <1>7. /\ have' \in [Part -> 0..MaxSeq] /\ have'["io"] = have["io"] /\ dropped' \subseteq Section
        /\ \A t \in Section \ {s} : have'[t] = have[t]
    <2>1. dropped' \subseteq Section
      BY <1>2 DEF TypeOK
    <2>2. last[s] \in 0..MaxSeq /\ s \in Part /\ s # "io"
      BY Parts DEF TypeOK
    <2>3. /\ have' \in [Part -> 0..MaxSeq] /\ have'["io"] = have["io"]
          /\ \A t \in Section \ {s} : have'[t] = have[t]
      BY <1>2, <2>2, Parts DEF TypeOK
    <2> QED BY <2>1, <2>3
  <1>8. TypeOK'
    BY <1>1, <1>5, <1>6, <1>7 DEF TypeOK
  <1>9. Behind' /\ Ios' /\ Flags'
    <2>1. Behind' /\ Flags'
      BY <1>1, <1>5, <1>7 DEF Behind, Flags
    <2>2. \A q \in Puller : job'[q].pc \in {"answered", "pulling"} => q # p /\ job'[q] = job[q]
      BY <1>5
    <2>3. Ios'
      BY <1>1, <1>7, <2>2 DEF Ios, Upserted
    <2> QED BY <2>1, <2>3
  <1>10. Sections'
    <2> SUFFICES ASSUME NEW t \in Section, last[t] <= cursor, have'[t] # last[t]
                 PROVE  t \in dropped' \/ \E q \in Puller : t \in Duty(q)'
      BY <1>1 DEF Sections
    <2>1. CASE t = s
      BY <2>1, <1>2, Parts DEF TypeOK
    <2>2. CASE t # s
      <3>1. t \in dropped \/ \E q \in Puller : t \in Duty(q)
        BY <2>2, <1>7 DEF Sections
      <3> QED BY <1>2, <1>4, <1>5, <2>2, <3>1 DEF Duty
    <2> QED BY <2>1, <2>2
  <1> QED BY <1>8, <1>9, <1>10

\* The scoped pull comes last of what the puller has a duty to refresh.
LEMMA PullStartInv == ASSUME IInv, NEW p \in Puller, PullStart(p) PROVE IInv'
  <1> USE DeltaFeedAssumption DEF IInv
  <1> DEFINE todo == job[p].todo \ {"config"}
  <1>1. /\ job[p].pc = "refreshing" /\ "config" \in job[p].todo
        /\ \A t \in job[p].todo : Order(p)["config"] <= Order(p)[t]
        /\ UNCHANGED <<pullers, head, last, pruned, have, cursor, gated, hinted, windows,
                       hash, overlap>>
    BY DEF PullStart, Turn
  <1>2. \/ job' = [job EXCEPT ![p] = Pulling(last["io"])] /\ left' = left /\ dropped' = dropped
        \/ /\ Settled(p, todo) /\ dropped' = dropped \cup {"config"}
           /\ left' = left \/ Misfortune
    BY DEF PullStart
  <1>3. job[p].todo \subseteq Section /\ todo \in SUBSET Section /\ Todo(p) = job[p].todo
    BY <1>1, JobShape DEF TypeOK, Todo
  <1>4. left' \in 0..Budget /\ dropped' \subseteq Section
    <2>1. left' = left \/ Misfortune
      BY <1>2
    <2>2. left' \in 0..Budget
      BY <2>1 DEF Misfortune, TypeOK
    <2>3. dropped' \subseteq Section
      BY <1>2, Parts DEF TypeOK
    <2> QED BY <2>2, <2>3
  <1>5. Duty(p) = {"config"} \cup (Duty(p) \ {"config"}) /\ todo = Todo(p) \ {"config"}
    BY <1>1, <1>3, Parts DEF Duty, Refreshes
  <1>6. CASE job' = [job EXCEPT ![p] = Pulling(last["io"])] /\ left' = left /\ dropped' = dropped
    <2>1. /\ job' \in [Puller -> JobType]
          /\ job'[p].pc = "pulling" /\ job'[p].io = last["io"]
          /\ \A q \in Puller \ {p} : job'[q] = job[q]
      BY <1>6, Jobs, Parts DEF TypeOK
    <2>2. Duty(p) \subseteq {"config"}
      <3>1. CASE p = "catchup"
        BY <3>1, <1>1, <1>3, Parts DEF Duty, Refreshes, Order
      <3>2. CASE p # "catchup"
        <4>1. Order(p) = [vfd |-> 1, l2 |-> 2, guided |-> 3, config |-> 4]
          BY <3>2 DEF Order
        <4>2. \A t \in {"l2", "vfd", "guided"} : ~(Order(p)["config"] <= Order(p)[t])
          BY <4>1
        <4>3. job[p].todo \subseteq {"config", "l2", "vfd", "guided"}
          BY <1>3
        <4>4. job[p].todo \subseteq {"config"}
          BY <1>1, <4>2, <4>3
        <4> QED BY <1>3, <4>4 DEF Duty
      <3> QED BY <3>1, <3>2
    <2>3. Duty(p)' = {"config"}
      BY <2>1, Parts DEF Duty, Todo, Refreshes
    <2>4. \A q \in Puller \ {p} : Duty(q)' = Duty(q)
      BY <2>1 DEF Duty, Todo
    <2>5. TypeOK'
      BY <1>1, <1>4, <2>1 DEF TypeOK
    <2>6. Behind'
      BY <1>1, <2>1, Parts DEF Behind, TypeOK
    <2>7. Ios'
      BY <1>1, <2>1, Parts DEF Ios, Behind, Upserted, TypeOK
    <2>8. Flags'
      BY <1>1, <2>1 DEF Flags
    <2>9. Sections'
      <3> SUFFICES ASSUME NEW s \in Section, last[s] <= cursor, have[s] # last[s]
                   PROVE  s \in dropped \/ \E q \in Puller : s \in Duty(q)'
        BY <1>1, <1>6 DEF Sections
      <3>1. s \in dropped \/ \E q \in Puller : s \in Duty(q)
        BY DEF Sections
      <3> QED BY <2>2, <2>3, <2>4, <3>1
    <2> QED BY <2>5, <2>6, <2>7, <2>8, <2>9
  <1>7. CASE Settled(p, todo) /\ dropped' = dropped \cup {"config"}
    <2> HIDE DEF todo
    <2>1. /\ job' \in [Puller -> JobType] /\ job'[p].pc \in {"idle", "refreshing"}
          /\ Todo(p)' = todo
          /\ \A q \in Puller \ {p} : job'[q] = job[q] /\ Todo(q)' = Todo(q)
      BY <1>3, <1>7, Settling
    <2>2. TypeOK'
      BY <1>1, <1>4, <2>1 DEF TypeOK
    <2>3. \A q \in Puller : job'[q].pc \in {"asking", "answered", "pulling"}
                             => q # p /\ job'[q] = job[q]
      BY <2>1
    <2>4. Behind' /\ Flags'
      BY <1>1, <2>3 DEF Behind, Flags
    <2>5. Ios'
      BY <1>1, <2>3 DEF Ios, Upserted
    <2>6. Sections'
      BY <1>1, <1>5, <1>7, <2>1 DEF Sections, Duty
    <2> QED BY <2>2, <2>4, <2>5, <2>6
  <1> QED BY <1>2, <1>6, <1>7

\* A scoped pull that ends without writing puts "config" on record.
LEMMA PullEndsInv == ASSUME IInv, NEW p \in Puller, PullEnds(p) PROVE IInv'
  <1> USE DeltaFeedAssumption DEF IInv
  <1>1. /\ job[p].pc = "pulling" /\ Settled(p, Finally(p))
        /\ dropped' = dropped \cup {"config"}
        /\ UNCHANGED <<pullers, head, last, pruned, have, cursor, gated, hinted, windows, hash,
                       overlap>>
    BY DEF PullEnds
  <1>2. Todo(p) = {"config"}
    BY <1>1 DEF Todo
  <1>3. Finally(p) \in SUBSET Section
    BY DEF Finally
  <1>4. /\ job' \in [Puller -> JobType] /\ job'[p].pc \in {"idle", "refreshing"}
        /\ \A q \in Puller \ {p} : job'[q] = job[q] /\ Todo(q)' = Todo(q)
    BY <1>1, <1>3, Settling
  <1>5. left' \in 0..Budget
    BY DEF PullEnds, Misfortune, TypeOK
  <1>6. TypeOK'
    <2>1. dropped' \subseteq Section
      BY <1>1, Parts DEF TypeOK
    <2> QED BY <1>1, <1>4, <1>5, <2>1 DEF TypeOK
  <1>7. Behind' /\ Flags'
    BY <1>1, <1>4 DEF Behind, Flags
  <1>8. Ios'
    <2>1. \A q \in Puller : job'[q].pc \in {"answered", "pulling"} => q # p /\ job'[q] = job[q]
      BY <1>4
    <2> QED BY <1>1, <2>1 DEF Ios, Upserted
  <1>9. Sections'
    BY <1>1, <1>2, <1>4 DEF Sections, Duty
  <1> QED BY <1>6, <1>7, <1>8, <1>9

\* A scoped pull that is applied puts "config" on record unless it has fetched it, and takes
\* off the record no section it has skipped.
LEMMA PullApplyInv == ASSUME IInv, NEW p \in Puller, PullApply(p) PROVE IInv'
  <1> USE DeltaFeedAssumption DEF IInv
  <1>1. /\ job[p].pc = "pulling" /\ Settled(p, Finally(p))
        /\ hash' = job[p].io
        /\ windows' = windows \cup {"manual"}
        /\ overlap' = Overlapping(p)
        /\ UNCHANGED <<pullers, head, last, pruned, cursor, gated, hinted>>
    BY DEF PullApply
  <1>2. job[p].io \in 0..MaxSeq /\ job[p].io <= last["io"] /\ Todo(p) = {"config"}
    BY <1>1, JobShape DEF TypeOK, Behind, Todo
  <1>3. Finally(p) \in SUBSET Section
    BY DEF Finally
  <1>4. /\ job' \in [Puller -> JobType] /\ job'[p].pc \in {"idle", "refreshing"}
        /\ \A q \in Puller \ {p} : job'[q] = job[q] /\ Todo(q)' = Todo(q)
    BY <1>1, <1>3, Settling
  <1>5. PICK fetched \in SUBSET Extras :
          /\ have' = [x \in Part |->
               IF x = "io" THEN IF job[p].io = hash THEN have["io"] ELSE job[p].io
               ELSE IF x \in fetched THEN last[x] ELSE have[x]]
          /\ dropped' = (dropped \cup {"config"}) \ fetched
          /\ IF fetched = Extras THEN UNCHANGED left ELSE Misfortune
    BY DEF PullApply
  <1>6. /\ have'["io"] = IF job[p].io = hash THEN have["io"] ELSE job[p].io
        /\ \A s \in Section : have'[s] = IF s \in fetched THEN last[s] ELSE have[s]
        /\ have' \in [Part -> 0..MaxSeq] /\ have'["io"] <= last["io"]
    BY <1>2, <1>5, Parts DEF TypeOK, Behind
  <1>7. TypeOK'
    <2>1. overlap' \in BOOLEAN
      BY <1>1, Zenon DEF Overlapping, TypeOK
    <2>2. dropped' \subseteq Section
      BY <1>5, Parts DEF TypeOK
    <2>3. windows' \subseteq {"manual", "catchup"} /\ hash' \in 0..MaxSeq
      BY <1>1, <1>2 DEF TypeOK
    <2>4. left' \in 0..Budget
      BY <1>5 DEF Misfortune, TypeOK
    <2> QED BY <1>1, <1>4, <1>6, <2>1, <2>2, <2>3, <2>4 DEF TypeOK
  <1>8. Behind'
    BY <1>1, <1>4, <1>6 DEF Behind
  <1>9. Ios'
    <2> SUFFICES ASSUME ~overlap' PROVE Ios'
      BY DEF Ios
    <2>1. ~overlap /\ \A q \in Puller \ {p} : job[q].pc \notin {"answered", "pulling"}
      BY <1>1 DEF Overlapping, InHand
    <2>2. \A q \in Puller : job'[q].pc \notin {"answered", "pulling"}
      BY <2>1, <1>4
    <2>3. /\ last["io"] <= cursor => job[p].io = last["io"]
          /\ have["io"] <= job[p].io /\ hash <= have["io"]
      BY <1>1, <2>1 DEF Ios
    <2>4. have'["io"] = job[p].io
      BY <1>2, <1>6, <2>3, Parts DEF TypeOK
    <2> QED BY <1>1, <1>2, <2>2, <2>3, <2>4 DEF Ios
  <1>10. Flags'
    BY <1>1, <1>4 DEF Flags
  <1>11. Sections'
    <2> SUFFICES ASSUME NEW s \in Section, last[s] <= cursor, have'[s] # last[s]
                 PROVE  s \in dropped' \/ \E q \in Puller : s \in Duty(q)'
      BY <1>1 DEF Sections
    <2>1. s \notin fetched /\ have[s] # last[s]
      BY <1>6
    <2>2. s \in dropped \/ \E q \in Puller : s \in Duty(q)
      BY <2>1 DEF Sections
    <2> QED BY <1>2, <1>4, <1>5, <2>1, <2>2 DEF Duty
  <1> QED BY <1>7, <1>8, <1>9, <1>10, <1>11

\* A crash puts all duties on record, and nothing is in hand.
LEMMA CrashInv == ASSUME IInv, Crash PROVE IInv'
  <1> USE DeltaFeedAssumption DEF IInv
  <1>1. /\ Misfortune /\ job' = [p \in Puller |-> Rest]
        /\ hinted' = FALSE /\ windows' = {} /\ hash' = 0
        /\ dropped' = dropped \cup UNION {Todo(p) : p \in Puller}
        /\ UNCHANGED <<pullers, head, last, pruned, have, cursor, gated, overlap>>
    BY DEF Crash
  <1>2. /\ job' \in [Puller -> JobType] /\ \A p \in Puller : job'[p].pc = "idle"
    BY <1>1, Jobs
  <1>3. \A p \in Puller : Todo(p) \subseteq Section
    BY JobShape, Parts DEF Todo, TypeOK
  <1>4. left' \in 0..Budget /\ dropped' \subseteq Section /\ hinted' \in BOOLEAN
    <2>1. left' \in 0..Budget
      BY <1>1 DEF Misfortune, TypeOK
    <2>2. UNION {Todo(p) : p \in Puller} \subseteq Section
      BY <1>3
    <2>3. dropped \subseteq Section
      BY DEF TypeOK
    <2>4. dropped' \subseteq Section
      BY <1>1, <2>2, <2>3
    <2> QED BY <1>1, <2>1, <2>4
  <1>5. TypeOK'
    BY <1>1, <1>2, <1>4 DEF TypeOK
  <1>6. Behind' /\ Flags'
    BY <1>1, <1>2 DEF Behind, Flags
  <1>7. Ios'
    BY <1>1, <1>2, Parts DEF Ios, TypeOK
  <1>8. Sections'
    BY <1>1 DEF Sections, Duty
  <1> QED BY <1>5, <1>6, <1>7, <1>8

LEMMA NextInv == IInv /\ [Next]_vars => IInv'
  <1> SUFFICES ASSUME IInv, [Next]_vars PROVE IInv'
    OBVIOUS
  <1>1. ASSUME NEW x \in Part, Change(x) PROVE IInv'
    BY <1>1, ChangeInv
  <1>2. CASE Prune
    BY <1>2, AroundInv DEF Prune
  <1>3. ASSUME NEW x \in Section, Gate(x) PROVE IInv'
    <2>1. /\ UNCHANGED <<pullers, head, last, have, cursor, hash, job, dropped, overlap>>
          /\ UNCHANGED <<pruned, hinted, windows>> /\ x \in {"config", "l2"} \cap Section
          /\ gated' \in {gated \ {x}, gated \cup {x}} /\ (left' = left \/ Misfortune)
      BY <1>3 DEF Gate
    <2> QED BY <2>1, AroundInv
  <1>4. ASSUME NEW w \in windows, WindowEnds(w) PROVE IInv'
    BY <1>4, AroundInv DEF WindowEnds
  <1>5. CASE Hinted \/ Sweep \/ Catchup
    <2>1. PICK p \in Puller : /\ job[p] = Rest /\ (Ask(p) \/ UNCHANGED job)
                              /\ hinted' \in {hinted, FALSE}
                              /\ windows' \in {windows, {"catchup"}}
                              /\ UNCHANGED <<pullers, head, last, pruned, have, cursor, gated,
                                             hash, left, dropped, overlap>>
      BY <1>5 DEF Hinted, Sweep, Catchup, Free, Puller
    <2> QED BY <2>1, AskInv
  <1>6. ASSUME NEW p \in Puller, Work(p) PROVE IInv'
    BY <1>6, AnswerInv, FailInv, ApplyInv, GranularInv, PullStartInv,
       PullEndsInv, PullApplyInv DEF Work
  <1>7. CASE Crash
    BY <1>7, CrashInv
  <1>8. CASE UNCHANGED vars
    BY <1>8 DEF vars, IInv, TypeOK, Behind, Ios, Flags, Sections, Duty, Todo, Upserted
  <1> QED BY <1>1, <1>2, <1>3, <1>4, <1>5, <1>6, <1>7, <1>8 DEF Next

-----------------------------------------------------------------------------
\* Types: every variable of the feed keeps its type (DeltaFeed!TypeOK).
THEOREM FeedTypes == Spec => []TypeOK
  <1>1. IInv => TypeOK
    BY DEF IInv
  <1> QED BY InitInv, NextInv, <1>1, PTL DEF Spec

\* Whatever is pulled, refused, lost or cut off by a crash, the IOs that the cursor
\* of sync-cursor.ts has passed are in the table, unless a payload was applied while
\* another was in hand.
THEOREM CursorNeverSkipsIos == Spec => []CursorCoversIos
  <1>1. IInv => CursorCoversIos
    BY Zenon DEF IInv, Ios, CursorCoversIos
  <1> QED BY InitInv, NextInv, <1>1, PTL DEF Spec

\* A section that the cursor has passed is in its table, is still some puller's to
\* fetch, or its last refresh is on record as refused, failed, skipped by a pull that
\* counted as a success, cut off or left out.
THEOREM CursorNeverSkipsSections == Spec => []CursorCoversSections
  <1>1. IInv => CursorCoversSections
    BY Zenon DEF IInv, Sections, CursorCoversSections, Duty
  <1> QED BY InitInv, NextInv, <1>1, PTL DEF Spec
=============================================================================
