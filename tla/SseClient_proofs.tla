--------------------------- MODULE SseClient_proofs ---------------------------
(***************************************************************************)
(* The event stream's client for any number of clients, changes of the      *)
(* configuration, starts and broken streams.                               *)
(*                                                                         *)
(* The claims about the client in use rest on its never having given up:     *)
(* every stream it loses then leaves a timer behind, and no state of its     *)
(* connection keeps a change of the configuration from starting a stream.   *)
(* That is Serves, which holds of the current client in every state.  A      *)
(* client, current or not, gains a stream only from a timer it spends or     *)
(* from a start or a change of the configuration.                           *)
(***************************************************************************)
EXTENDS SseClient, FiniteSetTheorems, TLAPS

\* The client k serves the configuration v.
Serves(k, v) ==
  /\ ~k.gaveUp /\ k.conn # "disconnected" /\ k.cfg = v
  /\ (\E s \in k.streams : s.cfg = v) \/ k.timers > 0
  /\ k.conn = "connected" => \E s \in k.streams : s.open

\* Whoever made a client has registered the listener.
InService == Live => listening /\ Serves(clients[current], config)

\* Each delayed start belongs to a start.
Pending == delayed <= starts

IInv == TypeOK /\ InService /\ Pending

-----------------------------------------------------------------------------
(* The methods of a client *)

\* Streams are numbered apart, so among one more number than there are streams one is
\* free.
LEMMA FreshStream ==
  ASSUME NEW k, ClientOK(k)
  PROVE  \E n \in 1..(Cardinality(k.streams) + 1) : \A s \in k.streams : s.id # n
  <1>1. IsFiniteSet(k.streams) /\ Cardinality(k.streams) \in Nat
    BY FS_CardinalityType DEF ClientOK
  <1> DEFINE N == Cardinality(k.streams) + 1
             ids == {s.id : s \in k.streams}
  <1>2. IsFiniteSet(ids) /\ Cardinality(ids) <= Cardinality(k.streams)
    <2> DEFINE f == [s \in k.streams |-> s.id]
    <2>1. f \in Surjection(k.streams, ids)
      BY DEF Surjection
    <2> HIDE DEF f
    <2> QED BY <1>1, <2>1, FS_Surjection
  <1>3. ~(1..N \subseteq ids)
    <2> SUFFICES ASSUME 1..N \subseteq ids PROVE FALSE
      OBVIOUS
    <2> HIDE DEF ids
    <2>1. Cardinality(1..N) = N
      BY <1>1, FS_Interval
    <2>2. Cardinality(1..N) <= Cardinality(ids)
      BY <1>2, FS_Subset
    <2>3. Cardinality(ids) \in Nat
      BY <1>2, FS_CardinalityType
    <2> QED BY <1>1, <1>2, <2>1, <2>2, <2>3
  <1> QED BY <1>3

LEMMA Starting ==
  ASSUME NEW k, ClientOK(k)
  PROVE  LET n == StartStream(k)
         IN /\ ClientOK(n) /\ n.conn \in {"connecting", "reconnecting"}
            /\ n.gaveUp = k.gaveUp /\ n.cfg = k.cfg
            /\ n.timers = k.timers /\ n.kept = k.kept
            /\ \E s \in n.streams : s.cfg = n.cfg
            /\ Cardinality(n.streams) = Cardinality(k.streams) + 1
  <1> DEFINE N == Cardinality(k.streams) + 1
             i == CHOOSE n \in 1..N : \A s \in k.streams : s.id # n
             s0 == [id |-> i, cfg |-> k.cfg, open |-> FALSE]
             n0 == StartStream(k)
  <1>1. i \in 1..N /\ \A s \in k.streams : s.id # i
    BY FreshStream
  <1>2. n0 = [k EXCEPT !.conn = IF @ = "disconnected" THEN "connecting" ELSE "reconnecting",
                       !.streams = @ \cup {s0}, !.held = i]
    BY DEF StartStream
  <1>3. /\ IsFiniteSet(k.streams) /\ Cardinality(k.streams) \in Nat /\ k \in ClientType
        /\ k.cfg \in 0..MaxConfig /\ k.streams \subseteq StreamType
        /\ (k.kept => k.timers > 0) /\ \A s, t \in k.streams : s.id = t.id => s = t
    BY FS_CardinalityType DEF ClientOK, ClientType
  <1> HIDE DEF i
  <1>4. i \in Nat /\ i # 0
    BY <1>1, <1>3
  <1>5. s0 \in StreamType /\ s0.id = i /\ s0.cfg = k.cfg
    BY <1>3, <1>4 DEF StreamType
  <1> HIDE DEF s0, n0
  <1>6. /\ n0 \in ClientType /\ n0.streams = k.streams \cup {s0} /\ n0.held = i
        /\ n0.conn \in {"connecting", "reconnecting"}
        /\ n0.gaveUp = k.gaveUp /\ n0.cfg = k.cfg
        /\ n0.timers = k.timers /\ n0.kept = k.kept
    BY <1>2, <1>3, <1>4, <1>5 DEF ClientType
  <1>7. s0 \notin k.streams
    BY <1>1, <1>5
  <1>8. IsFiniteSet(n0.streams) /\ Cardinality(n0.streams) = Cardinality(k.streams) + 1
    BY <1>3, <1>6, <1>7, FS_AddElement
  <1>9. ClientOK(n0)
    <2>1. \A s, t \in n0.streams : s.id = t.id => s = t
      BY <1>1, <1>3, <1>5, <1>6
    <2>2. n0.held # 0 => \E s \in n0.streams : s.id = n0.held
      BY <1>5, <1>6
    <2>3. n0.kept => n0.timers > 0
      BY <1>3, <1>6
    <2> QED BY <1>6, <1>8, <2>1, <2>2, <2>3 DEF ClientOK
  <1> QED BY <1>5, <1>6, <1>8, <1>9 DEF n0

\* cleanup drops the remembered stream and timer, and only those.
LEMMA Cleaning ==
  ASSUME NEW k, ClientOK(k)
  PROVE  LET n == Cleanup(k)
         IN /\ ClientOK(n) /\ n.conn = k.conn /\ n.gaveUp = k.gaveUp /\ n.cfg = k.cfg
            /\ n.held = 0 /\ n.streams \subseteq k.streams /\ n.timers <= k.timers
            /\ Cardinality(n.streams) <= Cardinality(k.streams)
  <1> DEFINE left == {s \in k.streams : s.id # k.held}
             few  == IF k.kept THEN k.timers - 1 ELSE k.timers
             n0   == Cleanup(k)
  <1>1. n0 = [k EXCEPT !.streams = left, !.held = 0, !.timers = few, !.kept = FALSE]
    BY DEF Cleanup, ClientOK, ClientType
  <1>2. /\ k \in ClientType /\ IsFiniteSet(k.streams) /\ k.streams \subseteq StreamType
        /\ k.timers \in Nat /\ (k.kept => k.timers > 0)
        /\ \A s, t \in k.streams : s.id = t.id => s = t
    BY DEF ClientOK, ClientType
  <1>3. few \in Nat /\ few <= k.timers
    BY <1>2
  <1>4. /\ left \subseteq k.streams /\ IsFiniteSet(left)
        /\ Cardinality(left) <= Cardinality(k.streams)
    BY <1>2, FS_Subset
  <1>5. left \subseteq StreamType
    BY <1>2
  <1> HIDE DEF left, few, n0
  <1>6. /\ n0 \in ClientType /\ n0.conn = k.conn /\ n0.gaveUp = k.gaveUp /\ n0.cfg = k.cfg
        /\ n0.held = 0 /\ n0.streams = left /\ n0.timers = few /\ n0.kept = FALSE
    BY <1>1, <1>2, <1>3, <1>5 DEF ClientType
  <1>7. ClientOK(n0)
    BY <1>2, <1>4, <1>6 DEF ClientOK
  <1> QED BY <1>3, <1>4, <1>6, <1>7 DEF n0

LEMMA Scheduling ==
  ASSUME NEW k, ClientOK(k)
  PROVE  LET n == ScheduleReconnect(k)
         IN /\ ClientOK(n) /\ n.streams = k.streams /\ n.gaveUp = k.gaveUp /\ n.cfg = k.cfg
            /\ n.timers \in {k.timers, k.timers + 1}
            /\ ~k.gaveUp => n.conn = "reconnecting" /\ n.timers > 0
  <1> DEFINE n0 == ScheduleReconnect(k)
  <1>1. /\ k \in ClientType /\ IsFiniteSet(k.streams) /\ k.timers \in Nat
        /\ (k.held # 0 => \E s \in k.streams : s.id = k.held)
        /\ \A s, t \in k.streams : s.id = t.id => s = t
    BY DEF ClientOK, ClientType
  <1>2. CASE k.gaveUp
    BY <1>1, <1>2 DEF ScheduleReconnect
  <1>3. CASE ~k.gaveUp
    <2> DEFINE more == k.timers + 1
    <2>1. /\ n0 = [k EXCEPT !.conn = "reconnecting", !.timers = more, !.kept = TRUE]
          /\ more \in Nat /\ more > 0
      BY <1>1, <1>3 DEF ScheduleReconnect, ClientType
    <2> HIDE DEF more
    <2> HIDE DEF n0
    <2>2. /\ n0 \in ClientType /\ n0.conn = "reconnecting" /\ n0.timers = more
          /\ n0.streams = k.streams /\ n0.gaveUp = k.gaveUp /\ n0.cfg = k.cfg
          /\ n0.held = k.held /\ n0.kept = TRUE
      BY <1>1, <2>1 DEF ClientType
    <2>3. n0.timers > 0 /\ n0.timers = k.timers + 1
      BY <1>1, <2>1, <2>2 DEF more
    <2>4. ClientOK(n0)
      BY <1>1, <2>2, <2>3 DEF ClientOK
    <2> QED BY <1>3, <2>2, <2>3, <2>4 DEF n0
  <1> QED BY <1>2, <1>3

LEMMA Disconnecting ==
  ASSUME NEW k, ClientOK(k)
  PROVE  LET n == Disconnect(k)
         IN /\ ClientOK(n) /\ n.streams \subseteq k.streams /\ n.timers <= k.timers
            /\ Cardinality(n.streams) <= Cardinality(k.streams)
  <1> DEFINE g  == [k EXCEPT !.gaveUp = TRUE]
             u  == Cleanup(g)
             n0 == Disconnect(k)
  <1>1. k \in ClientType
    BY DEF ClientOK
  <1>2. g \in ClientType /\ g.streams = k.streams /\ g.timers = k.timers
        /\ g.kept = k.kept /\ g.held = k.held
    BY <1>1 DEF ClientType
  <1>3. ClientOK(g)
    BY <1>2 DEF ClientOK
  <1>4. n0 = [u EXCEPT !.conn = "disconnected"]
    BY DEF Disconnect
  <1> HIDE DEF g
  <1>5. /\ ClientOK(u) /\ u.streams \subseteq k.streams /\ u.timers <= k.timers
        /\ Cardinality(u.streams) <= Cardinality(k.streams)
    BY <1>2, <1>3, Cleaning
  <1> HIDE DEF u, n0
  <1>6. u \in ClientType
    BY <1>5 DEF ClientOK
  <1>7. n0 \in ClientType /\ n0.streams = u.streams /\ n0.timers = u.timers
        /\ n0.kept = u.kept /\ n0.held = u.held
    BY <1>4, <1>6 DEF ClientType
  <1>8. ClientOK(n0)
    BY <1>5, <1>7 DEF ClientOK
  <1> QED BY <1>5, <1>7, <1>8 DEF n0

\* Nothing but the stream s goes.
LEMMA Losing ==
  ASSUME NEW k, ClientOK(k), NEW s \in k.streams
  PROVE  LET n == Without(k, s)
         IN /\ ClientOK(n) /\ n.gaveUp = k.gaveUp /\ n.cfg = k.cfg /\ n.timers = k.timers
            /\ Cardinality(n.streams) = Cardinality(k.streams) - 1
  <1> DEFINE h  == IF k.held = s.id THEN 0 ELSE k.held
             n0 == Without(k, s)
  <1>1. /\ k \in ClientType /\ IsFiniteSet(k.streams) /\ k.streams \subseteq StreamType
        /\ (k.kept => k.timers > 0) /\ k.held \in Nat
        /\ (k.held # 0 => \E t \in k.streams : t.id = k.held)
        /\ \A t, r \in k.streams : t.id = r.id => t = r
    BY DEF ClientOK, ClientType
  <1>2. n0 = [k EXCEPT !.streams = k.streams \ {s}, !.held = h]
    BY <1>1 DEF Without, ClientType
  <1>3. h \in Nat /\ (h # 0 => \E t \in k.streams \ {s} : t.id = h)
    BY <1>1
  <1>4. /\ IsFiniteSet(k.streams \ {s})
        /\ Cardinality(k.streams \ {s}) = Cardinality(k.streams) - 1
    BY <1>1, FS_RemoveElement
  <1> HIDE DEF h, n0
  <1>5. /\ n0 \in ClientType /\ n0.streams = k.streams \ {s} /\ n0.held = h
        /\ n0.gaveUp = k.gaveUp /\ n0.cfg = k.cfg /\ n0.timers = k.timers /\ n0.kept = k.kept
    BY <1>1, <1>2, <1>3 DEF ClientType
  <1>6. ClientOK(n0)
    BY <1>1, <1>3, <1>4, <1>5 DEF ClientOK
  <1> QED BY <1>4, <1>5, <1>6 DEF n0

\* The stream s of k is accepted.
Opened(k, s) ==
  [k EXCEPT !.conn = "connected", !.streams = (@ \ {s}) \cup {[s EXCEPT !.open = TRUE]}]

LEMMA Opening ==
  ASSUME NEW k, ClientOK(k), NEW s \in k.streams
  PROVE  LET n == Opened(k, s)
         IN /\ ClientOK(n) /\ n.conn = "connected" /\ n.gaveUp = k.gaveUp /\ n.cfg = k.cfg
            /\ n.timers = k.timers /\ \E t \in n.streams : t.open
            /\ (\E t \in k.streams : t.cfg = k.cfg) => \E t \in n.streams : t.cfg = k.cfg
            /\ Cardinality(n.streams) <= Cardinality(k.streams)
  <1> DEFINE s0 == [s EXCEPT !.open = TRUE]
             ss == k.streams \ {s}
             n0 == Opened(k, s)
  <1>1. /\ k \in ClientType /\ IsFiniteSet(k.streams) /\ k.streams \subseteq StreamType
        /\ (k.kept => k.timers > 0) /\ s \in StreamType
        /\ (k.held # 0 => \E t \in k.streams : t.id = k.held)
        /\ \A t, r \in k.streams : t.id = r.id => t = r
    BY DEF ClientOK, ClientType
  <1>2. s0 \in StreamType /\ s0.id = s.id /\ s0.cfg = s.cfg /\ s0.open
    BY <1>1 DEF StreamType
  <1>3. n0 = [k EXCEPT !.conn = "connected", !.streams = ss \cup {s0}]
    BY <1>1 DEF Opened, ClientType
  <1>4. IsFiniteSet(ss) /\ Cardinality(ss) = Cardinality(k.streams) - 1
    BY <1>1, FS_RemoveElement
  <1> HIDE DEF s0
  <1>5. /\ IsFiniteSet(ss \cup {s0})
        /\ Cardinality(ss \cup {s0}) \in {Cardinality(ss), Cardinality(ss) + 1}
    <2> HIDE DEF ss
    <2> QED BY <1>4, FS_AddElement
  <1>6. Cardinality(k.streams) \in Nat
    BY <1>1, FS_CardinalityType
  <1> HIDE DEF n0
  <1>7. /\ n0 \in ClientType /\ n0.streams = ss \cup {s0} /\ n0.conn = "connected"
        /\ n0.gaveUp = k.gaveUp /\ n0.cfg = k.cfg /\ n0.timers = k.timers
        /\ n0.kept = k.kept /\ n0.held = k.held
    BY <1>1, <1>2, <1>3 DEF ClientType
  <1>8. ClientOK(n0)
    <2>1. \A t, r \in n0.streams : t.id = r.id => t = r
      BY <1>1, <1>2, <1>7
    <2>2. n0.held # 0 => \E t \in n0.streams : t.id = n0.held
      BY <1>1, <1>2, <1>7
    <2> QED BY <1>1, <1>5, <1>7, <2>1, <2>2 DEF ClientOK
  <1>9. (\E t \in k.streams : t.cfg = k.cfg) => \E t \in n0.streams : t.cfg = k.cfg
    BY <1>2, <1>7
  <1>10. Cardinality(n0.streams) <= Cardinality(k.streams)
    BY <1>4, <1>5, <1>6, <1>7
  <1>11. \E t \in n0.streams : t.open
    BY <1>2, <1>7
  <1> QED BY <1>7, <1>8, <1>9, <1>10, <1>11 DEF n0

LEMMA Connecting ==
  ASSUME NEW k, ClientOK(k)
  PROVE  LET n == Connect(k)
         IN /\ ClientOK(n) /\ n.cfg = k.cfg /\ n.timers = k.timers
            /\ n = k \/ (/\ ~n.gaveUp /\ n.conn \in {"connecting", "reconnecting"}
                         /\ \E s \in n.streams : s.cfg = n.cfg)
            /\ k.conn = "disconnected" => n # k
  <1> DEFINE g  == [k EXCEPT !.gaveUp = FALSE]
             n0 == Connect(k)
  <1>1. CASE k.conn \in {"connected", "connecting"}
    BY <1>1 DEF Connect
  <1>2. CASE k.conn \notin {"connected", "connecting"}
    <2>1. k \in ClientType
      BY DEF ClientOK
    <2>2. /\ g \in ClientType /\ g.streams = k.streams /\ g.timers = k.timers
          /\ g.kept = k.kept /\ g.held = k.held /\ g.cfg = k.cfg /\ g.gaveUp = FALSE
      BY <2>1 DEF ClientType
    <2>3. ClientOK(g)
      BY <2>2 DEF ClientOK
    <2>4. n0 = StartStream(g)
      BY <1>2 DEF Connect
    <2> HIDE DEF g
    <2>5. /\ ClientOK(n0) /\ n0.conn \in {"connecting", "reconnecting"}
          /\ n0.gaveUp = FALSE /\ n0.cfg = k.cfg /\ n0.timers = k.timers
          /\ \E s \in n0.streams : s.cfg = n0.cfg
      BY <2>2, <2>3, <2>4, Starting
    <2> HIDE DEF n0
    <2>6. k.conn = "disconnected" => n0 # k
      BY <2>5
    <2> QED BY <2>5, <2>6 DEF n0
  <1> QED BY <1>1, <1>2

LEMMA Fresh == ASSUME NEW v \in 0..MaxConfig PROVE ClientOK(New(v)) /\ Serves(Connect(New(v)), v)
  <1> DEFINE k == New(v)
             n == Connect(k)
  <1>1. k \in ClientType /\ k.streams = {} /\ k.held = 0 /\ k.kept = FALSE
        /\ k.cfg = v /\ k.conn = "disconnected"
    BY DEF New, ClientType
  <1> HIDE DEF k
  <1>2. IsFiniteSet({})
    BY FS_EmptySet
  <1>3. ClientOK(k)
    BY <1>1, <1>2 DEF ClientOK
  <1>4. /\ n.cfg = v /\ ~n.gaveUp /\ n.conn \in {"connecting", "reconnecting"}
        /\ \E s \in n.streams : s.cfg = n.cfg
    BY <1>1, <1>3, Connecting
  <1> HIDE DEF n
  <1>5. Serves(n, v)
    BY <1>4 DEF Serves
  <1> QED BY <1>3, <1>5 DEF k, n

\* A change of the configuration, with the rejection of the stream it aborts.
LEMMA Changing ==
  ASSUME NEW k, ClientOK(k), NEW u, Serves(k, u), NEW v \in 0..MaxConfig, v # u
  PROVE  LET n == Rejected(k, v, UpdateConfig(k, v)) IN ClientOK(n) /\ Serves(n, v)
  <1> DEFINE w == Cleanup(k)
             x == [w EXCEPT !.cfg = v]
             y == UpdateConfig(k, v)
             n == Rejected(k, v, y)
  <1>1. Changed(k, v) /\ ~k.gaveUp
    BY DEF Changed, Serves
  <1>2. ClientOK(w) /\ w.gaveUp = k.gaveUp
    BY Cleaning
  <1>3. y = StartStream(x)
    BY <1>1 DEF UpdateConfig
  <1> HIDE DEF w
  <1>4. w \in ClientType
    BY <1>2 DEF ClientOK
  <1>5. /\ x \in ClientType /\ x.streams = w.streams /\ x.timers = w.timers
        /\ x.kept = w.kept /\ x.held = w.held /\ x.cfg = v /\ x.gaveUp = w.gaveUp
    BY <1>4 DEF ClientType
  <1>6. ClientOK(x)
    BY <1>2, <1>5 DEF ClientOK
  <1> HIDE DEF x
  <1>7. /\ ClientOK(y) /\ y.conn \in {"connecting", "reconnecting"} /\ ~y.gaveUp /\ y.cfg = v
        /\ \E s \in y.streams : s.cfg = v
    BY <1>1, <1>2, <1>3, <1>5, <1>6, Starting
  <1> HIDE DEF y
  <1>8. n = y \/ n = ScheduleReconnect(y)
    BY DEF Rejected
  <1> HIDE DEF n
  <1>9. /\ ClientOK(n) /\ n.conn \in {"connecting", "reconnecting"} /\ ~n.gaveUp /\ n.cfg = v
        /\ \E s \in n.streams : s.cfg = v
    BY <1>7, <1>8, Scheduling
  <1>10. Serves(n, v)
    BY <1>9 DEF Serves
  <1> QED BY <1>9, <1>10 DEF n, y

\* A delayed start for a client that has its configuration already.
LEMMA Restarting ==
  ASSUME NEW k, ClientOK(k), NEW v, Serves(k, v)
  PROVE  ClientOK(Restart(k, v)) /\ Serves(Restart(k, v), v)
  <1> DEFINE n == Restart(k, v)
  <1>1. k.cfg = v /\ ~Changed(k, v) /\ k \in ClientType
    BY DEF Serves, Changed, ClientOK
  <1>2. UpdateConfig(k, v) = k
    BY <1>1 DEF UpdateConfig, ClientType
  <1>3. n = k \/ n = Connect(k)
    BY <1>1, <1>2 DEF Restart, Rejected
  <1> HIDE DEF n
  <1>4. /\ ClientOK(n)
        /\ n = k \/ (/\ ~n.gaveUp /\ n.conn \in {"connecting", "reconnecting"} /\ n.cfg = v
                     /\ \E s \in n.streams : s.cfg = n.cfg)
    BY <1>1, <1>3, Connecting
  <1>5. Serves(n, v)
    BY <1>4 DEF Serves
  <1> QED BY <1>4, <1>5 DEF n

-----------------------------------------------------------------------------
(* The inductive invariant *)

LEMMA InitInv == ASSUME Init PROVE IInv
  <1> USE SseAssumption
  <1>1. /\ config \in 0..MaxConfig /\ running = FALSE /\ delayed = 0 /\ listening = FALSE
        /\ current = 0 /\ clients = [c \in Client |-> New(0)] /\ starts = 0 /\ breaks = 0
    BY DEF Init
  <1>2. ClientOK(New(0))
    BY Fresh
  <1>3. clients \in [Client -> ClientType] /\ \A c \in Client : ClientOK(clients[c])
    BY <1>1, <1>2 DEF ClientOK
  <1>4. TypeOK
    <2>1. current \in 0..MaxClients /\ starts \in 0..MaxStarts /\ breaks \in 0..MaxBreaks
          /\ delayed \in 0..MaxStarts
      BY <1>1
    <2>2. running \in BOOLEAN /\ listening \in BOOLEAN
      BY <1>1
    <2> QED BY <1>1, <1>3, <2>1, <2>2 DEF TypeOK
  <1>5. InService /\ Pending
    BY <1>1 DEF InService, Pending, Live
  <1> QED BY <1>4, <1>5 DEF IInv

\* A step that gives one client a new state.
LEMMA BecomingOK ==
  ASSUME TypeOK, NEW c \in Client, NEW k, ClientOK(k), Becomes(c, k)
  PROVE  /\ clients' \in [Client -> ClientType] /\ \A d \in Client : ClientOK(clients'[d])
         /\ clients'[c] = k /\ \A d \in Client \ {c} : clients'[d] = clients[d]
  <1>1. k \in ClientType
    BY DEF ClientOK
  <1>2. /\ clients' \in [Client -> ClientType] /\ clients'[c] = k
        /\ \A d \in Client \ {c} : clients'[d] = clients[d]
    BY <1>1 DEF Becomes, TypeOK
  <1>3. \A d \in Client : ClientOK(clients'[d])
    BY <1>2 DEF TypeOK
  <1> QED BY <1>2, <1>3

\* A step of one client that leaves the current client, if it is that one, in service.
LEMMA ClientInv ==
  ASSUME IInv, NEW c \in Client, NEW k, ClientOK(k), Becomes(c, k),
         Serves(clients[c], config) => Serves(k, config),
         breaks' \in 0..MaxBreaks,
         UNCHANGED <<config, running, delayed, listening, current, starts>>
  PROVE  IInv'
  <1> USE DEF IInv
  <1>1. /\ clients' \in [Client -> ClientType] /\ \A d \in Client : ClientOK(clients'[d])
        /\ clients'[c] = k /\ \A d \in Client \ {c} : clients'[d] = clients[d]
    BY BecomingOK
  <1>2. TypeOK'
    BY <1>1 DEF TypeOK
  <1>3. InService'
    <2>1. Live => current \in Client
      BY DEF Live, TypeOK, Client
    <2> QED BY <1>1, <2>1 DEF InService, Live
  <1> QED BY <1>2, <1>3 DEF Pending

LEMMA StartInv == ASSUME IInv, Start PROVE IInv'
  <1> USE SseAssumption DEF IInv
  <1>1. /\ starts < MaxStarts /\ running' = TRUE /\ delayed' = delayed + 1
        /\ starts' = starts + 1 /\ UNCHANGED <<config, listening, current, clients, breaks>>
    BY DEF Start
  <1>2. delayed' \in 0..MaxStarts /\ starts' \in 0..MaxStarts /\ delayed' <= starts'
    BY <1>1 DEF TypeOK, Pending
  <1>3. TypeOK'
    BY <1>1, <1>2 DEF TypeOK
  <1> QED BY <1>1, <1>2, <1>3 DEF InService, Pending, Live

LEMMA StopInv == ASSUME IInv, Stop PROVE IInv'
  <1> USE DEF IInv
  <1>1. /\ running' = FALSE /\ current' = 0
        /\ UNCHANGED <<config, delayed, listening, starts, breaks>>
    BY DEF Stop
  <1>2. clients' \in [Client -> ClientType] /\ \A d \in Client : ClientOK(clients'[d])
    <2>1. CASE current = 0
      BY <2>1 DEF Stop, TypeOK
    <2>2. CASE current # 0
      <3>1. current \in Client
        BY <2>2 DEF TypeOK, Client
      <3>2. ClientOK(Disconnect(clients[current]))
        BY <3>1, Disconnecting DEF TypeOK
      <3>3. Becomes(current, Disconnect(clients[current]))
        BY <2>2 DEF Stop
      <3> QED BY <3>1, <3>2, <3>3, BecomingOK
    <2> QED BY <2>1, <2>2
  <1>3. TypeOK'
    <2>1. current' \in 0..MaxClients
      BY <1>1, SseAssumption
    <2>2. running' \in BOOLEAN
      BY <1>1
    <2> QED BY <1>1, <1>2, <2>1, <2>2 DEF TypeOK
  <1> QED BY <1>1, <1>3 DEF InService, Pending, Live

\* What a delayed start or a change of the configuration to v leaves behind.
LEMMA ServedInv ==
  ASSUME IInv, config' \in 0..MaxConfig, delayed' \in 0..MaxStarts, delayed' <= delayed,
         listening' \in BOOLEAN, UNCHANGED <<running, starts, breaks>>,
         \/ UNCHANGED <<clients, current, config>> /\ (listening => listening')
         \/ UNCHANGED <<clients, current>> /\ ~listening
         \/ /\ listening'
            /\ \E c \in Client : \E k : /\ ClientOK(k) /\ Serves(k, config')
                                        /\ Becomes(c, k) /\ current' = c
  PROVE  IInv'
  <1> USE SseAssumption DEF IInv
  <1>1. Pending'
    BY DEF Pending, TypeOK
  <1>2. CASE UNCHANGED <<clients, current>> /\ ((UNCHANGED config /\ (listening => listening')) \/ ~listening)
    <2>1. TypeOK'
      BY <1>2 DEF TypeOK
    <2>2. InService'
      BY <1>2 DEF InService, Live
    <2> QED BY <1>1, <2>1, <2>2
  <1>3. CASE /\ listening'
             /\ \E c \in Client : \E k : /\ ClientOK(k) /\ Serves(k, config')
                                         /\ Becomes(c, k) /\ current' = c
    <2>0. PICK c \in Client : \E k : /\ ClientOK(k) /\ Serves(k, config')
                                     /\ Becomes(c, k) /\ current' = c
      BY <1>3
    <2>1. PICK k : /\ ClientOK(k) /\ Serves(k, config')
                   /\ Becomes(c, k) /\ current' = c
      BY <2>0
    <2>2. /\ clients' \in [Client -> ClientType] /\ \A d \in Client : ClientOK(clients'[d])
          /\ clients'[c] = k
      BY <2>1, BecomingOK
    <2>3. current' \in 0..MaxClients
      BY <2>1 DEF Client
    <2>4. TypeOK'
      BY <2>2, <2>3 DEF TypeOK
    <2>5. InService'
      BY <1>3, <2>1, <2>2 DEF InService
    <2> QED BY <1>1, <2>4, <2>5
  <1> QED BY <1>2, <1>3

LEMMA DelayedStartInv == ASSUME IInv, DelayedStart PROVE IInv'
  <1> USE SseAssumption DEF IInv
  <1>1. /\ delayed > 0 /\ delayed' = delayed - 1 /\ listening' = TRUE
        /\ UNCHANGED <<config, running, starts, breaks>>
    BY DEF DelayedStart
  <1>2. config \in 0..MaxConfig /\ delayed' \in 0..MaxStarts /\ delayed' <= delayed
    BY <1>1 DEF TypeOK
  <1>3. CASE config = 0
    <2>1. UNCHANGED <<clients, current>>
      BY <1>3 DEF DelayedStart
    <2> QED BY <1>1, <1>2, <2>1, ServedInv
  <1>4. CASE config # 0 /\ current = 0
    <2>1. PICK c \in Client : Becomes(c, Connect(New(config))) /\ current' = c
      BY <1>4 DEF DelayedStart, Create
    <2>2. ClientOK(Connect(New(config))) /\ Serves(Connect(New(config)), config)
      BY <1>2, Fresh, Connecting
    <2> QED BY <1>1, <1>2, <2>1, <2>2, ServedInv
  <1>5. CASE config # 0 /\ current # 0
    <2>1. current \in Client /\ ClientOK(clients[current]) /\ Serves(clients[current], config)
      BY <1>5 DEF TypeOK, Client, InService, Live
    <2>2. Becomes(current, Restart(clients[current], config)) /\ current' = current
      BY <1>5 DEF DelayedStart
    <2>3. ClientOK(Restart(clients[current], config)) /\ Serves(Restart(clients[current], config), config)
      BY <2>1, Restarting
    <2> QED BY <1>1, <1>2, <2>1, <2>2, <2>3, ServedInv
  <1> QED BY <1>3, <1>4, <1>5

LEMMA ConfigureInv == ASSUME IInv, Configure PROVE IInv'
  <1> USE SseAssumption DEF IInv
  <1>1. /\ config < MaxConfig /\ config' = config + 1
        /\ UNCHANGED <<running, delayed, listening, starts, breaks>>
    BY DEF Configure
  <1>2. /\ config' \in 0..MaxConfig /\ config' # config
        /\ delayed' \in 0..MaxStarts /\ delayed' <= delayed /\ listening' \in BOOLEAN
    BY <1>1 DEF TypeOK
  <1>3. CASE ~listening
    <2>1. UNCHANGED <<clients, current>>
      BY <1>3 DEF Configure
    <2> QED BY <1>1, <1>2, <1>3, <2>1, ServedInv
  <1>4. CASE listening /\ current = 0
    <2>1. PICK c \in Client : Becomes(c, Connect(New(config'))) /\ current' = c
      BY <1>4 DEF Configure, Create
    <2>2. ClientOK(Connect(New(config'))) /\ Serves(Connect(New(config')), config')
      BY <1>2, Fresh, Connecting
    <2> QED BY <1>1, <1>2, <1>4, <2>1, <2>2, ServedInv
  <1>5. CASE listening /\ current # 0
    <2> DEFINE k == clients[current]
               n == Rejected(k, config', UpdateConfig(k, config'))
    <2>1. current \in Client /\ ClientOK(k) /\ Serves(k, config)
      BY <1>5 DEF TypeOK, Client, InService, Live
    <2>2. Becomes(current, n) /\ current' = current
      BY <1>5 DEF Configure
    <2> HIDE DEF k
    <2>3. ClientOK(n) /\ Serves(n, config')
      BY <1>2, <2>1, Changing
    <2> HIDE DEF n
    <2> QED BY <1>1, <1>2, <1>5, <2>1, <2>2, <2>3, ServedInv
  <1> QED BY <1>3, <1>4, <1>5

-----------------------------------------------------------------------------
(* What the streams and timers of one client do to it *)

LEMMA OpenInv == ASSUME IInv, NEW c \in Client, Open(c) PROVE IInv'
  <1> USE DEF IInv
  <1>1. PICK s \in clients[c].streams : Becomes(c, Opened(clients[c], s))
    BY DEF Open, Opened
  <1>2. UNCHANGED <<config, running, delayed, listening, current, starts, breaks>>
    BY DEF Open
  <1> DEFINE k == clients[c]
             n == Opened(k, s)
  <1>3. ClientOK(k) /\ breaks' \in 0..MaxBreaks
    BY <1>2 DEF TypeOK
  <1>4. /\ ClientOK(n) /\ n.conn = "connected" /\ n.gaveUp = k.gaveUp /\ n.cfg = k.cfg
        /\ n.timers = k.timers /\ \E t \in n.streams : t.open
        /\ (\E t \in k.streams : t.cfg = k.cfg) => \E t \in n.streams : t.cfg = k.cfg
    <2> HIDE DEF k
    <2> QED BY <1>1, <1>3, Opening DEF k
  <1> HIDE DEF k, n
  <1>5. Serves(k, config) => Serves(n, config)
    BY <1>4 DEF Serves
  <1> QED BY <1>1, <1>2, <1>3, <1>4, <1>5, ClientInv DEF k, n

\* A client in use that loses a stream has a timer then, whatever it reports.
LEMMA LosingService ==
  ASSUME NEW k, ClientOK(k), NEW s \in k.streams, NEW v
  PROVE  LET n == ScheduleReconnect(Without(k, s))
         IN /\ ClientOK(n) /\ (Serves(k, v) => Serves(n, v))
            /\ Cardinality(n.streams) + n.timers <= Cardinality(k.streams) + k.timers
  <1> DEFINE w == Without(k, s)
             n == ScheduleReconnect(w)
  <1>1. /\ ClientOK(w) /\ w.gaveUp = k.gaveUp /\ w.cfg = k.cfg /\ w.timers = k.timers
        /\ Cardinality(w.streams) = Cardinality(k.streams) - 1
    BY Losing
  <1> HIDE DEF w
  <1>2. /\ ClientOK(n) /\ n.streams = w.streams /\ n.gaveUp = w.gaveUp /\ n.cfg = w.cfg
        /\ n.timers \in {w.timers, w.timers + 1}
        /\ ~w.gaveUp => n.conn = "reconnecting" /\ n.timers > 0
    BY <1>1, Scheduling
  <1> HIDE DEF n
  <1>3. Serves(k, v) => Serves(n, v)
    BY <1>1, <1>2 DEF Serves
  <1>4. Cardinality(k.streams) \in Nat /\ k.timers \in Nat
    BY FS_CardinalityType DEF ClientOK, ClientType
  <1>5. Cardinality(n.streams) + n.timers <= Cardinality(k.streams) + k.timers
    BY <1>1, <1>2, <1>4
  <1> QED BY <1>2, <1>3, <1>5 DEF n, w

LEMMA BreakInv == ASSUME IInv, NEW c \in Client, Break(c) PROVE IInv'
  <1> USE SseAssumption DEF IInv
  <1>1. PICK s \in clients[c].streams : Becomes(c, ScheduleReconnect(Without(clients[c], s)))
    BY DEF Break
  <1>2. /\ breaks < MaxBreaks /\ breaks' = breaks + 1
        /\ UNCHANGED <<config, running, delayed, listening, current, starts>>
    BY DEF Break
  <1>3. ClientOK(clients[c]) /\ breaks' \in 0..MaxBreaks
    BY <1>2 DEF TypeOK
  <1> DEFINE n == ScheduleReconnect(Without(clients[c], s))
  <1>4. ClientOK(n) /\ (Serves(clients[c], config) => Serves(n, config))
    BY <1>1, <1>3, LosingService
  <1> HIDE DEF n
  <1> QED BY <1>1, <1>2, <1>3, <1>4, ClientInv DEF n

\* The refused client reports the refusal in place of the reconnection.
Refused(k, s) == [ScheduleReconnect(Without(k, s)) EXCEPT !.conn = "auth-failed"]

LEMMA Refusing ==
  ASSUME NEW k, ClientOK(k), NEW s \in k.streams, NEW v
  PROVE  LET n == Refused(k, s)
         IN /\ ClientOK(n) /\ (Serves(k, v) => Serves(n, v))
            /\ Cardinality(n.streams) + n.timers <= Cardinality(k.streams) + k.timers
  <1> DEFINE w == ScheduleReconnect(Without(k, s))
             n == Refused(k, s)
  <1>1. /\ ClientOK(w) /\ (Serves(k, v) => Serves(w, v))
        /\ Cardinality(w.streams) + w.timers <= Cardinality(k.streams) + k.timers
    BY LosingService
  <1>2. n = [w EXCEPT !.conn = "auth-failed"]
    BY DEF Refused
  <1> HIDE DEF w, n
  <1>3. w \in ClientType
    BY <1>1 DEF ClientOK
  <1>4. /\ n \in ClientType /\ n.conn = "auth-failed" /\ n.streams = w.streams
        /\ n.timers = w.timers /\ n.kept = w.kept /\ n.held = w.held
        /\ n.cfg = w.cfg /\ n.gaveUp = w.gaveUp
    BY <1>2, <1>3 DEF ClientType
  <1>5. ClientOK(n)
    BY <1>1, <1>4 DEF ClientOK
  <1>6. Serves(w, v) => Serves(n, v)
    BY <1>4 DEF Serves
  <1> QED BY <1>1, <1>4, <1>5, <1>6 DEF n

LEMMA RefuseInv == ASSUME IInv, NEW c \in Client, Refuse(c) PROVE IInv'
  <1> USE SseAssumption DEF IInv
  <1>1. PICK s \in clients[c].streams : Becomes(c, Refused(clients[c], s))
    BY DEF Refuse, Refused
  <1>2. /\ breaks < MaxBreaks /\ breaks' = breaks + 1
        /\ UNCHANGED <<config, running, delayed, listening, current, starts>>
    BY DEF Refuse
  <1>3. ClientOK(clients[c]) /\ breaks' \in 0..MaxBreaks
    BY <1>2 DEF TypeOK
  <1>4. /\ ClientOK(Refused(clients[c], s))
        /\ Serves(clients[c], config) => Serves(Refused(clients[c], s), config)
    BY <1>1, <1>3, Refusing
  <1> QED BY <1>1, <1>2, <1>3, <1>4, ClientInv

\* A stream for a timer.
Resumed(k, forgotten) == StartStream([k EXCEPT !.timers = @ - 1, !.kept = @ /\ forgotten])

LEMMA Resuming ==
  ASSUME NEW k, ClientOK(k), NEW forgotten \in BOOLEAN, NEW v,
         IF forgotten THEN k.timers > (IF k.kept THEN 1 ELSE 0) ELSE k.kept
  PROVE  LET n == Resumed(k, forgotten)
         IN /\ ClientOK(n) /\ (Serves(k, v) => Serves(n, v))
            /\ Cardinality(n.streams) + n.timers = Cardinality(k.streams) + k.timers
  <1> DEFINE few == k.timers - 1
             kp  == k.kept /\ forgotten
             w   == [k EXCEPT !.timers = few, !.kept = kp]
             n   == Resumed(k, forgotten)
  <1>1. /\ k \in ClientType /\ k.timers \in Nat /\ k.kept \in BOOLEAN /\ IsFiniteSet(k.streams)
        /\ (k.kept => k.timers > 0) /\ (k.held # 0 => \E s \in k.streams : s.id = k.held)
        /\ \A s, t \in k.streams : s.id = t.id => s = t
    BY DEF ClientOK, ClientType
  <1>2. n = StartStream(w)
    BY <1>1 DEF Resumed, ClientType
  <1>3. few \in Nat /\ few + 1 = k.timers /\ (kp => few > 0)
    <2>1. CASE forgotten
      BY <1>1, <2>1
    <2>2. CASE ~forgotten
      BY <1>1, <2>2
    <2> QED BY <2>1, <2>2
  <1>4. kp \in BOOLEAN
    BY <1>1
  <1> HIDE DEF few, kp
  <1>5. /\ w \in ClientType /\ w.timers = few /\ w.kept = kp /\ w.streams = k.streams
        /\ w.held = k.held /\ w.conn = k.conn /\ w.gaveUp = k.gaveUp /\ w.cfg = k.cfg
    BY <1>1, <1>3, <1>4 DEF ClientType
  <1> HIDE DEF w
  <1>6. ClientOK(w)
    BY <1>1, <1>3, <1>5 DEF ClientOK
  <1>7. /\ ClientOK(n) /\ n.conn \in {"connecting", "reconnecting"}
        /\ n.gaveUp = w.gaveUp /\ n.cfg = w.cfg /\ n.timers = w.timers
        /\ \E s \in n.streams : s.cfg = n.cfg
        /\ Cardinality(n.streams) = Cardinality(w.streams) + 1
    BY <1>2, <1>6, Starting
  <1> HIDE DEF n
  <1>8. Serves(k, v) => Serves(n, v)
    BY <1>5, <1>7 DEF Serves
  <1>9. Cardinality(k.streams) \in Nat
    BY <1>1, FS_CardinalityType
  <1>10. Cardinality(n.streams) + n.timers = Cardinality(k.streams) + k.timers
    BY <1>3, <1>5, <1>7, <1>9
  <1> QED BY <1>7, <1>8, <1>10 DEF n

LEMMA ReconnectInv == ASSUME IInv, NEW c \in Client, Reconnect(c) PROVE IInv'
  <1> USE DEF IInv
  <1>1. PICK f \in BOOLEAN :
          /\ IF f THEN clients[c].timers > (IF clients[c].kept THEN 1 ELSE 0)
                  ELSE clients[c].kept
          /\ Becomes(c, Resumed(clients[c], f))
    BY DEF Reconnect, Resumed
  <1>2. UNCHANGED <<config, running, delayed, listening, current, starts, breaks>>
    BY DEF Reconnect
  <1>3. ClientOK(clients[c]) /\ breaks' \in 0..MaxBreaks
    BY <1>2 DEF TypeOK
  <1>4. /\ ClientOK(Resumed(clients[c], f))
        /\ Serves(clients[c], config) => Serves(Resumed(clients[c], f), config)
    BY <1>1, <1>3, Resuming
  <1> QED BY <1>1, <1>2, <1>3, <1>4, ClientInv

LEMMA StutterInv == ASSUME IInv, UNCHANGED vars PROVE IInv'
  BY DEF IInv, vars, TypeOK, InService, Pending, Live

LEMMA NextInv == IInv /\ [Next]_vars => IInv'
  <1> SUFFICES ASSUME IInv, [Next]_vars PROVE IInv'
    OBVIOUS
  <1>1. CASE Start
    BY <1>1, StartInv
  <1>2. CASE Stop
    BY <1>2, StopInv
  <1>3. CASE DelayedStart
    BY <1>3, DelayedStartInv
  <1>4. CASE Configure
    BY <1>4, ConfigureInv
  <1>5. ASSUME NEW c \in Client, Open(c) \/ Break(c) \/ Refuse(c) \/ Reconnect(c) PROVE IInv'
    BY <1>5, OpenInv, BreakInv, RefuseInv, ReconnectInv
  <1>6. CASE UNCHANGED vars
    BY <1>6, StutterInv
  <1> QED BY <1>1, <1>2, <1>3, <1>4, <1>5, <1>6 DEF Next

-----------------------------------------------------------------------------
(* The results *)

\* Every stream that a client has forgotten still has a number of its own, and a
\* remembered timer is one that is set.
THEOREM ClientTypes == Spec => []TypeOK
  <1>1. IInv => TypeOK
    BY DEF IInv
  <1> QED BY <1>1, InitInv, NextInv, PTL DEF Spec

\* Once it listens, the client in use has the current configuration and a stream with
\* it, or a timer that will open one.
THEOREM CurrentConfigIsServed == Spec => []NewestConfigServed
  <1>1. IInv => NewestConfigServed
    BY DEF IInv, InService, Serves, NewestConfigServed
  <1> QED BY <1>1, InitInv, NextInv, PTL DEF Spec

\* What is reported as connected has an open stream.
THEOREM ConnectedIsOpen == Spec => []ConnectedMeansOpen
  <1>1. IInv => ConnectedMeansOpen
    BY DEF IInv, InService, Serves, ConnectedMeansOpen
  <1> QED BY <1>1, InitInv, NextInv, PTL DEF Spec

\* A step that neither changes the configuration nor runs a delayed start leaves every
\* client at most the streams and timers it had.
LEMMA LoadStep ==
  ASSUME TypeOK, [Next]_vars, config' = config, delayed' = delayed, NEW c \in Client
  PROVE  Load(c)' <= Load(c)
  <1>1. ClientOK(clients[c]) /\ clients[c] \in ClientType
    BY DEF TypeOK
  <1>2. /\ Cardinality(clients[c].streams) \in Nat /\ clients[c].timers \in Nat
        /\ Load(c) = Cardinality(clients[c].streams) + clients[c].timers
        /\ Load(c)' = Cardinality(clients'[c].streams) + clients'[c].timers
    BY <1>1, FS_CardinalityType DEF ClientOK, ClientType, Load
  <1>3. CASE clients'[c] = clients[c]
    BY <1>2, <1>3
  <1>4. ASSUME NEW k, ClientOK(k), Becomes(c, k),
               Cardinality(k.streams) + k.timers <= Cardinality(clients[c].streams) + clients[c].timers
        PROVE  Load(c)' <= Load(c)
    BY <1>2, <1>4, BecomingOK
  <1>5. ASSUME NEW d \in Client, NEW k, Becomes(d, k), d # c
        PROVE  clients'[c] = clients[c]
    BY <1>5 DEF Becomes, TypeOK
  <1>6. CASE Start \/ DelayedStart
    BY <1>6 DEF Start, DelayedStart, TypeOK
  <1>7. CASE Configure
    BY <1>7 DEF Configure, TypeOK
  <1>8. CASE Stop
    <2>1. CASE current = 0
      BY <1>3, <1>8, <2>1 DEF Stop
    <2>2. CASE current # 0
      <3>1. current \in Client /\ Becomes(current, Disconnect(clients[current]))
        BY <1>8, <2>2 DEF Stop, TypeOK, Client
      <3>2. CASE current = c
        <4> DEFINE n == Disconnect(clients[c])
        <4>1. /\ ClientOK(n) /\ n.timers <= clients[c].timers
              /\ Cardinality(n.streams) <= Cardinality(clients[c].streams)
          BY <1>1, Disconnecting
        <4> HIDE DEF n
        <4>2. Cardinality(n.streams) \in Nat /\ n.timers \in Nat
          BY <4>1, FS_CardinalityType DEF ClientOK, ClientType
        <4>3. Becomes(c, n)
          BY <3>1, <3>2 DEF n
        <4> QED BY <1>2, <1>4, <4>1, <4>2, <4>3
      <3> QED BY <1>3, <1>5, <3>1, <3>2
    <2> QED BY <2>1, <2>2
  <1>9. ASSUME NEW d \in Client, Open(d) \/ Break(d) \/ Refuse(d) \/ Reconnect(d), d # c
        PROVE  clients'[c] = clients[c]
    BY <1>5, <1>9 DEF Open, Break, Refuse, Reconnect
  <1>10. CASE Open(c)
    <2>1. PICK s \in clients[c].streams : Becomes(c, Opened(clients[c], s))
      BY <1>10 DEF Open, Opened
    <2> DEFINE n == Opened(clients[c], s)
    <2>2. /\ ClientOK(n) /\ n.timers = clients[c].timers
          /\ Cardinality(n.streams) <= Cardinality(clients[c].streams)
      BY <1>1, <2>1, Opening
    <2> HIDE DEF n
    <2>3. Cardinality(n.streams) \in Nat
      BY <2>2, FS_CardinalityType DEF ClientOK
    <2>4. Becomes(c, n)
      BY <2>1 DEF n
    <2> QED BY <1>2, <1>4, <2>2, <2>3, <2>4
  <1>11. CASE Break(c)
    <2>1. PICK s \in clients[c].streams : Becomes(c, ScheduleReconnect(Without(clients[c], s)))
      BY <1>11 DEF Break
    <2> QED BY <1>1, <1>4, <2>1, LosingService
  <1>12. CASE Refuse(c)
    <2>1. PICK s \in clients[c].streams : Becomes(c, Refused(clients[c], s))
      BY <1>12 DEF Refuse, Refused
    <2> QED BY <1>1, <1>4, <2>1, Refusing
  <1>13. CASE Reconnect(c)
    <2>1. PICK f \in BOOLEAN :
            /\ IF f THEN clients[c].timers > (IF clients[c].kept THEN 1 ELSE 0)
                    ELSE clients[c].kept
            /\ Becomes(c, Resumed(clients[c], f))
      BY <1>13 DEF Reconnect, Resumed
    <2> DEFINE n == Resumed(clients[c], f)
    <2>2. /\ ClientOK(n)
          /\ Cardinality(n.streams) + n.timers = Cardinality(clients[c].streams) + clients[c].timers
      BY <1>1, <2>1, Resuming
    <2> HIDE DEF n
    <2>3. Becomes(c, n)
      BY <2>1 DEF n
    <2> QED BY <1>2, <1>4, <2>2, <2>3
  <1>14. CASE UNCHANGED vars
    BY <1>3, <1>14 DEF vars
  <1> QED BY <1>3, <1>6, <1>7, <1>8, <1>9, <1>10, <1>11, <1>12, <1>13, <1>14 DEF Next

\* Losing streams and reconnecting never multiplies the streams and timers of a client.
THEOREM ReconnectsKeepTheLoad == Spec => ReconnectsDoNotMultiply
  <1> DEFINE A == \A c \in Client : Load(c)' > Load(c) => config' # config \/ delayed' # delayed
  <1>1. IInv /\ [Next]_vars => [A]_vars
    <2> SUFFICES ASSUME IInv, [Next]_vars, NEW c \in Client, Load(c)' > Load(c),
                        config' = config, delayed' = delayed
                 PROVE  FALSE
      OBVIOUS
    <2>1. IInv'
      BY NextInv
    <2>2. Load(c)' <= Load(c)
      BY LoadStep DEF IInv
    <2>3. Load(c) \in Nat /\ Load(c)' \in Nat
      <3>1. ClientOK(clients[c]) /\ ClientOK(clients'[c])
        BY <2>1 DEF IInv, TypeOK
      <3>2. ASSUME NEW k, ClientOK(k) PROVE Cardinality(k.streams) + k.timers \in Nat
        <4>1. Cardinality(k.streams) \in Nat /\ k.timers \in Nat
          BY <3>2, FS_CardinalityType DEF ClientOK, ClientType
        <4> QED BY <4>1
      <3> QED BY <3>1, <3>2 DEF Load
    <2> QED BY <2>2, <2>3
  <1> QED BY InitInv, NextInv, <1>1, PTL DEF Spec, ReconnectsDoNotMultiply

=============================================================================
