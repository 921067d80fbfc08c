------------------------------ MODULE SseClient ------------------------------
(***************************************************************************)
(* The connection to the cloud's event stream: cloud-sse-client.ts, and the *)
(* parts of auto-sync.ts that start, reconfigure and stop it.              *)
(*                                                                         *)
(* A client object remembers the abort controller of one stream and one     *)
(* reconnect timer.  Streams and timers it has forgotten go on regardless,  *)
(* so that a client may have several of each.  The rejection of an aborted  *)
(* stream is a microtask: it runs after the statements that aborted it and  *)
(* before any other event, so it belongs to the action that aborts.        *)
(***************************************************************************)
EXTENDS Naturals, FiniteSets

CONSTANTS
  MaxClients,  \* bound: client objects, one after the other
  MaxConfig,   \* bound: changes of the configuration; 0 is an empty one
  MaxStarts,   \* bound: starts of the background sync
  MaxBreaks    \* bound: streams that end, fail or are refused

ASSUME SseAssumption ==
  /\ MaxClients \in Nat /\ MaxConfig \in Nat \ {0} /\ MaxStarts \in Nat /\ MaxBreaks \in Nat

VARIABLES
  config,    \* the configuration of the cloud connection
  running,   \* is the background sync running?
  delayed,   \* starts of the event stream that wait for their 10 s
  listening, \* has a listener for configuration changes been registered?
  current,   \* the global client, 0 if there is none
  clients,   \* clients[c]: a client object
  starts, breaks

vars == <<config, running, delayed, listening, current, clients, starts, breaks>>

Client == 1..MaxClients

\* held: the stream whose abort controller is remembered, 0 if it has ended.
\* kept: reconnectTimer is one of the timers that are set.
New(v) == [conn |-> "disconnected", gaveUp |-> FALSE, cfg |-> v,
           streams |-> {}, held |-> 0, timers |-> 0, kept |-> FALSE]

Init ==
  /\ config \in {0, 1} /\ running = FALSE /\ delayed = 0 /\ listening = FALSE
  /\ current = 0 /\ clients = [c \in Client |-> New(0)]
  /\ starts = 0 /\ breaks = 0

-----------------------------------------------------------------------------
(* The methods of a client k *)

\* startStream; a number that no stream has stands for the new abort controller.
StartStream(k) ==
  LET i == CHOOSE n \in 1..(Cardinality(k.streams) + 1) : \A s \in k.streams : s.id # n
  IN [k EXCEPT !.conn = IF @ = "disconnected" THEN "connecting" ELSE "reconnecting",
               !.streams = @ \cup {[id |-> i, cfg |-> k.cfg, open |-> FALSE]},
               !.held = i]

\* Bug: a client whose stream has failed waits for a change of the configuration.
NoReconnect(k) == IF k.gaveUp THEN k ELSE [k EXCEPT !.conn = "reconnecting"]

\* Bug: both the end of a stream and its error handler set a timer.
TwoReconnects(k) ==
  IF k.gaveUp THEN k
  ELSE [k EXCEPT !.conn = "reconnecting", !.timers = @ + 2, !.kept = TRUE]

\* Bug: the state on the screen is left as it was.
QuietReconnect(k) == IF k.gaveUp THEN k ELSE [k EXCEPT !.timers = @ + 1, !.kept = TRUE]

\* scheduleReconnect
ScheduleReconnect(k) ==
  IF k.gaveUp THEN k
  ELSE [k EXCEPT !.conn = "reconnecting", !.timers = @ + 1, !.kept = TRUE]

\* Bug: the handle of the cleared timer is not reset.
StaleHandle(k) ==
  [k EXCEPT !.streams = {s \in @ : s.id # k.held}, !.held = 0,
            !.timers = IF k.kept THEN @ - 1 ELSE @]

\* cleanup
Cleanup(k) ==
  [k EXCEPT !.streams = {s \in @ : s.id # k.held}, !.held = 0,
            !.timers = IF k.kept THEN @ - 1 ELSE @, !.kept = FALSE]

Disconnect(k) == [Cleanup([k EXCEPT !.gaveUp = TRUE]) EXCEPT !.conn = "disconnected"]

Connect(k) ==
  IF k.conn \in {"connected", "connecting"} THEN k
  ELSE StartStream([k EXCEPT !.gaveUp = FALSE])

Changed(k, v) == v # k.cfg /\ k.conn # "disconnected"

\* Bug: the configuration is stored after the stream has been started.
LateConfig(k, v) ==
  IF Changed(k, v) THEN [StartStream(Cleanup(k)) EXCEPT !.cfg = v]
                   ELSE [k EXCEPT !.cfg = v]

\* updateConfig
UpdateConfig(k, v) ==
  IF Changed(k, v) THEN StartStream([Cleanup(k) EXCEPT !.cfg = v])
                   ELSE [k EXCEPT !.cfg = v]

\* k after the rejection of the stream that a change to v has aborted.
Rejected(old, v, k) ==
  IF Changed(old, v) /\ old.held # 0 THEN ScheduleReconnect(k) ELSE k

\* startCloudSse for a client that exists.
Restart(k, v) ==
  LET u == UpdateConfig(k, v) IN Rejected(k, v, IF u.conn = "connected" THEN u ELSE Connect(u))

Becomes(c, k) == clients' = [clients EXCEPT ![c] = k]

-----------------------------------------------------------------------------
(* The background sync *)

Start ==
  /\ ~running /\ starts < MaxStarts
  /\ running' = TRUE /\ delayed' = delayed + 1 /\ starts' = starts + 1
  /\ UNCHANGED <<config, listening, current, clients, breaks>>

\* stop leaves the delayed starts and the listener in place.
Stop ==
  /\ running
  /\ running' = FALSE /\ current' = 0
  /\ IF current = 0 THEN UNCHANGED clients ELSE Becomes(current, Disconnect(clients[current]))
  /\ UNCHANGED <<config, delayed, listening, starts, breaks>>

\* startCloudSse when there is no client.
Create(v) ==
  \E c \in Client :
    /\ clients[c] = New(0) /\ \A d \in Client : d < c => clients[d] # New(0)
    /\ Becomes(c, Connect(New(v))) /\ current' = c

\* 10 s after a start: with a configuration start the stream; listen in any case.
DelayedStart ==
  /\ delayed > 0
  /\ delayed' = delayed - 1 /\ listening' = TRUE
  /\ IF config = 0 THEN UNCHANGED <<clients, current>>
     ELSE IF current = 0 THEN Create(config)
     ELSE /\ Becomes(current, Restart(clients[current], config))
          /\ UNCHANGED current
  /\ UNCHANGED <<config, running, starts, breaks>>

\* Someone edits the cloud settings.
Configure ==
  /\ config < MaxConfig
  /\ config' = config + 1
  /\ IF ~listening THEN UNCHANGED <<clients, current>>
     ELSE IF current = 0 THEN Create(config')
     ELSE LET k == clients[current]
          IN /\ Becomes(current, Rejected(k, config', UpdateConfig(k, config')))
             /\ UNCHANGED current
  /\ UNCHANGED <<running, delayed, listening, starts, breaks>>

-----------------------------------------------------------------------------
(* Streams and timers *)

Without(k, s) == [k EXCEPT !.streams = @ \ {s}, !.held = IF @ = s.id THEN 0 ELSE @]

\* The cloud accepts the stream s of client c.
Open(c) ==
  \E s \in clients[c].streams :
    /\ ~s.open
    /\ Becomes(c, [clients[c] EXCEPT !.conn = "connected",
                                     !.streams = (@ \ {s}) \cup {[s EXCEPT !.open = TRUE]}])
    /\ UNCHANGED <<config, running, delayed, listening, current, starts, breaks>>

\* The request fails, or the stream breaks off or ends.
Break(c) ==
  \E s \in clients[c].streams :
    /\ breaks < MaxBreaks /\ breaks' = breaks + 1
    /\ Becomes(c, ScheduleReconnect(Without(clients[c], s)))
    /\ UNCHANGED <<config, running, delayed, listening, current, starts>>

\* The cloud refuses the API key: a state of its own and a slow timer.
Refuse(c) ==
  \E s \in clients[c].streams :
    /\ ~s.open /\ breaks < MaxBreaks /\ breaks' = breaks + 1
    /\ Becomes(c, [ScheduleReconnect(Without(clients[c], s)) EXCEPT !.conn = "auth-failed"])
    /\ UNCHANGED <<config, running, delayed, listening, current, starts>>

\* A timer fires, the one remembered or a forgotten one; it does not ask whether
\* the client has been disconnected.
Reconnect(c) ==
  \E forgotten \in BOOLEAN :
    LET k == clients[c] IN
    /\ IF forgotten THEN k.timers > (IF k.kept THEN 1 ELSE 0) ELSE k.kept
    /\ Becomes(c, StartStream([k EXCEPT !.timers = @ - 1, !.kept = @ /\ forgotten]))
    /\ UNCHANGED <<config, running, delayed, listening, current, starts, breaks>>

-----------------------------------------------------------------------------
Next == \/ Start \/ Stop \/ DelayedStart \/ Configure
        \/ \E c \in Client : Open(c) \/ Break(c) \/ Refuse(c) \/ Reconnect(c)

\* Timers fire, and a request that nothing ends is answered in the end.
Fairness == /\ WF_vars(DelayedStart)
            /\ \A c \in Client : WF_vars(Open(c)) /\ WF_vars(Reconnect(c))

Spec == Init /\ [][Next]_vars /\ Fairness
-----------------------------------------------------------------------------
Live    == current # 0
Load(c) == Cardinality(clients[c].streams) + clients[c].timers

StreamType == [id : Nat \ {0}, cfg : 0..MaxConfig, open : BOOLEAN]
ClientType ==
  [conn : {"disconnected", "connecting", "connected", "reconnecting", "auth-failed"},
   gaveUp : BOOLEAN, cfg : 0..MaxConfig, streams : SUBSET StreamType, held : Nat,
   timers : Nat, kept : BOOLEAN]

ClientOK(k) ==
  /\ k \in ClientType /\ IsFiniteSet(k.streams) /\ (k.kept => k.timers > 0)
  /\ k.held # 0 => \E s \in k.streams : s.id = k.held
  /\ \A s, t \in k.streams : s.id = t.id => s = t

TypeOK ==
  /\ config \in 0..MaxConfig /\ running \in BOOLEAN /\ delayed \in 0..MaxStarts
  /\ listening \in BOOLEAN /\ current \in 0..MaxClients
  /\ clients \in [Client -> ClientType] /\ \A c \in Client : ClientOK(clients[c])
  /\ starts \in 0..MaxStarts /\ breaks \in 0..MaxBreaks

\* Safety: once the client listens it has the current configuration, and a stream
\* with it or a timer that will open one, whatever has been forgotten.
NewestConfigServed ==
  (Live /\ listening) =>
     /\ clients[current].cfg = config
     /\ \/ \E s \in clients[current].streams : s.cfg = config
        \/ clients[current].timers > 0

\* Safety: what the screen calls connected has an open stream.
ConnectedMeansOpen ==
  (Live /\ clients[current].conn = "connected") => \E s \in clients[current].streams : s.open

\* Action property: a client gains streams and timers only when it is started or
\* reconfigured; losing a stream and reconnecting never multiplies them.
ReconnectsDoNotMultiply ==
  [][\A c \in Client : Load(c)' > Load(c) => config' # config \/ delayed' # delayed]_vars

\* Liveness: when streams have stopped breaking, a client in use is connected, with
\* a stream of the current configuration.
EventuallyConnected ==
  <>[](Live => /\ clients[current].conn = "connected"
               /\ \E s \in clients[current].streams : s.open /\ s.cfg = config)
=============================================================================
