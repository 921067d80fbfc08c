------------------------------- MODULE PlcLink -------------------------------
(***************************************************************************)
(* The connection to the PLC of one MCM: a PlcClient (plc-client.ts) with   *)
(* its tag reader (tag-reader.ts), as the registry (mcm-registry.ts) holds  *)
(* it, from its creation to its disposal.  connect() and disconnect() wait  *)
(* 300 ms before they destroy the old tag handles, and connect() waits for  *)
(* every tag it creates; operators, the reconnect timer and the read loop   *)
(* come in between.                                                        *)
(*                                                                         *)
(* The PLC is external.  Handles of output writes, the network poller and   *)
(* the second reader of large programs are left out: the first reader alone *)
(* decides what the status of the connection is.                           *)
(***************************************************************************)
EXTENDS Naturals, FiniteSets

CONSTANTS
  Tag,     \* the tags of the IOs of the MCM
  Loads,   \* the sets of them that may be loaded: none, when no IO has a name
  Call,    \* calls of connect and disconnect that may overlap
  Cycles,  \* CONNECTION_LOSS_MIN_CYCLES
  MaxAsks, \* bound: what operators do
  MaxTurns \* bound: how often the PLC changes its state

ASSUME PlcLinkAssumption ==
  /\ IsFiniteSet(Tag) /\ Loads \subseteq SUBSET Tag /\ Cycles \in Nat \ {0}
  /\ MaxAsks \in Nat /\ MaxTurns \in Nat

VARIABLES
  plc,     \* "up", "down", or "wrong": reachable, with a program that has other tags
  \* the client
  loaded,  \* ioTags
  status,  \* connectionStatus
  timer,   \* is a reconnect scheduled?
  ever,    \* hasEverConnectedSuccessfully
  calls,   \* calls[c]: what call c is waiting for
  disposed,
  \* its reader
  held,    \* the tags in its map, each with a native handle
  reading, \* isReading: its read loop runs
  old,     \* loops that were aborted and have not finished their last cycle
  isConn,  \* isConnected, as the last verdict left it
  fails,   \* consecutiveErrorCycles, up to Cycles
  \* bounds and history
  asks, turns,
  wanted,  \* should the client be connected, as far as it can know?
  leaked,  \* has a live handle dropped out of the map?
  crossed, \* has a call begun, or the client been disposed of, during another call?
  late     \* has an aborted loop reported a connection, and no call said more since?

reader == <<held, reading, old, isConn, fails>>
history == <<leaked, crossed, late>>
vars == <<plc, loaded, status, timer, ever, calls, disposed, reader, asks, turns, wanted, history>>

Idle    == [pc |-> "idle", todo |-> {}, got |-> {}, unreachable |-> FALSE]
At(pc)  == {c \in Call : calls[c].pc = pc}
Busy    == At("idle") # Call
Becomes(c, call) == calls' = [calls EXCEPT ![c] = call]

Init ==
  /\ plc \in {"up", "down", "wrong"}
  /\ loaded = {} /\ status = "disconnected" /\ timer = FALSE /\ ever = FALSE
  /\ calls = [c \in Call |-> Idle] /\ disposed = FALSE
  /\ held = {} /\ reading = FALSE /\ old = 0 /\ isConn = TRUE /\ fails = 0
  /\ asks = 0 /\ turns = 0 /\ wanted = FALSE /\ leaked = FALSE /\ crossed = FALSE
  /\ late = FALSE

-----------------------------------------------------------------------------
\* The network fails or heals, a program is downloaded.
Turn ==
  /\ turns < MaxTurns /\ turns' = turns + 1
  /\ plc' \in {"up", "down", "wrong"} \ {plc}
  /\ UNCHANGED <<loaded, status, timer, ever, calls, disposed, reader, asks, wanted, history>>

-----------------------------------------------------------------------------
(* connect *)

\* Bug: a loop that has been stopped counts as running.
StopAgain == UNCHANGED reading /\ old' = old + 1

\* stopReading: the loop goes on until its cycle ends.
Stop == reading' = FALSE /\ old' = IF reading THEN old + 1 ELSE old

\* With the old handles gone, the tags that are loaded now get handles of their own.  A
\* client without any is called connected at once, and nothing is read.
Begin(c, tags) ==
  /\ late' = FALSE
  /\ IF tags = {} THEN Becomes(c, Idle) /\ status' = "connected"
     ELSE Becomes(c, [Idle EXCEPT !.pc = "creating", !.todo = tags]) /\ status' = "connecting"

\* The call up to its first await.  With tags in the map it first resets the reader,
\* and until that is done the status is what it was.
Connecting(c, tags) ==
  /\ crossed' = (crossed \/ Busy)
  /\ IF held # {}
     THEN Becomes(c, [Idle EXCEPT !.pc = "reset"]) /\ Stop /\ UNCHANGED <<status, late>>
     ELSE Begin(c, tags) /\ UNCHANGED <<reading, old>>
  /\ UNCHANGED <<held, isConn, fails>>

\* connectMcm, from the connect route, the start of the server or a change of the
\* address, with the tags loaded just before.  A client that is connecting refuses.
Ask(c) ==
  /\ calls[c].pc = "idle" /\ ~disposed
  /\ asks < MaxAsks /\ asks' = asks + 1
  /\ loaded' \in Loads
  /\ IF status = "connecting" THEN UNCHANGED <<wanted, calls, status, reader, crossed, late>>
     ELSE wanted' = TRUE /\ Connecting(c, loaded')
  /\ UNCHANGED <<plc, timer, ever, disposed, turns, leaked>>

TimerFires ==
  /\ timer /\ timer' = FALSE
  /\ IF status = "connecting" THEN UNCHANGED <<calls, status, reader, crossed, late>>
     ELSE \E c \in At("idle") : Connecting(c, loaded)
  /\ UNCHANGED <<plc, loaded, ever, disposed, asks, turns, wanted, leaked>>

\* Bug: the tags of the last connection stay in the map.
KeepHandles == UNCHANGED held

\* destroyAllHandles, at the end of resetForReconnection.
DestroyAll == held' = {}

ResetDone(c) ==
  /\ calls[c].pc = "reset"
  /\ DestroyAll /\ fails' = 0
  /\ Begin(c, loaded)
  /\ UNCHANGED <<plc, loaded, timer, ever, disposed, reading, old, isConn, asks, turns, wanted,
                 leaked, crossed>>

\* createTag, for one tag.  A second handle for a tag takes the first one's place.
Create(c, t) ==
  /\ calls[c].pc = "creating" /\ t \in calls[c].todo
  /\ LET k == [calls[c] EXCEPT !.todo = @ \ {t}]
     IN IF plc = "up"
        THEN /\ Becomes(c, [k EXCEPT !.got = @ \cup {t}])
             /\ held' = held \cup {t} /\ leaked' = (leaked \/ t \in held)
        ELSE /\ Becomes(c, [k EXCEPT !.unreachable = @ \/ plc = "down"])
             /\ UNCHANGED <<held, leaked>>
  /\ UNCHANGED <<plc, loaded, status, timer, ever, disposed, reading, old, isConn, fails, asks,
                 turns, wanted, crossed, late>>

\* Bug: a PLC that cannot be reached is left alone.
OnlyWhenSeen(unreachable) == ever /\ ~unreachable

\* After a failed attempt: unreachable, or it had the right program before.
Retried(unreachable) == unreachable \/ ever

\* All tags have been tried.  Without a single one the attempt has failed, and it is
\* repeated unless the PLC answers and has never had these tags.  A reader that does not
\* read yet starts to, with its count of failed cycles at zero.
ConnectEnds(c) ==
  /\ calls[c].pc = "creating" /\ calls[c].todo = {}
  /\ Becomes(c, Idle) /\ late' = FALSE
  /\ IF calls[c].got = {}
     THEN /\ status' = "error"
          /\ timer' = (timer \/ (Retried(calls[c].unreachable) /\ ~disposed))
          /\ wanted' = (wanted /\ (calls[c].unreachable \/ ever))
          /\ UNCHANGED <<ever, reading, fails>>
     ELSE /\ status' = "connected" /\ ever' = TRUE
          /\ reading' = (reading \/ held # {})
          /\ fails' = IF ~reading /\ held # {} THEN 0 ELSE fails
          /\ UNCHANGED <<timer, wanted>>
  /\ UNCHANGED <<plc, loaded, disposed, held, old, isConn, asks, turns, leaked, crossed>>

-----------------------------------------------------------------------------
(* disconnect and dispose *)

Disconnect(c) ==
  /\ calls[c].pc = "idle" /\ ~disposed
  /\ asks < MaxAsks /\ asks' = asks + 1
  /\ wanted' = FALSE /\ crossed' = (crossed \/ Busy)
  /\ timer' = FALSE /\ Stop
  /\ Becomes(c, [Idle EXCEPT !.pc = "closing"])
  /\ UNCHANGED <<plc, loaded, status, ever, disposed, held, isConn, fails, turns, leaked, late>>

\* Bug: the status is left to the reader, which has nothing more to report.
Unsaid(c) ==
  /\ calls[c].pc = "closing"
  /\ DestroyAll /\ fails' = 0
  /\ Becomes(c, Idle)
  /\ UNCHANGED <<plc, loaded, status, timer, ever, disposed, reading, old, isConn, asks, turns,
                 wanted, history>>

Closed(c) ==
  /\ calls[c].pc = "closing"
  /\ DestroyAll /\ fails' = 0
  /\ Becomes(c, Idle) /\ status' = "disconnected" /\ late' = FALSE
  /\ UNCHANGED <<plc, loaded, timer, ever, disposed, reading, old, isConn, asks, turns, wanted,
                 leaked, crossed>>

\* disposeMcm: the MCM is removed, or its address changes while it is not connected.
\* The calls that are under way go on with the client they began with.
Dispose ==
  /\ ~disposed /\ disposed' = TRUE
  /\ asks < MaxAsks /\ asks' = asks + 1
  /\ wanted' = FALSE /\ crossed' = (crossed \/ Busy)
  /\ timer' = FALSE /\ Stop /\ held' = {} /\ loaded' = {}
  /\ UNCHANGED <<plc, status, ever, calls, isConn, fails, turns, leaked, late>>

-----------------------------------------------------------------------------
(* The read loop *)

\* connectionVerdict and handleConnectionStatusChange after a cycle with a success.
Succeeds ==
  /\ fails' = 0 /\ isConn' = TRUE
  /\ IF isConn \/ disposed THEN UNCHANGED <<status, timer>>
     ELSE status' = "connected" /\ timer' = FALSE

\* Bug: the count of failed cycles starts again with every cycle.
StartsAgain == fails' = 1 /\ UNCHANGED <<isConn, status, timer>>

\* The same after a cycle in which every read has failed.  The PLC is lost after enough
\* of them, if five seconds have passed.
AllFail ==
  \/ /\ fails' = IF fails < Cycles THEN fails + 1 ELSE fails
     /\ UNCHANGED <<isConn, status, timer>>
  \/ /\ isConn /\ fails + 1 >= Cycles
     /\ fails' = Cycles /\ isConn' = FALSE
     /\ IF disposed THEN UNCHANGED <<status, timer>> ELSE status' = "error" /\ timer' = TRUE

LoopCycle ==
  /\ reading /\ held # {}
  /\ IF plc = "up" THEN Succeeds ELSE AllFail
  /\ UNCHANGED <<plc, loaded, ever, calls, disposed, held, reading, old, asks, turns, wanted,
                 history>>

\* The last cycle of an aborted loop ends.  It has read nothing more, or its reads have
\* failed, or one of them was answered before the PLC or the handles went: an answer
\* counts when the last read has timed out, and nobody looks at the abort again.
OldLoopEnds ==
  /\ old > 0 /\ old' = old - 1
  /\ \/ UNCHANGED <<isConn, fails, status, timer, late>>
     \/ Succeeds /\ late' = (late \/ status' # status)
     \/ AllFail /\ UNCHANGED late
  /\ UNCHANGED <<plc, loaded, ever, calls, disposed, held, reading, asks, turns, wanted, leaked,
                 crossed>>

-----------------------------------------------------------------------------
Next == \/ Turn \/ TimerFires \/ Dispose \/ LoopCycle \/ OldLoopEnds
        \/ \E c \in Call : \/ Ask(c) \/ ResetDone(c) \/ ConnectEnds(c)
                           \/ \E t \in Tag : Create(c, t)
                           \/ Disconnect(c) \/ Closed(c)

\* Timers fire, and what waits for the native library ends: every wait has a timeout.
Fairness ==
  /\ WF_vars(TimerFires) /\ WF_vars(LoopCycle) /\ WF_vars(OldLoopEnds)
  /\ \A c \in Call : /\ WF_vars(ResetDone(c)) /\ WF_vars(ConnectEnds(c)) /\ WF_vars(Closed(c))
                     /\ \A t \in Tag : WF_vars(Create(c, t))

Spec == Init /\ [][Next]_vars /\ Fairness
-----------------------------------------------------------------------------
CallType == [pc : {"idle", "reset", "creating", "closing"}, todo : SUBSET Tag,
             got : SUBSET Tag, unreachable : BOOLEAN]

TypeOK ==
  /\ plc \in {"up", "down", "wrong"}
  /\ loaded \subseteq Tag /\ status \in {"disconnected", "connecting", "connected", "error"}
  /\ calls \in [Call -> CallType]
  /\ held \subseteq Tag /\ old \in 0..(MaxAsks + MaxTurns) /\ fails \in 0..Cycles
  /\ {timer, ever, disposed, reading, isConn, wanted, leaked, crossed, late} \subseteq BOOLEAN
  /\ asks \in 0..MaxAsks /\ turns \in 0..MaxTurns

\* Safety: no native handle is lost sight of, so that the next connect or the disposal
\* destroys it, unless calls overlapped.
HandlesAreHeld == crossed \/ (~leaked /\ (disposed => held = {} /\ ~reading))

\* Safety: what is reported as connected is being read, except while the reader is being
\* reset, unless calls overlapped, no tag is loaded, or the report is the late one of an
\* aborted loop.  Whatever the next call says puts that right.
ConnectedIsRead ==
  status = "connected" /\ ~disposed =>
    \/ reading /\ held # {}
    \/ At("reset") \cup At("closing") # {}
    \/ crossed \/ late \/ loaded = {}

\* Liveness: a PLC that is gone is not reported as connected for ever by a client that
\* reads it.  The reader must have had a successful cycle since the last loss.
LossIsNoticed ==
  []<>(plc = "up" \/ status # "connected" \/ ~(reading /\ held # {}) \/ ~isConn \/ disposed)

\* Liveness: a client that should be connected gets to read its tags while its PLC is
\* there, unless calls overlapped or an aborted loop has called off the attempts.
Reconnects ==
  []<>(\/ plc # "up" \/ ~wanted \/ (status = "connected" /\ reading /\ held # {})
       \/ crossed \/ late \/ loaded = {})
=============================================================================
