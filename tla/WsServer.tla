------------------------------- MODULE WsServer -------------------------------
(***************************************************************************)
(* The WebSocket transport, transport/wsapi: a sink of the monitor that    *)
(* fans every event out to the connected clients.  Six kinds of goroutine  *)
(* meet here: the monitor, which commits to its store and calls            *)
(* HandleEvent; one HTTP handler, one write pump and one heartbeat for     *)
(* each connection; the caller of Stop; and the peers.                     *)
(*                                                                         *)
(* An action is one critical section (b.mu, c.mu or s.mu) or one blocking  *)
(* call.  The monitor is a goroutine that polls and is not abandoned: it   *)
(* commits, then delivers one lifecycle event for each commit, one delta,  *)
(* and health events, which need no commit.  Its store is the number of    *)
(* commits here: a snapshot or a delta carries the number it was made      *)
(* from, and a client holds that of the last such message it got.          *)
(***************************************************************************)
EXTENDS Integers, Sequences, FiniteSets

CONSTANTS
  Conns,       \* requests that may come, each with the connection it gets
  FaultyPeers, \* the connections whose peer may fall silent or go away
  MaxConns,    \* maxConnections; 0: no limit
  SendBuffer,  \* capacity of conn.send
  Heartbeat,   \* whether the heartbeat is on
  MaxVersion,  \* bound on the commits of the monitor
  MaxEvents    \* bound on the number of events up to which health events come

ASSUME WsAssumption ==
  /\ MaxConns \in Nat /\ SendBuffer \in Nat
  /\ MaxVersion \in Nat /\ MaxEvents \in Nat
  /\ Heartbeat \in BOOLEAN /\ FaultyPeers \subseteq Conns

VARIABLES
  version,   \* the monitor's store
  told,      \* the commits whose lifecycle event was delivered
  sent,      \* the commits that are in the deltas delivered
  seq,       \* number of the last event
  kind,      \* what kind of event it is
  targets,   \* HandleEvent: clients the event is still to be sent to
  evicting,  \* HandleEvent: the client whose buffer did not take it
  clients,   \* broadcaster.clients
  stopped,   \* Server.stopped
  victims,   \* broadcaster.stop: clients it has still to close
  stop,      \* where the caller of Stop is
  pc,        \* where the handler of each request is in ServeHTTP
  snap,      \* the snapshot it is about to send
  send,      \* conn.send
  closed,    \* conn.closed
  writer,    \* where the write pump is
  hand,      \* the message it took from the channel
  heart,     \* where the heartbeat is
  wire,      \* the messages written to the peer
  wsOpen,    \* whether the WebSocket is open on this side
  peer,      \* "up", "silent" (no answer, no close) or "gone"
  joined     \* history: seq when the connection was registered

monVars  == <<version, told, sent, seq, kind, targets, evicting>>
stopVars == <<stopped, victims, stop>>
connVars == <<pc, snap, writer, hand, heart, wire, wsOpen, peer, joined>>
vars     == <<monVars, stopVars, connVars, clients, send, closed>>

EventKinds == {"lifecycle", "delta", "health"}

Msg == [kind : EventKinds \cup {"snapshot"}, n : Nat, ver : Nat]

None == << >>   \* no message in hand, nobody to evict

Init ==
  /\ version = 0 /\ told = 0 /\ sent = 0 /\ seq = 0 /\ kind = "health"
  /\ targets = {} /\ evicting = None
  /\ clients = {} /\ stopped = FALSE /\ victims = {} /\ stop = "idle"
  /\ pc = [c \in Conns |-> "none"]
  /\ snap = [c \in Conns |-> 0]
  /\ send = [c \in Conns |-> << >>]
  /\ closed = [c \in Conns |-> FALSE]
  /\ writer = [c \in Conns |-> "off"]
  /\ hand = [c \in Conns |-> None]
  /\ heart = [c \in Conns |-> "off"]
  /\ wire = [c \in Conns |-> << >>]
  /\ wsOpen = [c \in Conns |-> FALSE]
  /\ peer = [c \in Conns |-> "up"]
  /\ joined = [c \in Conns |-> 0]

-----------------------------------------------------------------------------
(* conn and broadcaster *)

Accepts(c) == ~closed[c] /\ Len(send[c]) < SendBuffer

\* Mutant: the connection is deregistered and left open.
MutantLeaveOpen(c) == clients' = clients \ {c} /\ UNCHANGED closed

\* removeConn: only a registered connection is closed.
removeConn(c) ==
  /\ clients' = clients \ {c}
  /\ closed' = [closed EXCEPT ![c] = @ \/ c \in clients]

-----------------------------------------------------------------------------
(* The monitor: commits, then delivers *)

Fanning == targets # {} \/ evicting # None

\* Before the first of the poll's events is delivered.
MonCommit ==
  /\ ~Fanning /\ told = sent
  /\ version < MaxVersion
  /\ version' = version + 1
  /\ UNCHANGED <<told, sent, seq, kind, targets, evicting, stopVars, connVars, clients,
                 send, closed>>

\* The list of clients is taken under the read lock, and used without it.
HandleEvent(k) ==
  /\ ~Fanning
  /\ seq' = seq + 1 /\ kind' = k
  /\ targets' = clients
  /\ UNCHANGED <<version, evicting, stopVars, connVars, clients, send, closed>>

EmitLifecycle ==
  /\ told < version
  /\ told' = told + 1
  /\ HandleEvent("lifecycle") /\ UNCHANGED sent

\* Mutant: the delta does not wait for the lifecycle events.
MutantEmitDelta ==
  /\ sent < version
  /\ sent' = version
  /\ HandleEvent("delta") /\ UNCHANGED told

EmitDelta ==
  /\ told = version /\ sent < version
  /\ sent' = version
  /\ HandleEvent("delta") /\ UNCHANGED told

\* After a poll's other events; there may have been none.
EmitHealth ==
  /\ told = version /\ sent = version /\ seq < MaxEvents
  /\ HandleEvent("health") /\ UNCHANGED <<told, sent>>

\* Only a delta says what is in the store.
Event == [kind |-> kind, n |-> seq, ver |-> IF kind = "delta" THEN sent ELSE 0]

\* Mutant: what a full buffer does not take is dropped.
MutantDropWhenFull(c) ==
  /\ c \in targets
  /\ evicting = None
  /\ targets' = targets \ {c}
  /\ send' = IF Accepts(c) THEN [send EXCEPT ![c] = Append(@, Event)] ELSE send
  /\ UNCHANGED <<version, told, sent, seq, kind, evicting, stopVars, connVars, clients, closed>>

TrySend(c) ==
  /\ c \in targets
  /\ evicting = None
  /\ targets' = targets \ {c}
  /\ IF Accepts(c)
       THEN send' = [send EXCEPT ![c] = Append(@, Event)] /\ UNCHANGED evicting
       ELSE evicting' = <<c>> /\ UNCHANGED send
  /\ UNCHANGED <<version, told, sent, seq, kind, stopVars, connVars, clients, closed>>

Evict ==
  /\ evicting # None
  /\ removeConn(evicting[1])
  /\ evicting' = None
  /\ UNCHANGED <<version, told, sent, seq, kind, targets, stopVars, connVars, send>>

-----------------------------------------------------------------------------
(* ServeHTTP *)

At(c, l) == pc[c] = l
Goto(c, l) == pc' = [pc EXCEPT ![c] = l]

CheckStopped(c) ==
  /\ At(c, "none")
  /\ Goto(c, IF stopped THEN "refused" ELSE "admitted")
  /\ UNCHANGED <<monVars, stopVars, snap, writer, hand, heart, wire, wsOpen, peer,
                 joined, clients, send, closed>>

\* Rate limit, origin, authentication, or the upgrade itself.
Refuse(c) ==
  /\ At(c, "admitted")
  /\ Goto(c, "refused")
  /\ UNCHANGED <<monVars, stopVars, snap, writer, hand, heart, wire, wsOpen, peer,
                 joined, clients, send, closed>>

HasRoom == MaxConns = 0 \/ Cardinality(clients) < MaxConns

\* Upgrade and addConn; a connection too many is closed again.
AddConn(c) ==
  /\ At(c, "admitted")
  /\ IF HasRoom
       THEN /\ clients' = clients \cup {c}
            /\ joined' = [joined EXCEPT ![c] = seq]
            /\ wsOpen' = [wsOpen EXCEPT ![c] = TRUE]
            /\ Goto(c, "snapshot")
       ELSE Goto(c, "refused") /\ UNCHANGED <<clients, joined, wsOpen>>
  /\ UNCHANGED <<monVars, stopVars, snap, writer, hand, heart, wire, peer, send, closed>>

\* Mutant: the snapshot is a cached one.
MutantCachedSnapshot(c) ==
  /\ At(c, "snapshot")
  /\ snap' = [snap EXCEPT ![c] = 0]
  /\ Goto(c, "send")
  /\ UNCHANGED <<monVars, stopVars, writer, hand, heart, wire, wsOpen, peer, joined,
                 clients, send, closed>>

\* sendSnapshot: mon.Snapshot, under the monitor's lock ...
TakeSnapshot(c) ==
  /\ At(c, "snapshot")
  /\ snap' = [snap EXCEPT ![c] = version]
  /\ Goto(c, "send")
  /\ UNCHANGED <<monVars, stopVars, writer, hand, heart, wire, wsOpen, peer, joined,
                 clients, send, closed>>

\* ... then trySend, whose result is ignored; the pumps are started.
SendSnapshot(c) ==
  /\ At(c, "send")
  /\ send' = IF Accepts(c)
               THEN [send EXCEPT ![c] =
                       Append(@, [kind |-> "snapshot", n |-> 0, ver |-> snap[c]])]
               ELSE send
  /\ writer' = [writer EXCEPT ![c] = "run"]
  /\ heart' = [heart EXCEPT ![c] = IF Heartbeat THEN "run" ELSE "done"]
  /\ snap' = [snap EXCEPT ![c] = 0]
  /\ Goto(c, "reading")
  /\ UNCHANGED <<monVars, stopVars, hand, wire, wsOpen, peer, joined, clients, closed>>

\* readPump returns, removeConn.
ReadFails(c) ==
  /\ At(c, "reading")
  /\ ~wsOpen[c] \/ peer[c] = "gone"
  /\ removeConn(c)
  /\ Goto(c, "cleanup")
  /\ UNCHANGED <<monVars, stopVars, snap, writer, hand, heart, wire, wsOpen, peer,
                 joined, send>>

\* <-heartbeatDone
Return(c) ==
  /\ At(c, "cleanup")
  /\ heart[c] = "done"
  /\ Goto(c, "done")
  /\ UNCHANGED <<monVars, stopVars, snap, writer, hand, heart, wire, wsOpen, peer,
                 joined, clients, send, closed>>

-----------------------------------------------------------------------------
(* writePump *)

Take(c) ==
  /\ writer[c] = "run"
  /\ send[c] # << >>
  /\ hand' = [hand EXCEPT ![c] = <<Head(send[c])>>]
  /\ send' = [send EXCEPT ![c] = Tail(@)]
  /\ writer' = [writer EXCEPT ![c] = "write"]
  /\ UNCHANGED <<monVars, stopVars, pc, snap, heart, wire, wsOpen, peer, joined,
                 clients, closed>>

WriteOK(c) ==
  /\ writer[c] = "write"
  /\ wsOpen[c] /\ peer[c] # "gone"
  /\ wire' = [wire EXCEPT ![c] = @ \o hand[c]]
  /\ hand' = [hand EXCEPT ![c] = None]
  /\ writer' = [writer EXCEPT ![c] = "run"]
  /\ UNCHANGED <<monVars, stopVars, pc, snap, heart, wsOpen, peer, joined,
                 clients, send, closed>>

\* A write that fails, or exceeds writeTimeout, leaves the WebSocket closed.
WriteFails(c) ==
  /\ writer[c] = "write"
  /\ removeConn(c)
  /\ wsOpen' = [wsOpen EXCEPT ![c] = FALSE]
  /\ hand' = [hand EXCEPT ![c] = None]
  /\ writer' = [writer EXCEPT ![c] = "done"]
  /\ UNCHANGED <<monVars, stopVars, pc, snap, heart, wire, peer, joined, send>>

\* Mutant: the pump does not close the WebSocket behind it.
MutantNoWsClose(c) ==
  /\ writer[c] = "run"
  /\ send[c] = << >> /\ closed[c]
  /\ writer' = [writer EXCEPT ![c] = "done"]
  /\ UNCHANGED <<monVars, stopVars, pc, snap, hand, heart, wire, wsOpen, peer, joined,
                 clients, send, closed>>

\* The channel is closed and drained.
CloseWs(c) ==
  /\ writer[c] = "run"
  /\ send[c] = << >> /\ closed[c]
  /\ wsOpen' = [wsOpen EXCEPT ![c] = FALSE]
  /\ writer' = [writer EXCEPT ![c] = "done"]
  /\ UNCHANGED <<monVars, stopVars, pc, snap, hand, heart, wire, peer, joined,
                 clients, send, closed>>

-----------------------------------------------------------------------------
(* heartbeatLoop *)

HeartbeatEnds(c) ==
  /\ heart[c] = "run"
  /\ closed[c]
  /\ heart' = [heart EXCEPT ![c] = "done"]
  /\ UNCHANGED <<monVars, stopVars, pc, snap, writer, hand, wire, wsOpen, peer, joined,
                 clients, send, closed>>

\* Mutant: a ping is taken to fail only on a connection known to be closed.
MutantPingIgnoresSilence(c) ==
  /\ heart[c] = "run"
  /\ ~wsOpen[c] \/ peer[c] = "gone"
  /\ removeConn(c)
  /\ heart' = [heart EXCEPT ![c] = "done"]
  /\ UNCHANGED <<monVars, stopVars, pc, snap, writer, hand, wire, wsOpen, peer, joined, send>>

PingFails(c) ==
  /\ heart[c] = "run"
  /\ ~wsOpen[c] \/ peer[c] # "up"
  /\ removeConn(c)
  /\ heart' = [heart EXCEPT ![c] = "done"]
  /\ UNCHANGED <<monVars, stopVars, pc, snap, writer, hand, wire, wsOpen, peer, joined, send>>

-----------------------------------------------------------------------------
(* Stop, and the peers *)

StopFlag ==
  /\ stop = "idle"
  /\ stopped' = TRUE
  /\ stop' = "swap"
  /\ UNCHANGED <<monVars, victims, connVars, clients, send, closed>>

StopSwap ==
  /\ stop = "swap"
  /\ victims' = clients
  /\ clients' = {}
  /\ stop' = "close"
  /\ UNCHANGED <<monVars, stopped, connVars, send, closed>>

StopClose(c) ==
  /\ c \in victims
  /\ closed' = [closed EXCEPT ![c] = TRUE]
  /\ victims' = victims \ {c}
  /\ UNCHANGED <<monVars, stopped, stop, connVars, clients, send>>

StopReturn ==
  /\ stop = "close" /\ victims = {}
  /\ stop' = "done"
  /\ UNCHANGED <<monVars, stopped, victims, connVars, clients, send, closed>>

Silence(c) ==
  /\ c \in FaultyPeers /\ wsOpen[c] /\ peer[c] = "up"
  /\ peer' = [peer EXCEPT ![c] = "silent"]
  /\ UNCHANGED <<monVars, stopVars, pc, snap, writer, hand, heart, wire, wsOpen, joined,
                 clients, send, closed>>

Disconnect(c) ==
  /\ c \in FaultyPeers /\ wsOpen[c] /\ peer[c] = "up"
  /\ peer' = [peer EXCEPT ![c] = "gone"]
  /\ UNCHANGED <<monVars, stopVars, pc, snap, writer, hand, heart, wire, wsOpen, joined,
                 clients, send, closed>>

-----------------------------------------------------------------------------
MonitorStep == EmitLifecycle \/ EmitDelta \/ Evict \/ \E c \in Conns : TrySend(c)
Handler(c)  == AddConn(c) \/ TakeSnapshot(c) \/ SendSnapshot(c) \/ ReadFails(c) \/ Return(c)
WritePump(c) == Take(c) \/ WriteOK(c) \/ WriteFails(c) \/ CloseWs(c)
HeartbeatLoop(c) == HeartbeatEnds(c) \/ PingFails(c)
Stopper == StopSwap \/ StopReturn \/ \E c \in Conns : StopClose(c)

Next ==
  \/ MonCommit \/ MonitorStep \/ EmitHealth
  \/ StopFlag \/ Stopper
  \/ \E c \in Conns :
       \/ CheckStopped(c) \/ Refuse(c) \/ Handler(c)
       \/ WritePump(c) \/ HeartbeatLoop(c)
       \/ Silence(c) \/ Disconnect(c)

Spec == Init /\ [][Next]_vars

\* A goroutine that can run does, once the request is under way; whether a
\* request comes, the monitor commits or somebody calls Stop is left open.
Fairness ==
  /\ WF_vars(MonitorStep) /\ WF_vars(Stopper)
  /\ \A c \in Conns :
       WF_vars(Handler(c)) /\ WF_vars(WritePump(c)) /\ WF_vars(HeartbeatLoop(c))

FairSpec == Spec /\ Fairness

-----------------------------------------------------------------------------
(* Properties *)

\* Every variable has its type, and a delta does not run ahead of the lifecycle
\* events of the commits it holds (monitor.go:318-330).
TypeOK ==
  /\ version \in 0..MaxVersion /\ told \in 0..version /\ sent \in 0..told
  /\ seq \in Nat /\ kind \in EventKinds
  /\ targets \subseteq Conns /\ clients \subseteq Conns /\ victims \subseteq Conns
  /\ evicting \in {None} \cup {<<c>> : c \in Conns}
  /\ stopped \in BOOLEAN /\ stop \in {"idle", "swap", "close", "done"}
  /\ pc \in [Conns -> {"none", "refused", "admitted", "snapshot", "send", "reading",
                       "cleanup", "done"}]
  /\ snap \in [Conns -> Nat]
  /\ send \in [Conns -> Seq(Msg)] /\ wire \in [Conns -> Seq(Msg)] /\ hand \in [Conns -> Seq(Msg)]
  /\ closed \in [Conns -> BOOLEAN] /\ wsOpen \in [Conns -> BOOLEAN]
  /\ writer \in [Conns -> {"off", "run", "write", "done"}]
  /\ heart \in [Conns -> {"off", "run", "done"}]
  /\ peer \in [Conns -> {"up", "silent", "gone"}]
  /\ joined \in [Conns -> Nat]

\* A connection being served is registered exactly as long as it is open, but
\* for the moment Stop needs to close it; a full buffer is never exceeded, nor
\* the limit on connections.  Otherwise a handler could wait for ever for a
\* heartbeat that nobody tells to end, or send on a closed channel.
RegistryConsistent ==
  /\ MaxConns > 0 => Cardinality(clients) <= MaxConns
  /\ \A c \in Conns :
       /\ Len(send[c]) <= SendBuffer
       /\ c \in clients => ~closed[c] /\ pc[c] \in {"snapshot", "send", "reading"}
       /\ pc[c] \in {"snapshot", "send", "reading", "cleanup"} =>
            c \in clients \/ closed[c] \/ c \in victims

\* What the client got or will get of what was queued for it, in order.
Stream(c) == wire[c] \o hand[c] \o send[c]
IsEvent(m) == m.kind \in EventKinds

\* The last event the client has been given.
Due(c) == IF c \in targets \/ evicting = <<c>> THEN seq - 1 ELSE seq

\* The events of a stream are those numbered lo + 1 .. hi, in order, once each.
Complete(s, lo, hi) ==
  /\ \A n \in lo + 1 .. hi : \E i \in DOMAIN s : IsEvent(s[i]) /\ s[i].n = n
  /\ \A i \in DOMAIN s : IsEvent(s[i]) => s[i].n \in lo + 1 .. hi
  /\ \A i, j \in DOMAIN s : i < j /\ IsEvent(s[i]) /\ IsEvent(s[j]) => s[i].n < s[j].n

\* A client that is registered has been given every event since it joined, in
\* order and once each, and no other, whatever the speed of its peer: it is
\* evicted before it could miss one silently.
NoSilentGap == \A c \in clients : Complete(Stream(c), joined[c], Due(c))

HasState(m) == m.kind \in {"delta", "snapshot"}

\* The client begins with the snapshot: no delta comes before it.
SnapshotLeads(s) ==
  \E i \in DOMAIN s : s[i].kind = "snapshot" /\ \A j \in 1 .. i - 1 : s[j].kind # "delta"

\* Having taken in all of s, the client holds version v of the store.
Holds(s, v) ==
  \E i \in DOMAIN s : /\ HasState(s[i]) /\ s[i].ver = v
                     /\ \A j \in DOMAIN s : i < j => ~HasState(s[j])

\* A client that begins with the snapshot is up to date as soon as the monitor
\* has delivered what it committed, whatever it had committed or delivered
\* between the registration, the snapshot and its sending.
CurrentAfterSnapshot ==
  \A c \in clients :
    ~Fanning /\ sent = version /\ SnapshotLeads(Stream(c)) => Holds(Stream(c), version)

\* A connection that was closed, by eviction, by Stop or by a failed write, has
\* its handler return: no goroutine waits for ever.
ClosedHandlersReturn == \A c \in Conns : closed[c] ~> pc[c] = "done"

\* With the heartbeat on, a peer that falls silent does not keep its place.
SilentPeerIsDropped == \A c \in Conns : (peer[c] = "silent") ~> (c \notin clients)
=============================================================================
