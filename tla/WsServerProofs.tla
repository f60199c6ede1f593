---------------------------- MODULE WsServerProofs ----------------------------
(***************************************************************************)
(* Proofs about module WsServer, for any number of connections, any buffer *)
(* size, any limit on connections and any peers: type correctness, the     *)
(* consistency of the registry, and what a registered client has been      *)
(* given.                                                                  *)
(***************************************************************************)
EXTENDS WsServer, FiniteSetTheorems, SequenceTheorems, TLAPS

-----------------------------------------------------------------------------
(* Types *)

LEMMA TypeInit == Init => TypeOK
<1> SUFFICES ASSUME Init PROVE TypeOK
  OBVIOUS
<1>1. << >> \in Seq(Msg)
  OBVIOUS
<1>2. [c \in Conns |-> << >>] \in [Conns -> Seq(Msg)]
  BY <1>1
<1>3. send \in [Conns -> Seq(Msg)] /\ wire \in [Conns -> Seq(Msg)] /\ hand \in [Conns -> Seq(Msg)]
  BY <1>2, Zenon DEF Init, None
<1>4. /\ version \in 0..MaxVersion /\ told \in 0..version /\ sent \in 0..told
      /\ seq \in Nat /\ kind \in EventKinds
  BY WsAssumption DEF Init, EventKinds
<1>6. evicting \in {None} \cup {<<c>> : c \in Conns}
  BY Zenon DEF Init
<1>7. /\ targets \subseteq Conns /\ clients \subseteq Conns /\ victims \subseteq Conns
      /\ stopped \in BOOLEAN /\ stop \in {"idle", "swap", "close", "done"}
  BY DEF Init
<1>5. /\ pc \in [Conns -> {"none", "refused", "admitted", "snapshot", "send", "reading",
                          "cleanup", "done"}]
      /\ snap \in [Conns -> Nat] /\ joined \in [Conns -> Nat]
      /\ closed \in [Conns -> BOOLEAN] /\ wsOpen \in [Conns -> BOOLEAN]
      /\ writer \in [Conns -> {"off", "run", "write", "done"}]
      /\ heart \in [Conns -> {"off", "run", "done"}]
      /\ peer \in [Conns -> {"up", "silent", "gone"}]
  BY DEF Init
<1> QED
  BY <1>3, <1>4, <1>5, <1>6, <1>7, Zenon DEF TypeOK

LEMMA EventType ==
  ASSUME TypeOK
  PROVE  /\ Event \in Msg /\ IsEvent(Event) /\ Event.kind = kind /\ Event.n = seq
         /\ Event.ver <= version /\ (kind = "delta" => Event.ver = sent)
BY WsAssumption DEF TypeOK, Event, Msg, IsEvent

\* The steps of the monitor and of Stop keep the types.
LEMMA TypeServer ==
  ASSUME TypeOK,
         MonCommit \/ MonitorStep \/ EmitHealth \/ StopFlag \/ Stopper
  PROVE  TypeOK'
<1> USE WsAssumption DEF TypeOK, None, monVars, stopVars, connVars
<1>1. CASE MonCommit
  BY <1>1 DEF MonCommit
<1>2. CASE EmitLifecycle \/ EmitDelta \/ EmitHealth
  BY <1>2 DEF EmitLifecycle, EmitDelta, EmitHealth, HandleEvent, EventKinds
<1>3. CASE Evict
  BY <1>3 DEF Evict, removeConn
<1>4. ASSUME NEW c \in Conns, TrySend(c)
      PROVE  TypeOK'
  <2>1. Event \in Msg
    BY EventType
  <2>2. Append(send[c], Event) \in Seq(Msg)
    BY <2>1
  <2>3. send' \in [Conns -> Seq(Msg)] /\ evicting' \in {None} \cup {<<d>> : d \in Conns}
    BY <1>4, <2>2 DEF TrySend
  <2> QED
    BY <1>4, <2>3 DEF TrySend
<1>5. CASE StopFlag
  BY <1>5 DEF StopFlag
<1>6. CASE StopSwap
  BY <1>6 DEF StopSwap
<1>7. CASE StopReturn
  BY <1>7 DEF StopReturn
<1>8. ASSUME NEW c \in Conns, StopClose(c)
      PROVE  TypeOK'
  BY <1>8 DEF StopClose
<1> HIDE DEF TypeOK
<1> QED
  BY <1>1, <1>2, <1>3, <1>4, <1>5, <1>6, <1>7, <1>8, Zenon DEF MonitorStep, Stopper

\* So do those of a handler.
LEMMA TypeHandler ==
  ASSUME TypeOK, NEW c \in Conns,
         CheckStopped(c) \/ Refuse(c) \/ Handler(c)
  PROVE  TypeOK'
<1> USE WsAssumption DEF TypeOK, None, monVars, stopVars, connVars, Goto
<1>1. CASE CheckStopped(c)
  BY <1>1 DEF CheckStopped
<1>2. CASE Refuse(c)
  BY <1>2 DEF Refuse
<1>3. CASE AddConn(c)
  <2>1. seq \in Nat
    OBVIOUS
  <2>2. CASE HasRoom
    <3>1. /\ clients' = clients \cup {c}
          /\ joined' = [joined EXCEPT ![c] = seq]
          /\ wsOpen' = [wsOpen EXCEPT ![c] = TRUE]
          /\ pc' = [pc EXCEPT ![c] = "snapshot"]
      BY <1>3, <2>2, Zenon DEF AddConn
    <3>2. /\ clients' \subseteq Conns
          /\ joined' \in [Conns -> Nat]
          /\ wsOpen' \in [Conns -> BOOLEAN]
      BY <2>1, <3>1
    <3>3. pc' \in [Conns -> {"none", "refused", "admitted", "snapshot", "send", "reading",
                            "cleanup", "done"}]
      BY <3>1
    <3>4. UNCHANGED <<monVars, stopVars, snap, writer, hand, heart, wire, peer, send, closed>>
      BY <1>3, Zenon DEF AddConn
    <3> QED
      BY <3>2, <3>3, <3>4
  <2>3. CASE ~HasRoom
    BY <1>3, <2>3 DEF AddConn
  <2> QED
    BY <2>2, <2>3
<1>4. CASE TakeSnapshot(c)
  BY <1>4 DEF TakeSnapshot
<1>5. CASE SendSnapshot(c)
  <2> DEFINE m == [kind |-> "snapshot", n |-> 0, ver |-> snap[c]]
  <2>1. m \in Msg
    BY DEF Msg
  <2> HIDE DEF m
  <2>2. Append(send[c], m) \in Seq(Msg)
    BY <2>1
  <2>3. send' = IF Accepts(c) THEN [send EXCEPT ![c] = Append(@, m)] ELSE send
    BY <1>5, Zenon DEF SendSnapshot, m
  <2>4. send' \in [Conns -> Seq(Msg)]
    BY <2>2, <2>3
  <2> QED
    BY <1>5, <2>4 DEF SendSnapshot
<1>6. CASE ReadFails(c)
  BY <1>6 DEF ReadFails, removeConn
<1>7. CASE Return(c)
  BY <1>7 DEF Return
<1> QED
  BY <1>1, <1>2, <1>3, <1>4, <1>5, <1>6, <1>7 DEF Handler

\* And those of the two pumps and of the peers.
LEMMA TypePumps ==
  ASSUME TypeOK, NEW c \in Conns,
         WritePump(c) \/ HeartbeatLoop(c) \/ Silence(c) \/ Disconnect(c)
  PROVE  TypeOK'
<1> USE WsAssumption DEF TypeOK, None, monVars, stopVars, connVars
<1>1. CASE Take(c)
  <2>1. Head(send[c]) \in Msg /\ Tail(send[c]) \in Seq(Msg)
    BY <1>1, HeadTailProperties DEF Take
  <2>2. <<Head(send[c])>> \in Seq(Msg)
    BY <2>1
  <2> QED
    BY <1>1, <2>1, <2>2 DEF Take
<1>2. CASE WriteOK(c)
  <2>1. wire[c] \o hand[c] \in Seq(Msg) /\ << >> \in Seq(Msg)
    OBVIOUS
  <2> QED
    BY <1>2, <2>1 DEF WriteOK
<1>3. CASE WriteFails(c)
  <2>1. << >> \in Seq(Msg)
    OBVIOUS
  <2> QED
    BY <1>3, <2>1 DEF WriteFails, removeConn
<1>4. CASE CloseWs(c)
  BY <1>4 DEF CloseWs
<1>5. CASE HeartbeatEnds(c)
  BY <1>5 DEF HeartbeatEnds
<1>6. CASE PingFails(c)
  BY <1>6 DEF PingFails, removeConn
<1>7. CASE Silence(c)
  BY <1>7 DEF Silence
<1>8. CASE Disconnect(c)
  BY <1>8 DEF Disconnect
<1> QED
  BY <1>1, <1>2, <1>3, <1>4, <1>5, <1>6, <1>7, <1>8 DEF WritePump, HeartbeatLoop

LEMMA TypeStep ==
  ASSUME TypeOK, [Next]_vars
  PROVE  TypeOK'
<1>1. CASE UNCHANGED vars
  BY <1>1 DEF TypeOK, vars, monVars, stopVars, connVars
<1>2. CASE Next
  BY <1>2, TypeServer, TypeHandler, TypePumps DEF Next
<1> QED
  BY <1>1, <1>2

\* Every variable keeps its type: no delta goes out before the lifecycle events
\* of its commits, none of these before the commit, and every buffer holds
\* messages.
THEOREM TypeCorrect == Spec => []TypeOK
BY TypeInit, TypeStep, PTL DEF Spec

-----------------------------------------------------------------------------
(* The registry of connections *)

Early   == {"none", "refused", "admitted"}
Serving == {"snapshot", "send", "reading"}

\* One connection: it is not known to anybody before AddConn; then it is open
\* and registered, or somebody has closed it or is about to.
RegConn(c) ==
  /\ Len(send[c]) <= SendBuffer
  /\ c \in clients => ~closed[c] /\ pc[c] \in Serving /\ c \notin victims
  /\ pc[c] \in Serving \cup {"cleanup"} => c \in clients \/ closed[c] \/ c \in victims
  /\ pc[c] \in Early => c \notin clients /\ ~closed[c] /\ c \notin victims

LimitKept ==
  /\ IsFiniteSet(clients)
  /\ MaxConns > 0 => Cardinality(clients) <= MaxConns

RegInv ==
  /\ LimitKept
  /\ stop \in {"idle", "swap"} => victims = {}
  /\ \A c \in Conns : RegConn(c)

\* A step that does not touch a connection keeps its part of the invariant.
LEMMA RegFrame ==
  ASSUME NEW c \in Conns, RegConn(c),
         send'[c] = send[c], closed'[c] = closed[c], pc'[c] = pc[c],
         c \in clients' <=> c \in clients, c \in victims' <=> c \in victims
  PROVE  RegConn(c)'
BY DEF RegConn

\* A set of clients that does not grow keeps within the limit.
LEMMA LimitSubset ==
  ASSUME TypeOK, LimitKept, clients' \subseteq clients
  PROVE  LimitKept'
<1>1. IsFiniteSet(clients') /\ Cardinality(clients') <= Cardinality(clients)
  BY FS_Subset DEF LimitKept
<1>2. Cardinality(clients) \in Nat /\ Cardinality(clients') \in Nat
  BY <1>1, FS_CardinalityType DEF LimitKept
<1> QED
  BY <1>1, <1>2, WsAssumption DEF LimitKept

\* Closing a connection and leaving the registry are one step.
LEMMA RegRemove ==
  ASSUME TypeOK, RegInv, NEW c \in Conns, removeConn(c),
         UNCHANGED <<send, victims, stop>>,
         \A d \in Conns : pc'[d] = pc[d] \/ (d = c /\ pc[c] = "reading" /\ pc'[c] = "cleanup")
  PROVE  RegInv'
<1>1. LimitKept'
  BY LimitSubset DEF removeConn, RegInv
<1>2. ASSUME NEW d \in Conns, d # c
      PROVE  RegConn(d)'
  <2>1. closed'[d] = closed[d] /\ (d \in clients' <=> d \in clients)
    BY <1>2 DEF removeConn, TypeOK
  <2> QED
    BY <1>2, <2>1, RegFrame DEF RegInv
<1>3. RegConn(c)'
  <2>1. closed'[c] = (closed[c] \/ c \in clients) /\ c \notin clients'
    BY DEF removeConn, TypeOK
  <2> QED
    BY <2>1 DEF RegInv, RegConn, Early, Serving
<1> QED
  BY <1>1, <1>2, <1>3 DEF RegInv

\* A message is queued only where there is room for it.
LEMMA RegSend ==
  ASSUME TypeOK, RegInv, NEW c \in Conns, NEW m \in Msg, Accepts(c),
         send' = [send EXCEPT ![c] = Append(@, m)]
  PROVE  /\ Len(send'[c]) <= SendBuffer
         /\ \A d \in Conns : d # c => send'[d] = send[d]
<1>1. send'[c] = Append(send[c], m)
  BY DEF TypeOK
<1>2. Len(Append(send[c], m)) = Len(send[c]) + 1 /\ Len(send[c]) \in Nat
  BY AppendProperties, LenProperties DEF TypeOK
<1> QED
  BY <1>1, <1>2, WsAssumption DEF Accepts, TypeOK

LEMMA RegInit == Init => RegInv
<1> SUFFICES ASSUME Init PROVE RegInv
  OBVIOUS
<1>1. LimitKept
  BY FS_EmptySet, WsAssumption DEF Init, LimitKept
<1>2. ASSUME NEW c \in Conns
      PROVE  RegConn(c)
  <2>1. Len(<< >>) = 0
    OBVIOUS
  <2>2. send[c] = << >> /\ pc[c] = "none" /\ ~closed[c]
    BY DEF Init
  <2> QED
    BY <2>1, <2>2, WsAssumption DEF Init, RegConn, Early, Serving
<1> QED
  BY <1>1, <1>2 DEF Init, RegInv

\* A step of one connection that leaves the set of clients as it is.
LEMMA RegLocal ==
  ASSUME TypeOK, RegInv, NEW c \in Conns,
         UNCHANGED <<clients, victims, stop>>,
         \A d \in Conns : d # c => send'[d] = send[d] /\ closed'[d] = closed[d] /\ pc'[d] = pc[d],
         RegConn(c)'
  PROVE  RegInv'
<1>1. LimitKept'
  BY DEF RegInv, LimitKept
<1>2. ASSUME NEW d \in Conns, d # c
      PROVE  RegConn(d)'
  BY <1>2, RegFrame DEF RegInv
<1> QED
  BY <1>1, <1>2 DEF RegInv

LEMMA RegServer ==
  ASSUME TypeOK, RegInv,
         MonCommit \/ MonitorStep \/ EmitHealth \/ StopFlag \/ Stopper
  PROVE  RegInv'
<1> USE DEF monVars, stopVars, connVars
<1>1. CASE MonCommit \/ EmitLifecycle \/ EmitDelta \/ EmitHealth
  BY <1>1 DEF MonCommit, EmitLifecycle, EmitDelta, EmitHealth, HandleEvent, RegInv, RegConn,
    LimitKept
<1>2. CASE Evict
  <2>1. PICK c \in Conns : evicting[1] = c
    BY <1>2 DEF Evict, TypeOK
  <2>2. removeConn(c) /\ UNCHANGED <<send, victims, stop>> /\ pc' = pc
    BY <1>2, <2>1 DEF Evict, removeConn
  <2>3. \A d \in Conns : pc'[d] = pc[d] \/ (d = c /\ pc[c] = "reading" /\ pc'[c] = "cleanup")
    BY <2>2
  <2> QED
    BY <2>2, <2>3, RegRemove
<1>3. ASSUME NEW c \in Conns, TrySend(c)
      PROVE  RegInv'
  <2>1. UNCHANGED <<clients, victims, stop, closed, pc>>
    BY <1>3 DEF TrySend
  <2>2. CASE Accepts(c)
    <3>1. send' = [send EXCEPT ![c] = Append(@, Event)]
      BY <1>3, <2>2 DEF TrySend
    <3>2. Event \in Msg
      BY EventType
    <3>3. Len(send'[c]) <= SendBuffer /\ \A d \in Conns : d # c => send'[d] = send[d]
      BY <2>2, <3>1, <3>2, RegSend
    <3>4. RegConn(c)'
      BY <2>1, <3>3 DEF RegInv, RegConn
    <3> QED
      BY <2>1, <3>3, <3>4, RegLocal
  <2>3. CASE ~Accepts(c)
    <3>1. UNCHANGED send
      BY <1>3, <2>3 DEF TrySend
    <3> QED
      BY <2>1, <3>1 DEF RegInv, RegConn, LimitKept
  <2> QED
    BY <2>2, <2>3
<1>4. CASE StopFlag
  BY <1>4 DEF StopFlag, RegInv, RegConn, LimitKept
<1>5. CASE StopSwap
  <2>1. LimitKept'
    <3>1. clients' \subseteq clients
      BY <1>5 DEF StopSwap
    <3> QED
      BY <3>1, LimitSubset DEF RegInv
  <2>2. victims = {} /\ victims' = clients /\ clients' = {} /\ stop' = "close"
        /\ UNCHANGED <<send, closed, pc>>
    BY <1>5 DEF StopSwap, RegInv
  <2>3. ASSUME NEW c \in Conns
        PROVE  RegConn(c)'
    BY <2>2 DEF RegInv, RegConn, Early, Serving
  <2> QED
    BY <2>1, <2>2, <2>3 DEF RegInv
<1>6. CASE StopReturn
  BY <1>6 DEF StopReturn, RegInv, RegConn, LimitKept
<1>7. ASSUME NEW c \in Conns, StopClose(c)
      PROVE  RegInv'
  <2>1. /\ c \in victims /\ victims' = victims \ {c} /\ stop' = stop
        /\ UNCHANGED <<send, pc, clients>>
        /\ closed'[c] = TRUE /\ \A d \in Conns : d # c => closed'[d] = closed[d]
    BY <1>7 DEF StopClose, TypeOK
  <2>2. ASSUME NEW d \in Conns
        PROVE  RegConn(d)'
    BY <2>1 DEF RegInv, RegConn, Early, Serving
  <2>3. LimitKept'
    BY <2>1 DEF RegInv, LimitKept
  <2> QED
    BY <2>1, <2>2, <2>3 DEF RegInv
<1> QED
  BY <1>1, <1>2, <1>3, <1>4, <1>5, <1>6, <1>7 DEF MonitorStep, Stopper

LEMMA RegHandler ==
  ASSUME TypeOK, RegInv, NEW c \in Conns,
         CheckStopped(c) \/ Refuse(c) \/ Handler(c)
  PROVE  RegInv'
<1> USE DEF monVars, stopVars, connVars, Goto, At
<1>1. CASE CheckStopped(c) \/ Refuse(c) \/ TakeSnapshot(c) \/ Return(c)
  <2>1. /\ UNCHANGED <<clients, victims, stop, closed, send>>
        /\ \A d \in Conns : d # c => pc'[d] = pc[d]
    BY <1>1 DEF CheckStopped, Refuse, TakeSnapshot, Return, TypeOK
  <2>2. \/ pc[c] \in Early /\ pc'[c] \in Early
        \/ pc[c] = "snapshot" /\ pc'[c] = "send"
        \/ pc[c] = "cleanup" /\ pc'[c] = "done"
    BY <1>1 DEF CheckStopped, Refuse, TakeSnapshot, Return, TypeOK, Early
  <2>3. RegConn(c)'
    BY <2>1, <2>2 DEF RegInv, RegConn, Early, Serving
  <2> QED
    BY <2>1, <2>3, RegLocal
<1>2. CASE AddConn(c) /\ HasRoom
  <2>1. /\ clients' = clients \cup {c} /\ pc' = [pc EXCEPT ![c] = "snapshot"]
        /\ UNCHANGED <<victims, stop, send, closed>> /\ pc[c] = "admitted"
    BY <1>2, Zenon DEF AddConn
  <2>2. IsFiniteSet(clients') /\ Cardinality(clients') = Cardinality(clients) + 1
    <3>1. c \notin clients
      BY <2>1 DEF RegInv, RegConn, Early
    <3> QED
      BY <2>1, <3>1, FS_AddElement DEF RegInv, LimitKept
  <2>3. Cardinality(clients) \in Nat
    BY FS_CardinalityType DEF RegInv, LimitKept
  <2>4. LimitKept'
    BY <1>2, <2>2, <2>3, WsAssumption DEF HasRoom, LimitKept
  <2>5. pc'[c] = "snapshot" /\ \A d \in Conns : d # c => pc'[d] = pc[d]
    BY <2>1 DEF TypeOK
  <2>6. ASSUME NEW d \in Conns
        PROVE  RegConn(d)'
    BY <2>1, <2>5 DEF RegInv, RegConn, Early, Serving
  <2> QED
    BY <2>1, <2>4, <2>6 DEF RegInv
<1>3. CASE AddConn(c) /\ ~HasRoom
  <2>1. /\ UNCHANGED <<clients, victims, stop, send, closed>> /\ pc[c] = "admitted"
        /\ pc' = [pc EXCEPT ![c] = "refused"]
    BY <1>3, Zenon DEF AddConn
  <2>2. pc'[c] = "refused" /\ \A d \in Conns : d # c => pc'[d] = pc[d]
    BY <2>1 DEF TypeOK
  <2>3. RegConn(c)'
    BY <2>1, <2>2 DEF RegInv, RegConn, Early, Serving
  <2> QED
    BY <2>1, <2>2, <2>3, RegLocal
<1>4. CASE SendSnapshot(c)
  <2> DEFINE m == [kind |-> "snapshot", n |-> 0, ver |-> snap[c]]
  <2>1. m \in Msg
    BY DEF Msg, TypeOK
  <2>2. /\ UNCHANGED <<clients, victims, stop, closed>> /\ pc[c] = "send"
        /\ send' = IF Accepts(c) THEN [send EXCEPT ![c] = Append(@, m)] ELSE send
        /\ pc' = [pc EXCEPT ![c] = "reading"]
    BY <1>4, Zenon DEF SendSnapshot
  <2> HIDE DEF m
  <2>3. pc'[c] = "reading" /\ \A d \in Conns : d # c => pc'[d] = pc[d]
    BY <2>2 DEF TypeOK
  <2>4. Len(send'[c]) <= SendBuffer /\ \A d \in Conns : d # c => send'[d] = send[d]
    <3>1. CASE Accepts(c)
      BY <2>1, <2>2, <3>1, RegSend
    <3>2. CASE ~Accepts(c)
      BY <2>2, <3>2 DEF RegInv, RegConn
    <3> QED
      BY <3>1, <3>2
  <2>5. RegConn(c)'
    BY <2>2, <2>3, <2>4 DEF RegInv, RegConn, Early, Serving
  <2> QED
    BY <2>2, <2>3, <2>4, <2>5, RegLocal
<1>5. CASE ReadFails(c)
  <2>1. /\ removeConn(c) /\ UNCHANGED <<send, victims, stop>>
        /\ pc[c] = "reading" /\ pc' = [pc EXCEPT ![c] = "cleanup"]
    BY <1>5 DEF ReadFails
  <2>2. \A d \in Conns : pc'[d] = pc[d] \/ (d = c /\ pc[c] = "reading" /\ pc'[c] = "cleanup")
    BY <2>1 DEF TypeOK
  <2> QED
    BY <2>1, <2>2, RegRemove
<1> QED
  BY <1>1, <1>2, <1>3, <1>4, <1>5 DEF Handler

LEMMA RegPumps ==
  ASSUME TypeOK, RegInv, NEW c \in Conns,
         WritePump(c) \/ HeartbeatLoop(c) \/ Silence(c) \/ Disconnect(c)
  PROVE  RegInv'
<1> USE DEF monVars, stopVars, connVars
<1>1. CASE Take(c)
  <2>1. /\ UNCHANGED <<clients, victims, stop, closed, pc>>
        /\ send[c] # << >> /\ send'[c] = Tail(send[c])
        /\ \A d \in Conns : d # c => send'[d] = send[d]
    BY <1>1 DEF Take, TypeOK
  <2>2. Len(send'[c]) <= Len(send[c]) /\ Len(send'[c]) \in Nat /\ Len(send[c]) \in Nat
    BY <2>1, HeadTailProperties, LenProperties DEF TypeOK
  <2>3. Len(send'[c]) <= SendBuffer
    BY <2>2, WsAssumption DEF RegInv, RegConn
  <2>4. RegConn(c)'
    BY <2>1, <2>3 DEF RegInv, RegConn
  <2> QED
    BY <2>1, <2>4, RegLocal
<1>2. CASE WriteFails(c) \/ PingFails(c)
  <2>1. removeConn(c) /\ UNCHANGED <<send, victims, stop>> /\ pc' = pc
    BY <1>2 DEF WriteFails, PingFails
  <2>2. \A d \in Conns : pc'[d] = pc[d] \/ (d = c /\ pc[c] = "reading" /\ pc'[c] = "cleanup")
    BY <2>1
  <2> QED
    BY <2>1, <2>2, RegRemove
<1>3. CASE WriteOK(c) \/ CloseWs(c) \/ HeartbeatEnds(c) \/ Silence(c) \/ Disconnect(c)
  <2>1. UNCHANGED <<clients, victims, stop, closed, send, pc>>
    BY <1>3 DEF WriteOK, CloseWs, HeartbeatEnds, Silence, Disconnect
  <2> QED
    BY <2>1 DEF RegInv, RegConn, LimitKept
<1> QED
  BY <1>1, <1>2, <1>3 DEF WritePump, HeartbeatLoop

LEMMA RegStep ==
  ASSUME TypeOK, RegInv, [Next]_vars
  PROVE  RegInv'
<1>1. CASE UNCHANGED vars
  BY <1>1 DEF RegInv, RegConn, LimitKept, vars, monVars, stopVars, connVars
<1>2. CASE Next
  BY <1>2, RegServer, RegHandler, RegPumps DEF Next
<1> QED
  BY <1>1, <1>2

\* A connection being served is registered exactly as long as it is open, but
\* for the moment Stop needs to close it, whoever closes it: the broadcast, a
\* pump, the heartbeat, its own handler or Stop, in any order.  No buffer and no
\* limit is exceeded.
THEOREM RegistryIsConsistent == Spec => []RegistryConsistent
<1>1. RegInv => RegistryConsistent
  BY DEF RegInv, RegConn, LimitKept, RegistryConsistent, Serving
<1> QED
  BY TypeInit, TypeStep, RegInit, RegStep, <1>1, PTL DEF Spec

-----------------------------------------------------------------------------
(* What a stream of messages says when one more is put at its end *)

\* No message is newer than version v.
Bounded(s, v) == \A i \in DOMAIN s : s[i].ver <= v

AllEvents(s) == \A i \in DOMAIN s : IsEvent(s[i])

NoDelta(s) == \A i \in DOMAIN s : s[i].kind # "delta"

\* If the client begins with the snapshot, it ends with version v or a newer one.
UpTo(s, v) ==
  SnapshotLeads(s) =>
    \E i \in DOMAIN s : /\ HasState(s[i]) /\ v <= s[i].ver
                       /\ \A j \in DOMAIN s : i < j => ~HasState(s[j])

LEMMA StreamAppend ==
  ASSUME NEW s \in Seq(Msg), NEW m \in Msg
  PROVE  LET t == Append(s, m)
         IN  /\ t \in Seq(Msg) /\ t # << >>
             /\ DOMAIN s = 1 .. Len(s) /\ Len(s) \in Nat
             /\ DOMAIN t = 1 .. Len(s) + 1 /\ Len(t) = Len(s) + 1
             /\ \A i \in DOMAIN s : t[i] = s[i]
             /\ t[Len(s) + 1] = m
BY AppendProperties, LenProperties

\* The next event, in its turn, keeps the stream complete.
LEMMA CompleteNext ==
  ASSUME NEW s \in Seq(Msg), NEW m \in Msg, NEW lo \in Nat, NEW hi \in Nat,
         Complete(s, lo, hi), lo <= hi, IsEvent(m), m.n = hi + 1
  PROVE  Complete(Append(s, m), lo, hi + 1)
<1> DEFINE t == Append(s, m)
<1>1. /\ DOMAIN s = 1 .. Len(s) /\ Len(s) \in Nat
      /\ DOMAIN t = 1 .. Len(s) + 1
      /\ \A i \in DOMAIN s : t[i] = s[i]
      /\ t[Len(s) + 1] = m
  BY StreamAppend
<1> HIDE DEF t
<1>2. \A i \in DOMAIN t : i \in DOMAIN s \/ i = Len(s) + 1
  BY <1>1
<1>3. ASSUME NEW n \in lo + 1 .. hi + 1
      PROVE  \E i \in DOMAIN t : IsEvent(t[i]) /\ t[i].n = n
  <2>1. CASE n = hi + 1
    <3>1. Len(s) + 1 \in DOMAIN t /\ IsEvent(t[Len(s) + 1]) /\ t[Len(s) + 1].n = n
      BY <1>1, <2>1
    <3> QED
      BY <3>1, Zenon
  <2>2. CASE n # hi + 1
    <3>1. n \in lo + 1 .. hi
      BY <2>2
    <3>2. PICK i \in DOMAIN s : IsEvent(s[i]) /\ s[i].n = n
      BY <3>1 DEF Complete
    <3>3. i \in DOMAIN t /\ t[i] = s[i]
      BY <1>1
    <3> QED
      BY <3>2, <3>3
  <2> QED
    BY <2>1, <2>2
<1>4. ASSUME NEW i \in DOMAIN t, IsEvent(t[i])
      PROVE  t[i].n \in lo + 1 .. hi + 1
  <2>1. CASE i \in DOMAIN s
    <3>1. t[i].n \in lo + 1 .. hi
      BY <1>1, <1>4, <2>1 DEF Complete
    <3> QED
      BY <3>1
  <2>2. CASE i = Len(s) + 1
    BY <1>1, <2>2
  <2> QED
    BY <1>2, <2>1, <2>2
<1>5. ASSUME NEW i \in DOMAIN t, NEW j \in DOMAIN t, i < j, IsEvent(t[i]), IsEvent(t[j])
      PROVE  t[i].n < t[j].n
  <2>1. i \in DOMAIN s
    BY <1>1, <1>5
  <2>2. t[i].n \in lo + 1 .. hi
    BY <1>1, <1>5, <2>1 DEF Complete
  <2>3. CASE j \in DOMAIN s
    BY <1>1, <1>5, <2>1, <2>3 DEF Complete
  <2>4. CASE j = Len(s) + 1
    BY <1>1, <2>2, <2>4
  <2> QED
    BY <1>2, <2>3, <2>4
<1>6. Complete(t, lo, hi + 1)
  BY <1>3, <1>4, <1>5 DEF Complete
<1> QED
  BY <1>6 DEF t

\* A snapshot does not disturb the events around it.
LEMMA CompleteOther ==
  ASSUME NEW s \in Seq(Msg), NEW m \in Msg, NEW lo \in Nat, NEW hi \in Int,
         Complete(s, lo, hi), ~IsEvent(m)
  PROVE  Complete(Append(s, m), lo, hi)
<1> DEFINE t == Append(s, m)
<1>1. /\ DOMAIN s = 1 .. Len(s) /\ Len(s) \in Nat
      /\ DOMAIN t = 1 .. Len(s) + 1
      /\ \A i \in DOMAIN s : t[i] = s[i]
      /\ t[Len(s) + 1] = m
  BY StreamAppend
<1> HIDE DEF t
<1>2. \A i \in DOMAIN t : IsEvent(t[i]) => i \in DOMAIN s
  <2>1. \A i \in DOMAIN t : i \in DOMAIN s \/ i = Len(s) + 1
    BY <1>1
  <2> QED
    BY <1>1, <2>1
<1>3. DOMAIN s \subseteq DOMAIN t
  BY <1>1
<1>4. Complete(t, lo, hi)
  BY <1>1, <1>2, <1>3 DEF Complete
<1> QED
  BY <1>4 DEF t

LEMMA CompleteEmpty ==
  ASSUME NEW lo \in Nat
  PROVE  Complete(<< >>, lo, lo)
BY DEF Complete

LEMMA BoundedAppend ==
  ASSUME NEW s \in Seq(Msg), NEW m \in Msg, NEW v \in Nat, Bounded(s, v), m.ver <= v
  PROVE  Bounded(Append(s, m), v)
<1>1. \A i \in DOMAIN Append(s, m) : i \in DOMAIN s \/ i = Len(s) + 1
  BY StreamAppend
<1> QED
  BY <1>1, StreamAppend DEF Bounded

LEMMA BoundedLater ==
  ASSUME NEW s \in Seq(Msg), NEW v \in Nat, Bounded(s, v)
  PROVE  Bounded(s, v + 1)
<1> SUFFICES ASSUME NEW i \in DOMAIN s
             PROVE  s[i].ver <= v + 1
  BY DEF Bounded
<1>1. s[i] \in Msg
  BY LenProperties, ElementOfSeq
<1>2. s[i].ver \in Nat /\ s[i].ver <= v
  BY <1>1 DEF Bounded, Msg
<1> QED
  BY <1>2

\* A delta or a snapshot at least as new as v brings the stream up to v.
LEMMA UpToAppend ==
  ASSUME NEW s \in Seq(Msg), NEW m \in Msg, NEW v \in Nat, HasState(m), v <= m.ver
  PROVE  UpTo(Append(s, m), v)
<1> DEFINE t == Append(s, m)
<1>1. /\ DOMAIN t = 1 .. Len(s) + 1 /\ Len(s) \in Nat
      /\ t[Len(s) + 1] = m
  BY StreamAppend
<1> HIDE DEF t
<1>2. /\ Len(s) + 1 \in DOMAIN t
      /\ \A j \in DOMAIN t : ~(Len(s) + 1 < j)
  BY <1>1
<1>3. UpTo(t, v)
  BY <1>1, <1>2 DEF UpTo
<1> QED
  BY <1>3 DEF t

\* An event that is not a delta leaves it there.
LEMMA UpToKept ==
  ASSUME NEW s \in Seq(Msg), NEW m \in Msg, NEW v \in Nat, UpTo(s, v), IsEvent(m),
         m.kind # "delta"
  PROVE  UpTo(Append(s, m), v)
<1> DEFINE t == Append(s, m)
<1>1. /\ DOMAIN s = 1 .. Len(s) /\ Len(s) \in Nat
      /\ DOMAIN t = 1 .. Len(s) + 1
      /\ \A i \in DOMAIN s : t[i] = s[i]
      /\ t[Len(s) + 1] = m
  BY StreamAppend
<1> HIDE DEF t
<1>2. m.kind # "snapshot" /\ ~HasState(m)
  BY DEF IsEvent, EventKinds, HasState
<1>3. SUFFICES ASSUME SnapshotLeads(t)
               PROVE  \E i \in DOMAIN t : /\ HasState(t[i]) /\ v <= t[i].ver
                                          /\ \A j \in DOMAIN t : i < j => ~HasState(t[j])
  BY DEF UpTo, t
<1>4. \A i \in DOMAIN t : i \in DOMAIN s \/ i = Len(s) + 1
  BY <1>1
<1>5. SnapshotLeads(s)
  <2>1. PICK i \in DOMAIN t : t[i].kind = "snapshot" /\ \A j \in 1 .. i - 1 : t[j].kind # "delta"
    BY <1>3 DEF SnapshotLeads
  <2>2. i \in DOMAIN s
    BY <1>1, <1>2, <1>4, <2>1
  <2>3. \A j \in 1 .. i - 1 : j \in DOMAIN s /\ s[j] = t[j]
    BY <1>1, <2>2
  <2> QED
    BY <1>1, <2>1, <2>2, <2>3 DEF SnapshotLeads
<1>6. PICK i \in DOMAIN s : /\ HasState(s[i]) /\ v <= s[i].ver
                           /\ \A j \in DOMAIN s : i < j => ~HasState(s[j])
  BY <1>5 DEF UpTo
<1>7. i \in DOMAIN t /\ t[i] = s[i]
  BY <1>1
<1>8. \A j \in DOMAIN t : i < j => ~HasState(t[j])
  BY <1>1, <1>2, <1>4, <1>6
<1> QED
  BY <1>6, <1>7, <1>8

\* Where a delta came first, the snapshot does not lead.
LEMMA UpToVacuous ==
  ASSUME NEW s \in Seq(Msg), NEW m \in Msg, NEW v \in Nat, AllEvents(s), ~NoDelta(s)
  PROVE  UpTo(Append(s, m), v)
<1> DEFINE t == Append(s, m)
<1>1. /\ DOMAIN s = 1 .. Len(s) /\ Len(s) \in Nat
      /\ DOMAIN t = 1 .. Len(s) + 1
      /\ \A i \in DOMAIN s : t[i] = s[i]
  BY StreamAppend
<1> HIDE DEF t
<1>2. PICK d \in DOMAIN s : s[d].kind = "delta"
  BY DEF NoDelta
<1>3. ASSUME NEW i \in DOMAIN t, t[i].kind = "snapshot", \A j \in 1 .. i - 1 : t[j].kind # "delta"
      PROVE  FALSE
  <2>1. CASE i \in DOMAIN s
    BY <1>1, <1>3, <2>1 DEF AllEvents, IsEvent, EventKinds
  <2>2. CASE i = Len(s) + 1
    <3>1. d \in 1 .. i - 1 /\ t[d].kind = "delta"
      BY <1>1, <1>2, <2>2
    <3> QED
      BY <1>3, <3>1
  <2> QED
    BY <1>1, <2>1, <2>2
<1>4. UpTo(t, v)
  BY <1>3 DEF UpTo, SnapshotLeads
<1> QED
  BY <1>4 DEF t

LEMMA NoDeltaAppend ==
  ASSUME NEW s \in Seq(Msg), NEW m \in Msg, NoDelta(Append(s, m))
  PROVE  NoDelta(s) /\ m.kind # "delta"
<1>1. /\ DOMAIN s = 1 .. Len(s) /\ Len(s) \in Nat
      /\ DOMAIN Append(s, m) = 1 .. Len(s) + 1
      /\ \A i \in DOMAIN s : Append(s, m)[i] = s[i]
      /\ Append(s, m)[Len(s) + 1] = m
  BY StreamAppend
<1>2. DOMAIN s \subseteq DOMAIN Append(s, m) /\ Len(s) + 1 \in DOMAIN Append(s, m)
  BY <1>1
<1> QED
  BY <1>1, <1>2 DEF NoDelta

-----------------------------------------------------------------------------
(* What a registered client has been given *)

\* The event under way has still to reach the client, or its eviction does.
Awaited(c) == c \in targets \/ evicting = <<c>>

DeltaAwaited(c) == Awaited(c) /\ kind = "delta"

\* The pump holds a message only while it writes it; nothing is queued for a
\* connection before it is registered.
PipeConn(c) ==
  /\ writer[c] # "write" => hand[c] = << >>
  /\ pc[c] \in Early \cup {"snapshot", "send"} => writer[c] = "off"
  /\ pc[c] \in Early => /\ wire[c] = << >> /\ hand[c] = << >> /\ send[c] = << >>
                       /\ ~Awaited(c)
  /\ evicting = <<c>> => c \notin targets
  /\ joined[c] <= seq
  /\ Awaited(c) => joined[c] < seq
  /\ snap[c] <= version

\* What a registered client holds, or will: every event but the one under way,
\* and, if it began with the snapshot, the store as of the last delta.
HeldConn(c) ==
  /\ Complete(Stream(c), joined[c], Due(c))
  /\ Bounded(Stream(c), version)
  /\ pc[c] \in {"snapshot", "send"} => AllEvents(Stream(c))
  /\ pc[c] = "send" /\ NoDelta(Stream(c)) => DeltaAwaited(c) \/ sent <= snap[c]
  /\ DeltaAwaited(c) \/ UpTo(Stream(c), sent)

StreamConn(c) == PipeConn(c) /\ (c \in clients => HeldConn(c))

StreamInv == \A c \in Conns : StreamConn(c)

LEMMA StreamType ==
  ASSUME TypeOK, NEW c \in Conns
  PROVE  Stream(c) \in Seq(Msg)
<1>1. wire[c] \in Seq(Msg) /\ hand[c] \in Seq(Msg) /\ send[c] \in Seq(Msg)
  BY DEF TypeOK
<1> QED
  BY <1>1, ConcatProperties DEF Stream

\* What a step leaves as it is about the client it is not about.
Untouched(c) ==
  /\ wire'[c] = wire[c] /\ hand'[c] = hand[c] /\ send'[c] = send[c]
  /\ writer'[c] = writer[c] /\ pc'[c] = pc[c] /\ snap'[c] = snap[c] /\ joined'[c] = joined[c]
  /\ (c \in targets' <=> c \in targets) /\ (evicting' = <<c>> <=> evicting = <<c>>)
  /\ c \in clients' => c \in clients

LEMMA StreamFrame ==
  ASSUME NEW c \in Conns, StreamConn(c), Untouched(c), UNCHANGED <<seq, kind, sent, version>>
  PROVE  StreamConn(c)'
<1>1. Stream(c)' = Stream(c)
  BY DEF Stream, Untouched
<1>2. (Awaited(c))' <=> Awaited(c)
  BY DEF Awaited, Untouched
<1>3. Due(c)' = Due(c)
  BY DEF Due, Untouched
<1>4. PipeConn(c)'
  BY <1>2 DEF PipeConn, StreamConn, Untouched
<1>5. HeldConn(c) => HeldConn(c)'
  BY <1>1, <1>2, <1>3 DEF HeldConn, DeltaAwaited, Untouched
<1> QED
  BY <1>4, <1>5 DEF StreamConn, Untouched

\* A step of the connection itself that leaves its stream and its place in the
\* broadcast as they are, and does not go on to "send".
LEMMA HeldKept ==
  ASSUME NEW c \in Conns, HeldConn(c), UNCHANGED <<seq, kind, sent, version, targets, evicting>>,
         Stream(c)' = Stream(c), joined'[c] = joined[c],
         (pc'[c] = pc[c] /\ snap'[c] = snap[c]) \/ pc'[c] \notin {"snapshot", "send"}
  PROVE  HeldConn(c)'
<1>1. ((Awaited(c))' <=> Awaited(c)) /\ Due(c)' = Due(c)
  BY DEF Awaited, Due
<1> QED
  BY <1>1 DEF HeldConn, DeltaAwaited

LEMMA StreamInit == Init => StreamInv
<1> SUFFICES ASSUME Init, NEW c \in Conns
             PROVE  StreamConn(c)
  BY DEF StreamInv
<1>1. PipeConn(c)
  BY DEF Init, PipeConn, Awaited, None
<1>2. c \notin clients
  BY DEF Init
<1> QED
  BY <1>1, <1>2 DEF StreamConn

LEMMA AppendConcat ==
  ASSUME NEW S, NEW x \in Seq(S), NEW y \in Seq(S), NEW m \in S
  PROVE  x \o Append(y, m) = Append(x \o y, m)
<1> DEFINE l == x \o Append(y, m)
           r == Append(x \o y, m)
<1>1. Append(y, m) \in Seq(S) /\ Len(Append(y, m)) = Len(y) + 1
  BY AppendProperties
<1>2. x \o y \in Seq(S) /\ Len(x \o y) = Len(x) + Len(y)
  BY ConcatProperties
<1>3. l \in Seq(S) /\ r \in Seq(S) /\ Len(l) = Len(r)
  BY <1>1, <1>2, ConcatProperties, AppendProperties, LenProperties
<1>4. ASSUME NEW i \in 1 .. Len(l)
      PROVE  l[i] = r[i]
  <2>1. Len(x) \in Nat /\ Len(y) \in Nat /\ Len(l) = Len(x) + Len(y) + 1
    BY <1>1, ConcatProperties, LenProperties
  <2>2. l[i] = IF i <= Len(x) THEN x[i] ELSE Append(y, m)[i - Len(x)]
    <3> DEFINE z == Append(y, m)
    <3> HIDE DEF z
    <3>1. z \in Seq(S) /\ i \in 1 .. Len(x) + Len(z)
      BY <1>1, <2>1 DEF z
    <3>2. (x \o z)[i] = IF i <= Len(x) THEN x[i] ELSE z[i - Len(x)]
      BY <3>1, ConcatProperties
    <3> QED
      BY <3>2, Zenon DEF z
  <2>3. r[i] = IF i <= Len(x) + Len(y) THEN (x \o y)[i] ELSE m
    BY <1>2, <2>1, AppendProperties
  <2>4. CASE i <= Len(x)
    BY <2>1, <2>2, <2>3, <2>4, ConcatProperties
  <2>5. CASE i > Len(x) /\ i <= Len(x) + Len(y)
    <3>1. i - Len(x) \in 1 .. Len(y)
      BY <2>1, <2>5
    <3>2. Append(y, m)[i - Len(x)] = y[i - Len(x)]
      BY <3>1, AppendProperties
    <3>3. (x \o y)[i] = y[i - Len(x)]
      BY <2>1, <2>5, ConcatProperties
    <3> QED
      BY <2>1, <2>2, <2>3, <2>5, <3>2, <3>3
  <2>6. CASE i > Len(x) + Len(y)
    <3>1. i - Len(x) = Len(y) + 1
      BY <2>1, <2>6
    <3>2. Append(y, m)[Len(y) + 1] = m
      BY AppendProperties
    <3> QED
      BY <2>1, <2>2, <2>3, <2>6, <3>1, <3>2
  <2> QED
    BY <2>1, <2>4, <2>5, <2>6
<1> HIDE DEF l, r
<1>5. l = r
  BY <1>3, <1>4, SeqEqual
<1> QED
  BY <1>5 DEF l, r

\* The first message of y moves to the middle.
LEMMA HeadMoved ==
  ASSUME NEW S, NEW x \in Seq(S), NEW y \in Seq(S), y # << >>
  PROVE  (x \o << >>) \o y = (x \o <<Head(y)>>) \o Tail(y)
<1>1. Head(y) \in S /\ Tail(y) \in Seq(S) /\ <<Head(y)>> \in Seq(S)
  BY HeadTailProperties
<1>2. y = <<Head(y)>> \o Tail(y)
  <2>1. SubSeq(y, 1, Len(y)) = <<y[1]>> \o SubSeq(y, 2, Len(y))
    <3>1. 1 \in 1 .. Len(y) /\ Len(y) \in 1 .. Len(y) /\ 1 + 1 = 2
      BY EmptySeq
    <3> QED
      BY <3>1, SubSeqRecursiveFirst
  <2>2. SubSeq(y, 1, Len(y)) = y /\ Tail(y) = SubSeq(y, 2, Len(y)) /\ Head(y) = y[1]
    BY SubSeqFull, TailIsSubSeq
  <2> QED
    BY <2>1, <2>2
<1>3. (x \o <<Head(y)>>) \o Tail(y) = x \o (<<Head(y)>> \o Tail(y))
  BY <1>1, ConcatAssociative
<1>4. x \o << >> = x
  BY ConcatEmptySeq
<1> QED
  BY <1>2, <1>3, <1>4, Zenon

\* Putting one message at the end of what is queued puts it at the end of the
\* stream.
LEMMA StreamQueued ==
  ASSUME TypeOK, NEW c \in Conns, NEW m \in Msg, UNCHANGED <<wire, hand>>,
         send' = [send EXCEPT ![c] = Append(@, m)]
  PROVE  Stream(c)' = Append(Stream(c), m)
<1>1. wire[c] \in Seq(Msg) /\ hand[c] \in Seq(Msg) /\ send[c] \in Seq(Msg)
  BY DEF TypeOK
<1>2. send'[c] = Append(send[c], m)
  BY DEF TypeOK
<1>3. wire[c] \o hand[c] \in Seq(Msg)
  BY <1>1, ConcatProperties
<1>4. (wire[c] \o hand[c]) \o Append(send[c], m) = Append((wire[c] \o hand[c]) \o send[c], m)
  <2> DEFINE x == wire[c] \o hand[c]
             y == send[c]
  <2>1. x \in Seq(Msg) /\ y \in Seq(Msg) /\ m \in Msg
    BY <1>1, <1>3
  <2> HIDE DEF x, y
  <2>2. x \o Append(y, m) = Append(x \o y, m)
    BY <2>1, AppendConcat
  <2> QED
    BY <2>2, Zenon DEF x, y
<1>5. Stream(c)' = (wire[c] \o hand[c]) \o send'[c]
  BY Zenon DEF Stream
<1>6. Stream(c)' = (wire[c] \o hand[c]) \o Append(send[c], m)
  BY <1>2, <1>5, Zenon
<1> QED
  BY <1>4, <1>6, Zenon DEF Stream

\* Numbers and versions the lemmas on streams are applied to.
LEMMA StreamNumbers ==
  ASSUME TypeOK, NEW c \in Conns
  PROVE  /\ seq \in Nat /\ sent \in Nat /\ version \in Nat /\ sent <= version
         /\ joined[c] \in Nat /\ snap[c] \in Nat
BY WsAssumption DEF TypeOK

LEMMA StreamCommit ==
  ASSUME TypeOK, RegInv, StreamInv, MonCommit, NEW c \in Conns
  PROVE  StreamConn(c)'
<1>1. /\ version' = version + 1 /\ ~Fanning
      /\ UNCHANGED <<sent, seq, kind, targets, evicting, pc, snap, writer, hand, wire, joined,
                     clients, send>>
  BY DEF MonCommit, stopVars, connVars
<1>2. Stream(c)' = Stream(c) /\ (Awaited(c))' = Awaited(c) /\ Due(c)' = Due(c)
  BY <1>1 DEF Stream, Awaited, Due
<1>3. PipeConn(c)'
  BY <1>1, <1>2, StreamNumbers DEF StreamInv, StreamConn, PipeConn
<1>4. Bounded(Stream(c), version) => Bounded(Stream(c), version + 1)
  BY StreamType, StreamNumbers, BoundedLater
<1>5. HeldConn(c) => HeldConn(c)'
  BY <1>1, <1>2, <1>4 DEF HeldConn, DeltaAwaited
<1> QED
  BY <1>1, <1>3, <1>5 DEF StreamInv, StreamConn

\* An event begins: it is awaited by every client.  Only a delta changes what a
\* client has to hold.
LEMMA StreamEmit ==
  ASSUME TypeOK, RegInv, StreamInv, EmitLifecycle \/ EmitDelta \/ EmitHealth, NEW c \in Conns
  PROVE  StreamConn(c)'
<1>1. /\ seq' = seq + 1 /\ targets' = clients /\ ~Fanning
      /\ UNCHANGED <<version, evicting, pc, snap, writer, hand, wire, joined, clients, send>>
  BY DEF EmitLifecycle, EmitDelta, EmitHealth, HandleEvent, stopVars, connVars
<1>2. sent' = sent \/ kind' = "delta"
  BY DEF EmitLifecycle, EmitDelta, EmitHealth, HandleEvent
<1>3. /\ StreamConn(c) /\ RegConn(c) /\ ~Awaited(c) /\ Due(c) = seq
      /\ evicting = None /\ Stream(c)' = Stream(c)
  BY <1>1 DEF StreamInv, RegInv, Awaited, Due, Fanning, None, Stream
<1>4. (Awaited(c))' <=> c \in clients
  BY <1>1, <1>3 DEF Awaited, None
<1>5. PipeConn(c)'
  BY <1>1, <1>3, <1>4, StreamNumbers DEF StreamConn, PipeConn, RegConn, Early, Serving, None
<1>6. ASSUME c \in clients
      PROVE  HeldConn(c)'
  <2>1. Due(c)' = Due(c) /\ (Awaited(c))'
    BY <1>1, <1>3, <1>4, <1>6, StreamNumbers DEF Due
  <2>2. /\ Complete(Stream(c), joined[c], Due(c)) /\ Bounded(Stream(c), version)
        /\ pc[c] \in {"snapshot", "send"} => AllEvents(Stream(c))
        /\ pc[c] = "send" /\ NoDelta(Stream(c)) => sent <= snap[c]
        /\ UpTo(Stream(c), sent)
    BY <1>3, <1>6 DEF StreamConn, HeldConn, DeltaAwaited
  <2>3. CASE kind' = "delta"
    BY <1>1, <1>3, <2>1, <2>2, <2>3 DEF HeldConn, DeltaAwaited
  <2>4. CASE sent' = sent
    BY <1>1, <1>3, <2>1, <2>2, <2>4 DEF HeldConn, DeltaAwaited
  <2> QED
    BY <1>2, <2>3, <2>4
<1> QED
  BY <1>1, <1>5, <1>6 DEF StreamConn

\* The event is put at the end of the stream, or the client is to be evicted.
LEMMA StreamTrySend ==
  ASSUME TypeOK, RegInv, StreamInv, NEW c \in Conns, TrySend(c), NEW d \in Conns
  PROVE  StreamConn(d)'
<1> USE DEF monVars, stopVars, connVars
<1>1. /\ c \in targets /\ evicting = None /\ targets' = targets \ {c}
      /\ UNCHANGED <<version, sent, seq, kind, pc, snap, writer, hand, wire, joined, clients>>
  BY DEF TrySend
<1>2. /\ StreamConn(c) /\ RegConn(c) /\ Awaited(c) /\ Due(c) = seq - 1 /\ joined[c] < seq
      /\ pc[c] \notin Early
  BY <1>1 DEF StreamInv, RegInv, Awaited, Due, StreamConn, PipeConn
<1>3. CASE Accepts(c)
  <2>1. send' = [send EXCEPT ![c] = Append(@, Event)] /\ evicting' = evicting
    BY <1>3 DEF TrySend
  <2>2. CASE d # c
    <3>1. Untouched(d)
      BY <1>1, <2>1, <2>2 DEF Untouched, TypeOK
    <3> QED
      BY <1>1, <3>1, StreamFrame DEF StreamInv
  <2>3. CASE d = c
    <3>1. ~(Awaited(c))' /\ Due(c)' = seq
      BY <1>1, <2>1 DEF Awaited, Due, None
    <3>2. PipeConn(c)'
      BY <1>1, <1>2, <2>1, <3>1, StreamNumbers DEF StreamConn, PipeConn, None
    <3>3. Event \in Msg
      BY EventType
    <3> DEFINE s == Stream(c)
               m == Event
    <3>4. Stream(c)' = Append(s, m)
      BY <1>1, <2>1, <3>3, StreamQueued
    <3>5. /\ s \in Seq(Msg) /\ m \in Msg /\ IsEvent(m) /\ m.kind = kind /\ m.n = seq
          /\ m.ver <= version /\ (kind = "delta" => m.ver = sent)
      BY EventType, StreamType
    <3>6. c \in clients => /\ Complete(s, joined[c], seq - 1) /\ Bounded(s, version)
                           /\ pc[c] \in {"snapshot", "send"} => AllEvents(s)
                           /\ kind = "delta" \/ UpTo(s, sent)
                           /\ (pc[c] = "send" /\ NoDelta(s)) =>
                                (kind = "delta" \/ sent <= snap[c])
      BY <1>2 DEF StreamConn, HeldConn, DeltaAwaited
    <3> HIDE DEF s, m
    <3>7. ASSUME c \in clients
          PROVE  HeldConn(c)'
      <4>1. Complete(Append(s, m), joined[c], seq)
        <5>1. seq - 1 \in Nat /\ joined[c] <= seq - 1 /\ m.n = (seq - 1) + 1
          BY <1>2, <3>5, StreamNumbers
        <5>2. Complete(Append(s, m), joined[c], (seq - 1) + 1)
          BY <3>5, <3>6, <3>7, <5>1, StreamNumbers, CompleteNext
        <5>3. (seq - 1) + 1 = seq
          BY StreamNumbers
        <5> QED
          BY <5>2, <5>3
      <4>2. Bounded(Append(s, m), version)
        BY <3>5, <3>6, <3>7, StreamNumbers, BoundedAppend
      <4>3. pc[c] \in {"snapshot", "send"} => AllEvents(Append(s, m))
        BY <3>5, <3>6, <3>7, StreamAppend DEF AllEvents
      <4>4. UpTo(Append(s, m), sent)
        <5>1. CASE kind = "delta"
          BY <3>5, <5>1, StreamNumbers, UpToAppend DEF HasState
        <5>2. CASE kind # "delta"
          BY <3>5, <3>6, <3>7, <5>2, StreamNumbers, UpToKept
        <5> QED
          BY <5>1, <5>2
      <4>5. pc[c] = "send" /\ NoDelta(Append(s, m)) => sent <= snap[c]
        BY <3>5, <3>6, <3>7, NoDeltaAppend
      <4> QED
        BY <1>1, <3>1, <3>4, <4>1, <4>2, <4>3, <4>4, <4>5 DEF HeldConn, DeltaAwaited
    <3> QED
      BY <1>1, <2>3, <3>2, <3>7 DEF StreamConn
  <2> QED
    BY <2>2, <2>3
<1>4. CASE ~Accepts(c)
  <2>1. evicting' = <<c>> /\ send' = send
    BY <1>4 DEF TrySend
  <2>2. CASE d # c
    <3>1. Untouched(d)
      BY <1>1, <2>1, <2>2 DEF Untouched, None
    <3> QED
      BY <1>1, <3>1, StreamFrame DEF StreamInv
  <2>3. CASE d = c
    <3>1. (Awaited(c))' /\ Due(c)' = Due(c) /\ Stream(c)' = Stream(c)
      BY <1>1, <1>2, <2>1 DEF Awaited, Due, Stream
    <3>2. PipeConn(c)'
      BY <1>1, <1>2, <2>1, <3>1 DEF StreamConn, PipeConn
    <3>3. HeldConn(c) => HeldConn(c)'
      BY <1>1, <1>2, <3>1 DEF HeldConn, DeltaAwaited
    <3> QED
      BY <1>1, <1>2, <2>3, <3>2, <3>3 DEF StreamConn
  <2> QED
    BY <2>2, <2>3
<1> QED
  BY <1>3, <1>4

LEMMA StreamServer ==
  ASSUME TypeOK, RegInv, StreamInv, NEW d \in Conns,
         MonCommit \/ MonitorStep \/ EmitHealth \/ StopFlag \/ Stopper
  PROVE  StreamConn(d)'
<1> USE DEF monVars, stopVars, connVars
<1>1. CASE Evict
  <2>1. PICK c \in Conns : evicting = <<c>>
    BY <1>1 DEF Evict, TypeOK
  <2>2. /\ evicting' = None /\ clients' = clients \ {c}
        /\ UNCHANGED <<version, sent, seq, kind, targets, pc, snap, writer, hand, wire, joined, send>>
    BY <1>1, <2>1 DEF Evict, removeConn
  <2>3. CASE d # c
    <3>1. Untouched(d)
      BY <2>1, <2>2, <2>3 DEF Untouched, None
    <3> QED
      BY <2>2, <3>1, StreamFrame DEF StreamInv
  <2>4. CASE d = c
    <3>1. StreamConn(c) /\ ~(Awaited(c))'
      BY <2>1, <2>2 DEF StreamInv, Awaited, None, StreamConn, PipeConn
    <3>2. PipeConn(c)'
      BY <2>1, <2>2, <3>1 DEF StreamConn, PipeConn, None
    <3> QED
      BY <2>2, <2>4, <3>2 DEF StreamConn
  <2> QED
    BY <2>3, <2>4
<1>2. CASE StopFlag \/ Stopper
  <2>1. /\ UNCHANGED <<version, sent, seq, kind, targets, evicting, pc, snap, writer, hand, wire,
                       joined, send>>
        /\ clients' \subseteq clients
    BY <1>2 DEF StopFlag, Stopper, StopSwap, StopReturn, StopClose
  <2>2. Untouched(d)
    BY <2>1 DEF Untouched
  <2> QED
    BY <2>1, <2>2, StreamFrame DEF StreamInv
<1>3. ASSUME NEW c \in Conns, TrySend(c)
      PROVE  StreamConn(d)'
  BY <1>3, StreamTrySend
<1> QED
  BY <1>1, <1>2, <1>3, StreamCommit, StreamEmit DEF MonitorStep

\* The snapshot is put at the end of the stream, unless the buffer is full.
LEMMA StreamSnapshot ==
  ASSUME TypeOK, RegInv, StreamInv, NEW c \in Conns, SendSnapshot(c)
  PROVE  StreamConn(c)'
<1> DEFINE m == [kind |-> "snapshot", n |-> 0, ver |-> snap[c]]
           s == Stream(c)
<1>1. /\ UNCHANGED <<version, sent, seq, kind, targets, evicting, hand, wire, joined, clients>>
      /\ pc[c] = "send" /\ pc' = [pc EXCEPT ![c] = "reading"]
      /\ snap' = [snap EXCEPT ![c] = 0] /\ writer' = [writer EXCEPT ![c] = "run"]
      /\ send' = IF Accepts(c) THEN [send EXCEPT ![c] = Append(@, m)] ELSE send
  BY Zenon DEF SendSnapshot, At, Goto, monVars
<1>2. pc'[c] = "reading" /\ snap'[c] = 0 /\ writer'[c] = "run"
  BY <1>1 DEF TypeOK
<1>3. m \in Msg /\ ~IsEvent(m) /\ HasState(m) /\ m.ver = snap[c] /\ s \in Seq(Msg)
  BY StreamNumbers, StreamType DEF Msg, IsEvent, EventKinds, HasState
<1>4. /\ StreamConn(c) /\ (Awaited(c))' = Awaited(c) /\ Due(c)' = Due(c)
      /\ (DeltaAwaited(c))' = DeltaAwaited(c)
  BY <1>1 DEF StreamInv, Awaited, DeltaAwaited, Due
<1>5. PipeConn(c)'
  BY <1>1, <1>2, <1>4, StreamNumbers DEF StreamConn, PipeConn, Early
<1>6. c \in clients =>
        /\ Complete(s, joined[c], Due(c)) /\ Bounded(s, version)
        /\ AllEvents(s) /\ (NoDelta(s) => DeltaAwaited(c) \/ sent <= snap[c])
        /\ DeltaAwaited(c) \/ UpTo(s, sent)
  BY <1>1, <1>4 DEF StreamConn, HeldConn, DeltaAwaited
<1>7. Due(c) \in Int
  BY StreamNumbers DEF Due
<1> HIDE DEF m
<1>8. CASE Accepts(c)
  <2>1. Stream(c)' = Append(s, m)
    BY <1>1, <1>3, <1>8, StreamQueued
  <2> HIDE DEF s
  <2>2. ASSUME c \in clients
        PROVE  HeldConn(c)'
    <3>1. Complete(Append(s, m), joined[c], Due(c))
      BY <1>3, <1>6, <1>7, <2>2, StreamNumbers, CompleteOther
    <3>2. Bounded(Append(s, m), version)
      <4>1. Bounded(s, version) /\ m.ver <= version /\ version \in Nat
        BY <1>3, <1>4, <1>6, <2>2, StreamNumbers DEF StreamConn, PipeConn
      <4> QED
        BY <1>3, <4>1, BoundedAppend
    <3>3. DeltaAwaited(c) \/ UpTo(Append(s, m), sent)
      <4>1. CASE NoDelta(s) /\ ~DeltaAwaited(c)
        BY <1>3, <1>6, <2>2, <4>1, StreamNumbers, UpToAppend
      <4>2. CASE ~NoDelta(s)
        BY <1>3, <1>6, <2>2, <4>2, StreamNumbers, UpToVacuous
      <4> QED
        BY <4>1, <4>2
    <3> QED
      BY <1>1, <1>2, <1>4, <2>1, <3>1, <3>2, <3>3 DEF HeldConn, DeltaAwaited
  <2> QED
    BY <1>1, <1>5, <2>2 DEF StreamConn
<1>9. CASE ~Accepts(c)
  <2>1. Stream(c)' = s
    BY <1>1, <1>9 DEF Stream
  <2>2. ASSUME c \in clients
        PROVE  HeldConn(c)'
    BY <1>1, <1>2, <1>4, <1>6, <2>1, <2>2 DEF HeldConn, DeltaAwaited
  <2> QED
    BY <1>1, <1>5, <2>2 DEF StreamConn
<1> QED
  BY <1>8, <1>9

LEMMA StreamHandler ==
  ASSUME TypeOK, RegInv, StreamInv, NEW c \in Conns, NEW d \in Conns,
         CheckStopped(c) \/ Refuse(c) \/ Handler(c)
  PROVE  StreamConn(d)'
<1> USE DEF monVars, stopVars, connVars, Goto, At
<1>1. UNCHANGED <<version, sent, seq, kind, targets, evicting, hand, wire>>
  BY DEF CheckStopped, Refuse, Handler, AddConn, TakeSnapshot, SendSnapshot, ReadFails, Return
<1>2. CASE d # c
  <2>1. /\ send'[d] = send[d] /\ writer'[d] = writer[d] /\ pc'[d] = pc[d]
        /\ snap'[d] = snap[d] /\ joined'[d] = joined[d]
    <3>1. CASE AddConn(c)
      BY <1>2, <3>1 DEF AddConn, TypeOK
    <3>2. CASE SendSnapshot(c)
      BY <1>2, <3>2 DEF SendSnapshot, TypeOK
    <3> QED
      BY <1>2, <3>1, <3>2 DEF CheckStopped, Refuse, Handler, TakeSnapshot, ReadFails, Return,
        TypeOK
  <2>2. clients' \subseteq clients \cup {c}
    BY DEF CheckStopped, Refuse, Handler, AddConn, TakeSnapshot, SendSnapshot, ReadFails, Return,
      removeConn
  <2>3. Untouched(d)
    BY <1>1, <1>2, <2>1, <2>2 DEF Untouched
  <2> QED
    BY <1>1, <2>3, StreamFrame DEF StreamInv
<1>3. CASE SendSnapshot(c) /\ d = c
  BY <1>3, StreamSnapshot
<1>4. CASE AddConn(c) /\ HasRoom /\ d = c
  <2>1. /\ clients' = clients \cup {c} /\ pc[c] = "admitted"
        /\ pc' = [pc EXCEPT ![c] = "snapshot"] /\ joined' = [joined EXCEPT ![c] = seq]
        /\ UNCHANGED <<snap, writer, send>>
    BY <1>4, Zenon DEF AddConn
  <2>2. pc'[c] = "snapshot" /\ joined'[c] = seq
    BY <2>1 DEF TypeOK
  <2>3. /\ PipeConn(c) /\ ~(Awaited(c))' /\ ~Awaited(c)
        /\ wire[c] = << >> /\ hand[c] = << >> /\ send[c] = << >>
    BY <1>1, <2>1 DEF StreamInv, StreamConn, PipeConn, Awaited, Early
  <2>4. PipeConn(c)'
    BY <1>1, <2>1, <2>2, <2>3, StreamNumbers DEF PipeConn, Early
  <2>5. Stream(c)' = << >> /\ Due(c)' = seq
    BY <1>1, <2>1, <2>3 DEF Stream, Due, Awaited
  <2>6. Complete(<< >>, seq, seq)
    BY StreamNumbers, CompleteEmpty
  <2>7. Bounded(<< >>, version) /\ AllEvents(<< >>) /\ UpTo(<< >>, sent)
    BY DEF Bounded, AllEvents, UpTo, SnapshotLeads
  <2>8. HeldConn(c)'
    BY <1>1, <2>2, <2>5, <2>6, <2>7 DEF HeldConn, DeltaAwaited
  <2> QED
    BY <1>4, <2>4, <2>8 DEF StreamConn
<1>5. CASE TakeSnapshot(c) /\ d = c
  <2>1. /\ pc[c] = "snapshot" /\ pc'[c] = "send" /\ snap'[c] = version
        /\ UNCHANGED <<joined, writer, send, clients>>
    BY <1>5 DEF TakeSnapshot, TypeOK
  <2>2. StreamConn(c) /\ (Awaited(c))' = Awaited(c) /\ Due(c)' = Due(c) /\ Stream(c)' = Stream(c)
    BY <1>1, <2>1 DEF StreamInv, Awaited, Due, Stream
  <2>3. PipeConn(c)'
    BY <1>1, <2>1, <2>2, StreamNumbers DEF StreamConn, PipeConn, Early
  <2>4. HeldConn(c) => HeldConn(c)'
    BY <1>1, <2>1, <2>2, StreamNumbers DEF HeldConn, DeltaAwaited
  <2> QED
    BY <1>5, <2>1, <2>2, <2>3, <2>4 DEF StreamConn
<1>6. CASE /\ d = c
           /\ CheckStopped(c) \/ Refuse(c) \/ (AddConn(c) /\ ~HasRoom) \/ ReadFails(c) \/ Return(c)
  <2>1. /\ UNCHANGED <<snap, joined, writer, send>> /\ clients' \subseteq clients
        /\ pc'[c] \notin {"snapshot", "send"}
        /\ pc'[c] \in Early => pc[c] \in Early
    <3>1. CASE AddConn(c) /\ ~HasRoom
      BY <3>1 DEF AddConn, Early, TypeOK
    <3>2. CASE CheckStopped(c)
      BY <3>2 DEF CheckStopped, Early, TypeOK
    <3>3. CASE Refuse(c) \/ ReadFails(c) \/ Return(c)
      BY <3>3 DEF Refuse, ReadFails, Return, removeConn, Early, TypeOK
    <3> QED
      BY <1>6, <3>1, <3>2, <3>3
  <2>2. StreamConn(c) /\ (Awaited(c))' = Awaited(c) /\ Stream(c)' = Stream(c)
    BY <1>1, <2>1 DEF StreamInv, Awaited, Stream
  <2>3. PipeConn(c)'
    BY <1>1, <2>1, <2>2 DEF StreamConn, PipeConn
  <2>4. HeldConn(c) => HeldConn(c)'
    BY <1>1, <2>1, <2>2, HeldKept
  <2> QED
    BY <1>6, <2>1, <2>2, <2>3, <2>4 DEF StreamConn
<1> QED
  BY <1>2, <1>3, <1>4, <1>5, <1>6 DEF Handler

LEMMA StreamPumps ==
  ASSUME TypeOK, RegInv, StreamInv, NEW c \in Conns, NEW d \in Conns,
         WritePump(c) \/ HeartbeatLoop(c) \/ Silence(c) \/ Disconnect(c)
  PROVE  StreamConn(d)'
<1> USE DEF monVars, stopVars, connVars
<1>1. /\ UNCHANGED <<version, sent, seq, kind, targets, evicting, pc, snap, joined>>
      /\ clients' \subseteq clients
  BY DEF WritePump, HeartbeatLoop, Take, WriteOK, WriteFails, CloseWs, HeartbeatEnds, PingFails,
    Silence, Disconnect, removeConn
<1>2. CASE d # c
  <2>1. /\ wire'[d] = wire[d] /\ hand'[d] = hand[d] /\ send'[d] = send[d]
        /\ writer'[d] = writer[d]
    BY <1>2 DEF WritePump, HeartbeatLoop, Take, WriteOK, WriteFails, CloseWs, HeartbeatEnds,
      PingFails, Silence, Disconnect, TypeOK
  <2>2. Untouched(d)
    BY <1>1, <2>1 DEF Untouched
  <2> QED
    BY <1>1, <2>2, StreamFrame DEF StreamInv
<1>3. StreamConn(c) /\ (Awaited(c))' = Awaited(c)
  BY <1>1 DEF StreamInv, Awaited
<1>4. wire[c] \in Seq(Msg) /\ hand[c] \in Seq(Msg) /\ send[c] \in Seq(Msg)
  BY DEF TypeOK
<1>5. CASE Take(c) /\ d = c
  <2>1. /\ writer[c] = "run" /\ send[c] # << >> /\ writer'[c] = "write"
        /\ hand'[c] = <<Head(send[c])>> /\ send'[c] = Tail(send[c]) /\ wire' = wire
        /\ UNCHANGED clients
    BY <1>5 DEF Take, TypeOK
  <2>2. hand[c] = << >> /\ pc[c] \notin Early \cup {"snapshot", "send"}
    BY <1>3, <2>1 DEF StreamConn, PipeConn
  <2>3. Stream(c)' = Stream(c)
    <3>1. (wire[c] \o << >>) \o send[c] = (wire[c] \o <<Head(send[c])>>) \o Tail(send[c])
      BY <1>4, <2>1, HeadMoved
    <3>2. Stream(c)' = (wire[c] \o hand'[c]) \o send'[c]
      BY <2>1, Zenon DEF Stream
    <3> QED
      BY <2>1, <2>2, <3>1, <3>2, Zenon DEF Stream
  <2>4. PipeConn(c)'
    BY <1>1, <1>3, <2>1, <2>2 DEF StreamConn, PipeConn
  <2>5. HeldConn(c) => HeldConn(c)'
    BY <1>1, <2>3, HeldKept
  <2> QED
    BY <1>3, <1>5, <2>1, <2>4, <2>5 DEF StreamConn
<1>6. CASE WriteOK(c) /\ d = c
  <2>1. /\ writer[c] = "write" /\ writer'[c] = "run" /\ wire'[c] = wire[c] \o hand[c]
        /\ hand'[c] = << >> /\ UNCHANGED <<send, clients>>
    BY <1>6 DEF WriteOK, TypeOK, None
  <2>2. pc[c] \notin Early \cup {"snapshot", "send"}
    BY <1>3, <2>1 DEF StreamConn, PipeConn
  <2>3. Stream(c)' = Stream(c)
    <3>1. wire[c] \o hand[c] \in Seq(Msg)
      BY <1>4, ConcatProperties
    <3>2. (wire[c] \o hand[c]) \o << >> = wire[c] \o hand[c]
      BY <3>1, ConcatEmptySeq
    <3>3. Stream(c)' = (wire'[c] \o hand'[c]) \o send[c]
      BY <2>1, Zenon DEF Stream
    <3> QED
      BY <2>1, <3>2, <3>3, Zenon DEF Stream
  <2>4. PipeConn(c)'
    BY <1>1, <1>3, <2>1, <2>2 DEF StreamConn, PipeConn
  <2>5. HeldConn(c) => HeldConn(c)'
    BY <1>1, <2>3, HeldKept
  <2> QED
    BY <1>3, <1>6, <2>1, <2>4, <2>5 DEF StreamConn
<1>7. CASE WriteFails(c) /\ d = c
  <2>1. /\ writer[c] = "write" /\ writer'[c] = "done" /\ hand'[c] = << >> /\ c \notin clients'
        /\ UNCHANGED <<wire, send>>
    BY <1>7 DEF WriteFails, removeConn, TypeOK, None
  <2>2. pc[c] \notin Early \cup {"snapshot", "send"}
    BY <1>3, <2>1 DEF StreamConn, PipeConn
  <2>3. PipeConn(c)'
    BY <1>1, <1>3, <2>1, <2>2 DEF StreamConn, PipeConn
  <2> QED
    BY <1>7, <2>1, <2>3 DEF StreamConn
<1>8. CASE /\ d = c
           /\ CloseWs(c) \/ HeartbeatLoop(c) \/ Silence(c) \/ Disconnect(c)
  <2>1. /\ UNCHANGED <<wire, hand, send>>
        /\ writer'[c] = writer[c] \/ (writer[c] = "run" /\ writer'[c] = "done")
    BY <1>8 DEF CloseWs, HeartbeatLoop, HeartbeatEnds, PingFails, Silence, Disconnect, TypeOK
  <2>2. Stream(c)' = Stream(c)
    BY <2>1 DEF Stream
  <2>3. PipeConn(c)'
    BY <1>1, <1>3, <2>1 DEF StreamConn, PipeConn
  <2>4. HeldConn(c) => HeldConn(c)'
    BY <1>1, <2>2, HeldKept
  <2> QED
    BY <1>1, <1>3, <1>8, <2>3, <2>4 DEF StreamConn
<1> QED
  BY <1>2, <1>5, <1>6, <1>7, <1>8 DEF WritePump

LEMMA StreamStep ==
  ASSUME TypeOK, RegInv, StreamInv, [Next]_vars
  PROVE  StreamInv'
<1> SUFFICES ASSUME NEW d \in Conns
             PROVE  StreamConn(d)'
  BY DEF StreamInv
<1>1. CASE UNCHANGED vars
  <2>1. Untouched(d) /\ UNCHANGED <<seq, kind, sent, version>>
    BY <1>1 DEF vars, monVars, stopVars, connVars, Untouched
  <2> QED
    BY <2>1, StreamFrame DEF StreamInv
<1>2. CASE Next
  BY <1>2, StreamServer, StreamHandler, StreamPumps DEF Next
<1> QED
  BY <1>1, <1>2

\* A registered client has every event since it joined but the one still under
\* way, in order and once each: a client that could miss one is evicted first.
THEOREM NothingIsMissed == Spec => []NoSilentGap
<1>1. TypeOK /\ StreamInv => NoSilentGap
  BY DEF TypeOK, StreamInv, StreamConn, HeldConn, DeltaAwaited, NoSilentGap
<1> QED
  BY TypeInit, TypeStep, RegInit, RegStep, StreamInit, StreamStep, <1>1, PTL DEF Spec

\* A client that begins with the snapshot is up to date as soon as the monitor
\* has delivered what it committed, although registration, snapshot and events
\* are separate steps.
THEOREM SnapshotThenCurrent == Spec => []CurrentAfterSnapshot
<1>1. ASSUME TypeOK, StreamInv, NEW c \in clients,
             ~Fanning, sent = version, SnapshotLeads(Stream(c))
      PROVE  Holds(Stream(c), version)
  <2> DEFINE s == Stream(c)
  <2>1. c \in Conns /\ ~DeltaAwaited(c)
    <3>1. c \in Conns
      BY <1>1 DEF TypeOK
    <3>2. c \notin targets /\ evicting = << >>
      BY <1>1, Zenon DEF Fanning, None
    <3> QED
      BY <3>1, <3>2 DEF DeltaAwaited, Awaited
  <2>2. Bounded(s, version) /\ UpTo(s, version) /\ SnapshotLeads(s) /\ s \in Seq(Msg)
    BY <1>1, <2>1, StreamType DEF StreamInv, StreamConn, HeldConn
  <2> HIDE DEF s
  <2>3. PICK i \in DOMAIN s : /\ HasState(s[i]) /\ version <= s[i].ver
                             /\ \A j \in DOMAIN s : i < j => ~HasState(s[j])
    BY <2>2 DEF UpTo
  <2>4. s[i] \in Msg
    BY <2>2, LenProperties, ElementOfSeq
  <2>5. s[i].ver <= version /\ s[i].ver \in Nat /\ version \in Nat
    BY <1>1, <2>1, <2>2, <2>4, StreamNumbers DEF Bounded, Msg
  <2>6. s[i].ver = version
    BY <2>3, <2>5
  <2>7. Holds(s, version)
    BY <2>3, <2>6 DEF Holds
  <2> QED
    BY <2>7 DEF s
<1>2. TypeOK /\ StreamInv => CurrentAfterSnapshot
  BY <1>1 DEF CurrentAfterSnapshot
<1> QED
  BY TypeInit, TypeStep, RegInit, RegStep, StreamInit, StreamStep, <1>2, PTL DEF Spec

=============================================================================
