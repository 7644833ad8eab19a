-------------------------- MODULE LobbyStreamProofs --------------------------
(***************************************************************************)
(* TypeOK of the control-plane stream, the channel capacity bound          *)
(* included, holds for every queue capacity and every bound.  SInv adds    *)
(* that before the loop ends no exit reason is set, and that the silent    *)
(* exit on dropped senders (lines 80-83) leaves no frame in the queue;     *)
(* after any exit the worker changes nothing.                              *)
(***************************************************************************)
EXTENDS LobbyStream, TLAPS

USE StreamAssumption

\* The stream has not left the loop: no exit reason is set.
Running ==
  phase \in {"connecting", "loop"} => exit_reason = "None"

\* A silent exit on dropped senders happened with every frame written.
DroppedDrained ==
  exit_reason = "dropped" => phase = "exited" /\ outq = <<>>

SInv == TypeOK /\ Running /\ DroppedDrained

\* The fields of an inbound frame, by its type.
LEMMA FrameFields ==
  ASSUME NEW f \in ServerFrame
  PROVE  /\ f.type \in {"Ping", "Passthrough", "Unexpected", "LobbyDisconnect",
                        "GameInfo", "PlayerSessionUpdate", "ListNodes",
                        "GameSelectNode"}
         /\ f.type = "GameInfo" => f.node \in NodeId \cup {None}
         /\ f.type = "PlayerSessionUpdate" => f.game \in GameId \cup {None}
         /\ f.type = "ListNodes" => f.nodes \subseteq NodeId
         /\ f.type = "GameSelectNode" => f.node \in NodeId \cup {None}
BY DEF ServerFrame

\* send_message to the sink: the loop goes on with the message appended,
\* or ends with a dispatch error.
LEMMA EmitEffect ==
  ASSUME TypeOK, NEW msg \in SinkMessage, Emit(msg)
  PROVE  /\ sink' \in Seq(SinkMessage)
         /\ \/ phase' = phase /\ exit_reason' = exit_reason
            \/ phase' = "exited" /\ exit_reason' = "dispatch"
<1>1. CASE sink_up
  <2>1. sink' = Append(sink, msg) /\ phase' = phase /\ exit_reason' = exit_reason
    BY <1>1 DEF Emit
  <2>. QED
    BY <2>1 DEF TypeOK
<1>2. CASE ~sink_up
  <2>1. DispatchFailed
    BY <1>2 DEF Emit
  <2>2. sink' = sink /\ phase' = "exited" /\ exit_reason' = "dispatch"
    BY <1>2, <2>1 DEF DispatchFailed, Emitted, ExitLoop
  <2>. QED
    BY <2>2 DEF TypeOK
<1>. QED
  BY <1>1, <1>2

LEMMA DispatchFailedEffect ==
  ASSUME TypeOK, DispatchFailed
  PROVE  /\ sink' \in Seq(SinkMessage)
         /\ phase' = "exited" /\ exit_reason' = "dispatch"
<1>1. "Disconnect" \in SinkMessage
  BY DEF SinkMessage
<1>2. sink' = IF sink_up THEN Append(sink, "Disconnect") ELSE sink
  BY DEF DispatchFailed, Emitted
<1>3. sink' \in Seq(SinkMessage)
  <2>1. CASE sink_up
    BY <1>1, <1>2, <2>1 DEF TypeOK
  <2>2. CASE ~sink_up
    BY <1>2, <2>2 DEF TypeOK
  <2>. QED
    BY <2>1, <2>2
<1>. QED
  BY <1>3 DEF DispatchFailed, ExitLoop

\* One dispatched frame keeps the node registry's types, and the loop
\* goes on or ends with a dispatch error.
LEMMA DispatchEffect ==
  ASSUME TypeOK, NEW f \in ServerFrame, Dispatch(f)
  PROVE  /\ sink' \in Seq(SinkMessage)
         /\ \/ phase' = phase /\ exit_reason' = exit_reason
            \/ phase' = "exited" /\ exit_reason' = "dispatch"
         /\ current_game' \in GameId \cup {None}
         /\ registry' \subseteq NodeId
         /\ selected' \in NodeId \cup {None}
<1> USE FrameFields DEF TypeOK, node_vars
<1>a. "CurrentGameInfo" \in SinkMessage /\ "Disconnect" \in SinkMessage
      /\ "Passthrough" \in SinkMessage /\ "PlayerSessionUpdate" \in SinkMessage
      /\ "ListNodes" \in SinkMessage /\ "GameSelectNode" \in SinkMessage
  BY DEF SinkMessage
<1>1. CASE /\ f.type = "LobbyDisconnect"
           /\ IF f.ok THEN Emit("Disconnect") ELSE DispatchFailed
           /\ UNCHANGED node_vars
  <2>1. CASE f.ok
    <3>1. Emit("Disconnect")
      BY <1>1, <2>1
    <3>. QED
      BY <1>1, <3>1, <1>a, EmitEffect
  <2>2. CASE ~f.ok
    <3>1. DispatchFailed
      BY <1>1, <2>2
    <3>. QED
      BY <1>1, <3>1, DispatchFailedEffect
  <2>. QED
    BY <2>1, <2>2
<1>2. CASE f.type = "GameInfo" /\ OnGameInfo(f)
  <2>1. CASE SetSelectedNodeOk(f.node)
    BY <1>2, <2>1, <1>a, EmitEffect, DispatchFailedEffect
    DEF OnGameInfo, SetSelectedNode, SetSelectedNodeOk
  <2>2. CASE ~SetSelectedNodeOk(f.node)
    BY <1>2, <2>2, DispatchFailedEffect DEF OnGameInfo
  <2>. QED
    BY <2>1, <2>2
<1>3. CASE f.type = "Passthrough" /\ Emit("Passthrough") /\ UNCHANGED node_vars
  BY <1>3, <1>a, EmitEffect
<1>4. CASE f.type = "PlayerSessionUpdate" /\ OnPlayerSessionUpdate(f)
  BY <1>4, <1>a, EmitEffect, DispatchFailedEffect DEF OnPlayerSessionUpdate
<1>5. CASE /\ f.type = "ListNodes"
           /\ UpdateNodes(f.nodes)
           /\ Emit("ListNodes")
           /\ UNCHANGED current_game
  BY <1>5, <1>a, EmitEffect DEF UpdateNodes
<1>6. CASE f.type = "GameSelectNode" /\ OnGameSelectNode(f)
  <2>1. CASE SetSelectedNodeOk(f.node)
    BY <1>6, <2>1, <1>a, EmitEffect
    DEF OnGameSelectNode, SetSelectedNode, SetSelectedNodeOk
  <2>2. CASE ~SetSelectedNodeOk(f.node)
    BY <1>6, <2>2, DispatchFailedEffect DEF OnGameSelectNode
  <2>. QED
    BY <2>1, <2>2
<1>7. CASE f.type = "Unexpected" /\ DispatchFailed /\ UNCHANGED node_vars
  BY <1>7, DispatchFailedEffect
<1>. QED
  BY <1>1, <1>2, <1>3, <1>4, <1>5, <1>6, <1>7 DEF Dispatch

LEMMA InitSInv == Init => SInv
<1> SUFFICES ASSUME Init PROVE SInv
  OBVIOUS
<1>1. TypeOK
  <2>1. senders_alive \in BOOLEAN /\ server_up \in BOOLEAN /\ sink_up \in BOOLEAN
    BY Zenon DEF Init
  <2>. QED
    BY <2>1 DEF Init, TypeOK, ExitReason
<1>. QED
  BY <1>1 DEF Init, SInv, Running, DroppedDrained

\* Every step keeps SInv.  The only exit that keeps no queue is a silent
\* one on dropped senders, and it happens with the queue empty; after an
\* exit the worker and the environment change nothing.
LEMMA NextSInv == SInv /\ [Next]_vars => SInv'
<1> SUFFICES ASSUME SInv, [Next]_vars PROVE SInv'
  OBVIOUS
<1>0. TypeOK /\ Running /\ DroppedDrained
  BY DEF SInv
<1>s. SinkMessage = {"PlayerSession", "Disconnect", "CurrentGameInfo",
                     "Passthrough", "PlayerSessionUpdate", "ListNodes",
                     "GameSelectNode"}
  BY DEF SinkMessage
<1>1. CASE Connect
  <2>1. /\ phase = "connecting"
        /\ UNCHANGED <<queue_vars, to_server, registry, selected, env_vars,
                       ninbound>>
    BY <1>1 DEF Connect
  <2>2. \/ phase' = "failed" /\ exit_reason' \in {"IoError", "Rejected", "SinkError"}
                            /\ UNCHANGED <<sink, current_game>>
        \/ /\ phase' = "loop" /\ exit_reason' = exit_reason
           /\ sink' = <<"PlayerSession">> /\ current_game' \in GameId \cup {None}
        \/ /\ phase' = "failed" /\ exit_reason' = "SinkError"
           /\ sink' = sink /\ current_game' \in GameId \cup {None}
    BY <1>1 DEF Connect
  <2>3. TypeOK'
    <3>1. senders_alive' \in BOOLEAN /\ server_up' \in BOOLEAN
          /\ sink_up' \in BOOLEAN
      BY <1>0, <2>1, Zenon DEF TypeOK, queue_vars, env_vars
    <3>2. /\ sink' \in Seq(SinkMessage)
          /\ current_game' \in GameId \cup {None}
          /\ phase' \in {"connecting", "loop", "exited", "failed"}
          /\ exit_reason' \in ExitReason
      <4>1. "PlayerSession" \in SinkMessage
        BY <1>s
      <4>2. {"IoError", "Rejected", "SinkError"} \subseteq ExitReason
        BY DEF ExitReason
      <4>3. exit_reason \in ExitReason
        BY <1>0 DEF TypeOK
      <4>4. sink \in Seq(SinkMessage) /\ current_game \in GameId \cup {None}
        BY <1>0 DEF TypeOK
      <4>5. <<"PlayerSession">> \in Seq(SinkMessage)
        BY <4>1
      <4>. QED
        BY <2>2, <4>2, <4>3, <4>4, <4>5
    <3>. QED
      BY <1>0, <2>1, <3>1, <3>2 DEF TypeOK, queue_vars, env_vars
  <2>. QED
    BY <1>0, <2>1, <2>2, <2>3
    DEF SInv, Running, DroppedDrained, queue_vars
<1>2. CASE SendOutbound
  <2>1. /\ phase = "loop" /\ outq # <<>> /\ outq' = Tail(outq)
        /\ UNCHANGED <<queued, senders_alive, sink, node_vars, env_vars,
                       ninbound>>
    BY <1>2 DEF SendOutbound
  <2>2. /\ Head(outq) \in 1..MaxOutbound /\ Head(outq) # Pong
        /\ Tail(outq) \in Seq(1..MaxOutbound)
        /\ Len(Tail(outq)) <= QueueCapacity
    BY <2>1, <1>0 DEF TypeOK, Pong
  <2>3. CASE to_server' = Append(to_server, Head(outq))
             /\ UNCHANGED <<phase, exit_reason>>
    <3>1. TypeOK'
      BY <1>0, <2>1, <2>2, <2>3 DEF TypeOK, node_vars, env_vars
    <3>. QED
      BY <1>0, <2>1, <2>3, <3>1
      DEF SInv, Running, DroppedDrained, node_vars
  <2>4. CASE UNCHANGED to_server /\ ExitLoop("send")
    <3>1. TypeOK'
      BY <1>0, <2>1, <2>2, <2>4 DEF TypeOK, node_vars, env_vars, ExitLoop,
                                    ExitReason
    <3>. QED
      BY <1>0, <2>1, <2>4, <3>1
      DEF SInv, Running, DroppedDrained, node_vars, ExitLoop
  <2>. QED
    BY <1>2, <2>3, <2>4 DEF SendOutbound
<1>3. CASE SendersGone
  <2>1. /\ phase = "loop" /\ outq = <<>>
        /\ phase' = "exited" /\ exit_reason' = "dropped"
        /\ UNCHANGED <<queue_vars, to_server, sink, node_vars, env_vars,
                       ninbound>>
    BY <1>3 DEF SendersGone, ExitLoop
  <2>2. TypeOK'
    BY <1>0, <2>1 DEF TypeOK, queue_vars, node_vars, env_vars, ExitReason
  <2>. QED
    BY <1>0, <2>1, <2>2
    DEF SInv, Running, DroppedDrained, queue_vars,
        node_vars
<1>4. CASE RecvPing
  <2>1. /\ phase = "loop" /\ ninbound < MaxInbound /\ ninbound' = ninbound + 1
        /\ UNCHANGED <<queue_vars, sink, node_vars, env_vars>>
    BY <1>4 DEF RecvPing
  <2>2. CASE to_server' = Append(to_server, Pong)
             /\ UNCHANGED <<phase, exit_reason>>
    <3>1. TypeOK'
      BY <1>0, <2>1, <2>2 DEF TypeOK, Pong, queue_vars, node_vars, env_vars
    <3>. QED
      BY <1>0, <2>1, <2>2, <3>1
      DEF SInv, Running, DroppedDrained, node_vars
  <2>3. CASE UNCHANGED to_server /\ ExitLoop("send")
    <3>1. TypeOK'
      BY <1>0, <2>1, <2>3 DEF TypeOK, ExitLoop, ExitReason, queue_vars,
                              node_vars, env_vars
    <3>. QED
      BY <1>0, <2>1, <2>3, <3>1
      DEF SInv, Running, DroppedDrained, node_vars, ExitLoop
  <2>. QED
    BY <1>4, <2>2, <2>3 DEF RecvPing
<1>5. ASSUME NEW f \in ServerFrame, RecvFrame(f) PROVE SInv'
  <2>1. /\ phase = "loop" /\ ninbound < MaxInbound /\ ninbound' = ninbound + 1
        /\ Dispatch(f)
        /\ UNCHANGED <<queue_vars, to_server, env_vars>>
    BY <1>5 DEF RecvFrame
  <2>2. /\ sink' \in Seq(SinkMessage)
        /\ \/ phase' = phase /\ exit_reason' = exit_reason
           \/ phase' = "exited" /\ exit_reason' = "dispatch"
        /\ current_game' \in GameId \cup {None}
        /\ registry' \subseteq NodeId
        /\ selected' \in NodeId \cup {None}
    BY <1>0, <2>1, DispatchEffect
  <2>3. TypeOK'
    BY <1>0, <2>1, <2>2 DEF TypeOK, ExitReason, queue_vars, env_vars
  <2>. QED
    BY <1>0, <2>1, <2>2, <2>3
    DEF SInv, Running, DroppedDrained, queue_vars
<1>6. CASE RecvError
  <2>1. /\ phase = "loop"
        /\ sink' = Emitted("Disconnect")
        /\ phase' = "exited" /\ exit_reason' = "recv"
        /\ UNCHANGED <<queue_vars, to_server, node_vars, env_vars, ninbound>>
    BY <1>6 DEF RecvError, ExitLoop
  <2>2. sink' \in Seq(SinkMessage)
    <3>1. CASE sink_up
      BY <1>0, <1>s, <2>1, <3>1 DEF Emitted, TypeOK
    <3>2. CASE ~sink_up
      BY <1>0, <2>1, <3>2 DEF Emitted, TypeOK
    <3>. QED
      BY <3>1, <3>2
  <2>3. TypeOK'
    BY <1>0, <2>1, <2>2 DEF TypeOK, ExitReason, queue_vars, node_vars,
                            env_vars
  <2>. QED
    BY <1>0, <2>1, <2>3
    DEF SInv, Running, DroppedDrained, node_vars
<1>7. CASE Enqueue
  <2>1. /\ phase = "loop" /\ queued < MaxOutbound
        /\ Len(outq) < QueueCapacity
        /\ queued' = queued + 1 /\ outq' = Append(outq, queued + 1)
        /\ UNCHANGED <<phase, exit_reason, senders_alive, to_server, sink,
                       node_vars, env_vars, ninbound>>
    BY <1>7 DEF Enqueue
  <2>2. TypeOK'
    BY <1>0, <2>1 DEF TypeOK, node_vars, env_vars
  <2>. QED
    BY <1>0, <2>1, <2>2
    DEF SInv, Running, DroppedDrained, node_vars
<1>8. CASE DropSenders \/ ServerClose \/ SinkClose
  <2>1. /\ UNCHANGED <<phase, exit_reason, outq, queued, to_server, sink,
                       node_vars, ninbound>>
        /\ senders_alive' \in BOOLEAN
        /\ server_up' \in BOOLEAN
        /\ sink_up' \in BOOLEAN
    BY <1>0, <1>8, Zenon DEF DropSenders, ServerClose, SinkClose, TypeOK,
                            queue_vars, env_vars
  <2>2. TypeOK'
    BY <1>0, <2>1 DEF TypeOK, node_vars
  <2>. QED
    BY <1>0, <2>1, <2>2
    DEF SInv, Running, DroppedDrained, node_vars
<1>9. CASE UNCHANGED vars
  <2>1. UNCHANGED <<phase, exit_reason, outq, queued, senders_alive,
                    to_server, sink, current_game, registry, selected,
                    server_up, sink_up, ninbound>>
    BY <1>9 DEF vars, queue_vars, node_vars, env_vars
  <2>. QED
    BY <1>0, <2>1
    DEF SInv, TypeOK, Running, DroppedDrained
<1>. QED
  BY <1>1, <1>2, <1>3, <1>4, <1>5, <1>6, <1>7, <1>8, <1>9
  DEF Next, Worker, Environment

\* The strengthened invariant SInv holds in every reachable state of
\* run_lobby_stream: the induction of InitSInv and NextSInv.
THEOREM SInvInvariant == Spec => []SInv
BY InitSInv, NextSInv, PTL DEF Spec

\* Every variable of the stream keeps its type, and the channel never
\* holds more than its capacity (TypeOK, checked by the run lobby_stream).
THEOREM StreamTypeCorrect == Spec => []TypeOK
<1>1. SInv => TypeOK
  BY DEF SInv
<1>. QED
  BY <1>1, SInvInvariant, PTL

=============================================================================
