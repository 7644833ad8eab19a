---------------------------- MODULE LobbyStream ----------------------------
(***************************************************************************)
(* The control-plane stream of the flo client                              *)
(* (src/binaries/flo/src/net/lobby.rs): LobbyStream::connect, the worker   *)
(* task's select! loop over the outbound mpsc queue and the inbound        *)
(* frames, dispatch, and send_message to the user-facing sink.             *)
(*                                                                         *)
(* The lobby server, the producers holding a clone of the frame sender     *)
(* and the user-facing sink are the environment.  Outbound frames are      *)
(* numbered in the order they are queued; inbound frames are records       *)
(* chosen from ServerFrame.  The node registry (net/node.rs) is not in     *)
(* the repository's sources: set_selected_node and update_nodes are        *)
(* modelled from the NodeRegistry paragraph of the spec.                   *)
(***************************************************************************)
EXTENDS Naturals, Sequences

CONSTANTS
  NodeId,          \* node ids the server may name
  GameId,          \* game ids the server may name
  QueueCapacity,   \* mpsc::channel(5), line 61
  MaxOutbound,     \* bound on the frames producers queue
  MaxInbound       \* bound on the frames the server sends

ASSUME StreamAssumption ==
  /\ QueueCapacity \in Nat \ {0}
  /\ MaxOutbound \in Nat
  /\ MaxInbound \in Nat

None == "None"

\* What reaches the user-facing sink (OutgoingMessage); the passthrough
\* arms of dispatch (lines 178-186, 214-219) are one kind.
SinkMessage == {"PlayerSession", "Disconnect", "CurrentGameInfo",
                "Passthrough", "PlayerSessionUpdate", "ListNodes",
                "GameSelectNode"}

\* The frames dispatch distinguishes.  `ok` is FALSE when the packet's
\* payload fails to unpack or extract (lines 167, 176, 192).
ServerFrame ==
       [type : {"Ping", "Passthrough", "Unexpected"}]
  \cup [type : {"LobbyDisconnect"}, ok : BOOLEAN]
  \cup [type : {"GameInfo"}, node : NodeId \cup {None}, ok : BOOLEAN]
  \cup [type : {"PlayerSessionUpdate"}, game : GameId \cup {None},
        ok : BOOLEAN]
  \cup [type : {"ListNodes"}, nodes : SUBSET NodeId]
  \cup [type : {"GameSelectNode"}, node : NodeId \cup {None}]

\* Why connect() failed, or why the worker loop broke.
\* The Pong frame written to the server; queued frames are numbered 1, 2, ...
Pong == 0

ExitReason == {"None", "IoError", "Rejected", "SinkError", "send", "recv",
               "dispatch", "dropped"}

VARIABLES
  phase,          \* "connecting", "loop" (worker running), "exited", "failed"
  exit_reason,
  outq,           \* the mpsc queue: numbers of the queued frames
  queued,         \* frames queued so far
  senders_alive,  \* some clone of frame_sender still exists
  to_server,      \* what the worker wrote to the server: numbers and Pong
  sink,           \* messages accepted by the user-facing sink
  current_game,   \* the shared current_game_id cell
  registry,       \* node ids in the node registry
  selected,       \* the registry's selected_node_id
  server_up,      \* the server end of the TCP stream is open
  sink_up,        \* the user-facing sink accepts messages
  ninbound        \* frames the server has sent

queue_vars == <<outq, queued, senders_alive>>
node_vars == <<current_game, registry, selected>>
env_vars == <<server_up, sink_up>>
vars == <<phase, exit_reason, queue_vars, to_server, sink, node_vars,
          env_vars, ninbound>>

-----------------------------------------------------------------------------
(* The node registry (spec, NodeRegistry and section 5).                   *)

\* set_selected_node validates membership under the registry's lock and
\* fails for an id it does not hold.
SetSelectedNodeOk(n) == n = None \/ n \in registry

SetSelectedNode(n) == selected' = n

\* update_nodes replaces the registry; a selection that is no longer an
\* entry is cleared, so the selected id always refers to an entry.
UpdateNodes(ns) ==
  /\ registry' = ns
  /\ selected' = IF selected \in ns THEN selected ELSE None

-----------------------------------------------------------------------------
(* Helpers of the worker loop.                                             *)

\* send_message (lines 226-232): the sink rejects a message once closed.
Emitted(msg) == IF sink_up THEN Append(sink, msg) ELSE sink

\* The loop breaks (lines 77, 82, 96, 115, 130): the task ends, dropping
\* the receiver and the queued frames.
ExitLoop(r) ==
  /\ phase' = "exited"
  /\ exit_reason' = r

\* A write to the server fails only once the server has gone; a write to
\* a closed peer may still be accepted by the OS.
WriteMayFail == ~server_up

\* The error arm of dispatch in the loop (lines 103-115): a best-effort
\* Disconnect to the sink, then break.
DispatchFailed ==
  /\ sink' = Emitted("Disconnect")
  /\ ExitLoop("dispatch")

\* send_message(msg) at the end of dispatch (line 223): the loop goes on,
\* or the sink error is a dispatch error.
Emit(msg) ==
  IF sink_up THEN /\ sink' = Append(sink, msg)
                  /\ UNCHANGED <<phase, exit_reason>>
  ELSE DispatchFailed

-----------------------------------------------------------------------------
(* connect() (lines 27-63).                                                *)

\* The TCP connect, the ConnectLobby write or the read of the reply fails
\* (lines 37, 44, 46), the server rejects the player or sends a session
\* that does not unpack (lines 51-55), or the session is accepted: the
\* shared cell is seeded and PlayerSession is sent to the sink, whose
\* failure also fails connect() (lines 59-63).  The worker is spawned
\* only after all of these.
Connect ==
  /\ phase = "connecting"
  /\ \/ /\ ~server_up
        /\ phase' = "failed"
        /\ exit_reason' = "IoError"
        /\ UNCHANGED <<sink, current_game>>
     \/ /\ phase' = "failed"
        /\ exit_reason' = "Rejected"
        /\ UNCHANGED <<sink, current_game>>
     \/ \E g \in GameId \cup {None} :
          /\ current_game' = g
          /\ IF sink_up
             THEN /\ sink' = <<"PlayerSession">>
                  /\ phase' = "loop"
                  /\ UNCHANGED exit_reason
             ELSE /\ phase' = "failed"
                  /\ exit_reason' = "SinkError"
                  /\ UNCHANGED sink
  /\ UNCHANGED <<queue_vars, to_server, registry, selected, env_vars,
                 ninbound>>

-----------------------------------------------------------------------------
(* The worker loop (lines 69-135).                                         *)

\* Seeded fault for mutation analysis: the queue is served only while a
\* sender is alive.
SendOutbound_while_alive ==
  /\ senders_alive
  /\ phase = "loop"
  /\ outq # <<>>
  /\ outq' = Tail(outq)
  /\ \/ /\ to_server' = Append(to_server, Head(outq))
        /\ UNCHANGED <<phase, exit_reason>>
     \/ /\ WriteMayFail
        /\ UNCHANGED to_server
        /\ ExitLoop("send")
  /\ UNCHANGED <<queued, senders_alive, sink, node_vars, env_vars,
                 ninbound>>

\* frame_r.next() yields the oldest queued frame and it is written to
\* the server (lines 71-79); a write error breaks the loop silently.
SendOutbound ==
  /\ phase = "loop"
  /\ outq # <<>>
  /\ outq' = Tail(outq)
  /\ \/ /\ to_server' = Append(to_server, Head(outq))
        /\ UNCHANGED <<phase, exit_reason>>
     \/ /\ WriteMayFail
        /\ UNCHANGED to_server
        /\ ExitLoop("send")
  /\ UNCHANGED <<queued, senders_alive, sink, node_vars, env_vars,
                 ninbound>>

\* frame_r.next() yields None: every sender is dropped and the queue is
\* empty (lines 80-83).  A silent exit.
SendersGone ==
  /\ phase = "loop"
  /\ ~senders_alive
  /\ outq = <<>>
  /\ ExitLoop("dropped")
  /\ UNCHANGED <<queue_vars, to_server, sink, node_vars, env_vars,
                 ninbound>>

\* A Ping is read and echoed as Pong without dispatch (lines 88-98); a
\* write error breaks the loop silently.  Frames the server sent before
\* it closed may still be read.
RecvPing ==
  /\ phase = "loop"
  /\ ninbound < MaxInbound
  /\ ninbound' = ninbound + 1
  /\ \/ /\ to_server' = Append(to_server, Pong)
        /\ UNCHANGED <<phase, exit_reason>>
     \/ /\ WriteMayFail
        /\ UNCHANGED to_server
        /\ ExitLoop("send")
  /\ UNCHANGED <<queue_vars, sink, node_vars, env_vars>>

\* The GameInfo arm (lines 171-177): the game's node becomes the
\* selected one before the game is extracted, so a failed extraction
\* leaves the new selection behind.
OnGameInfo(f) ==
  /\ IF SetSelectedNodeOk(f.node)
     THEN /\ SetSelectedNode(f.node)
          /\ IF f.ok THEN Emit("CurrentGameInfo") ELSE DispatchFailed
     ELSE /\ DispatchFailed
          /\ UNCHANGED selected
  /\ UNCHANGED <<current_game, registry>>

\* The PlayerSessionUpdate arm (lines 187-193): no game clears the
\* selected node, then the shared cell is overwritten, then the packet
\* is unpacked.
OnPlayerSessionUpdate(f) ==
  /\ selected' = IF f.game = None THEN None ELSE selected
  /\ current_game' = f.game
  /\ IF f.ok THEN Emit("PlayerSessionUpdate") ELSE DispatchFailed
  /\ UNCHANGED registry

\* The GameSelectNode arm (lines 210-213).
OnGameSelectNode(f) ==
  /\ IF SetSelectedNodeOk(f.node)
     THEN /\ SetSelectedNode(f.node)
          /\ Emit("GameSelectNode")
     ELSE /\ DispatchFailed
          /\ UNCHANGED selected
  /\ UNCHANGED <<current_game, registry>>

\* dispatch of one frame f (lines 157-224), with the loop's error arm.
\* A type id outside the table is an UnexpectedPacket error of the
\* match_packet! macro.
Dispatch(f) ==
  \/ /\ f.type = "LobbyDisconnect"
     /\ IF f.ok THEN Emit("Disconnect") ELSE DispatchFailed
     /\ UNCHANGED node_vars
  \/ f.type = "GameInfo" /\ OnGameInfo(f)
  \/ /\ f.type = "Passthrough"
     /\ Emit("Passthrough")
     /\ UNCHANGED node_vars
  \/ f.type = "PlayerSessionUpdate" /\ OnPlayerSessionUpdate(f)
  \/ /\ f.type = "ListNodes"
     /\ UpdateNodes(f.nodes)
     /\ Emit("ListNodes")
     /\ UNCHANGED current_game
  \/ f.type = "GameSelectNode" /\ OnGameSelectNode(f)
  \/ /\ f.type = "Unexpected"
     /\ DispatchFailed
     /\ UNCHANGED node_vars

\* Any other frame is read and dispatched (lines 85-87, 101-117).
RecvFrame(f) ==
  /\ phase = "loop"
  /\ ninbound < MaxInbound
  /\ f.type # "Ping"
  /\ ninbound' = ninbound + 1
  /\ Dispatch(f)
  /\ UNCHANGED <<queue_vars, to_server, env_vars>>

\* The read fails once the server has gone and its frames are read: a
\* best-effort Disconnect, then break (lines 119-131).
RecvError ==
  /\ phase = "loop"
  /\ ~server_up
  /\ sink' = Emitted("Disconnect")
  /\ ExitLoop("recv")
  /\ UNCHANGED <<queue_vars, to_server, node_vars, env_vars, ninbound>>

-----------------------------------------------------------------------------
(* The environment.                                                        *)

\* Seeded fault for mutation analysis: an unbounded channel.
Enqueue_unbounded ==
  /\ phase = "loop"
  /\ senders_alive
  /\ queued < MaxOutbound
  /\ queued' = queued + 1
  /\ outq' = Append(outq, queued + 1)
  /\ UNCHANGED <<phase, exit_reason, senders_alive, to_server, sink,
                 node_vars, env_vars, ninbound>>

\* A producer's frame_sender.send(frame).await completes: there is room
\* in the channel of capacity QueueCapacity and the receiver is alive.
Enqueue ==
  /\ phase = "loop"
  /\ senders_alive
  /\ queued < MaxOutbound
  /\ Len(outq) < QueueCapacity
  /\ queued' = queued + 1
  /\ outq' = Append(outq, queued + 1)
  /\ UNCHANGED <<phase, exit_reason, senders_alive, to_server, sink,
                 node_vars, env_vars, ninbound>>

\* The LobbyStream and every clone of its sender are dropped.
DropSenders ==
  /\ phase = "loop"
  /\ senders_alive
  /\ senders_alive' = FALSE
  /\ UNCHANGED <<phase, exit_reason, outq, queued, to_server, sink,
                 node_vars, env_vars, ninbound>>

\* The server closes the connection.
ServerClose ==
  /\ phase \in {"connecting", "loop"}
  /\ server_up
  /\ server_up' = FALSE
  /\ UNCHANGED <<phase, exit_reason, queue_vars, to_server, sink,
                 node_vars, sink_up, ninbound>>

\* The user-facing sink is closed.
SinkClose ==
  /\ phase \in {"connecting", "loop"}
  /\ sink_up
  /\ sink_up' = FALSE
  /\ UNCHANGED <<phase, exit_reason, queue_vars, to_server, sink,
                 node_vars, server_up, ninbound>>

-----------------------------------------------------------------------------

Init ==
  /\ phase = "connecting"
  /\ exit_reason = "None"
  /\ outq = <<>>
  /\ queued = 0
  /\ senders_alive = TRUE
  /\ to_server = <<>>
  /\ sink = <<>>
  /\ current_game = None
  /\ registry = {}
  /\ selected = None
  /\ server_up = TRUE
  /\ sink_up = TRUE
  /\ ninbound = 0

Worker ==
  \/ Connect
  \/ SendOutbound
  \/ SendersGone
  \/ RecvPing
  \/ \E f \in ServerFrame : RecvFrame(f)
  \/ RecvError

Environment ==
  \/ Enqueue
  \/ DropSenders
  \/ ServerClose
  \/ SinkClose

Next == Worker \/ Environment

\* tokio::select! polls both branches and picks a ready one at random, so
\* a branch that stays ready is taken eventually: weak fairness for the
\* outbound branch, the end of the queue and the failing read.  The
\* server, the producers and the sink get none.
Fairness ==
  /\ WF_vars(SendOutbound)
  /\ WF_vars(SendersGone)
  /\ WF_vars(RecvError)

Spec == Init /\ [][Next]_vars /\ Fairness

-----------------------------------------------------------------------------
(* Properties.                                                             *)

TypeOK ==
  /\ phase \in {"connecting", "loop", "exited", "failed"}
  /\ exit_reason \in ExitReason
  /\ outq \in Seq(1..MaxOutbound)
  /\ Len(outq) <= QueueCapacity
  /\ queued \in 0..MaxOutbound
  /\ senders_alive \in BOOLEAN
  /\ to_server \in Seq(0..MaxOutbound)
  /\ sink \in Seq(SinkMessage)
  /\ current_game \in GameId \cup {None}
  /\ registry \subseteq NodeId
  /\ selected \in NodeId \cup {None}
  /\ server_up \in BOOLEAN
  /\ sink_up \in BOOLEAN
  /\ ninbound \in 0..MaxInbound

\* A frame in the queue of a running loop is eventually written to the
\* server, or the loop ends: a producer blocked on a full channel is not
\* blocked forever by a live loop.
QueuedFrameHandled ==
  \A i \in 1..MaxOutbound :
    (phase = "loop" /\ \E j \in 1..Len(outq) : outq[j] = i)
      ~> (phase # "loop" \/ \E j \in 1..Len(to_server) : to_server[j] = i)

\* Sections 4.G and 7 of the spec: on a send error, a receive error, a
\* dispatch error or a sink error the loop sends a best-effort Disconnect
\* to the sink before it exits; only a dropped sender is a silent exit.
DisconnectOnErrorExit ==
  (phase = "exited" /\ exit_reason # "dropped" /\ sink_up)
    => sink[Len(sink)] = "Disconnect"

=============================================================================
