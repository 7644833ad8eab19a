---------------------------- MODULE LobbyHandler ----------------------------
(***************************************************************************)
(* The lobby phase of one LAN game: LobbyHandler::run, send_start and     *)
(* handle_packet, with JoinPacketRecvState, from                           *)
(* crates/client/src/lan/game/lobby.rs.                                    *)
(*                                                                         *)
(* The handler is one task that multiplexes three inputs with select!:    *)
(* frames from the game client, the 15 s ping timer and the node-status   *)
(* watch channel.  Its environment is modelled too: the game client (any  *)
(* frame, any order, may disconnect), the proxy side of the status watch  *)
(* (any status, any time, may be dropped) and the countdown notifier.     *)
(* Time is only counted in whole seconds during the countdown of          *)
(* send_start, where it decides what the code does.                        *)
(***************************************************************************)
EXTENDS Naturals, Sequences

CONSTANTS
  NumPlayerInfos,  \* slot_info.player_infos.len() (the local player included)
  HasObSlot,       \* slot_info.stream_ob_slot.is_some()
  MaxPackets,      \* bound: client frames the handler reads
  MaxPings,        \* bound: ticks of the ping interval
  MaxStatusSends   \* bound: values sent on the node-status watch channel

ASSUME ConstAssumption ==
  /\ NumPlayerInfos \in Nat \ {0}
  /\ HasObSlot \in BOOLEAN
  /\ MaxPackets \in Nat
  /\ MaxPings \in Nat
  /\ MaxStatusSends \in Nat

\* flo_types::node::NodeGameStatus, and the None of Option<NodeGameStatus>.
NodeGameStatus == {"Created", "Waiting", "Loading", "Running", "Ended", "Terminated"}
None == "None"

\* The frame type ids the handler distinguishes; "Other" is any other id.
ClientPacket == {"ReqJoin", "MapSize", "ChatToHost", "PongToHost",
                 "PlayerProfile", "PlayerSkins", "PlayerUnknown5",
                 "Unknown2", "UnknownValue", "LeaveReq", "Other"}

\* What the handler writes to the client.  "JoinReply" is the whole batch
\* of send_all on line 291 (its content is the subject of JoinReply.tla).
HostPacket == {"JoinReply", "ChatFromHost", "PlayerProfile", "PlayerSkins",
               "PlayerUnknown5", "PingFromHost", "SlotInfo",
               "CountDownStart", "CountDownEnd"}

\* The frames of the start sequence.  The log of what the client was sent
\* keeps these; every other frame is recorded as "Lobby", and a run of
\* such frames as one "Lobby".
StartFrame == {"SlotInfo", "CountDownStart", "CountDownEnd"}
SentEntry == StartFrame \cup {"Lobby"}

\* The log s after frame f was written.
Logged(s, f) ==
  IF f \in StartFrame THEN Append(s, f)
  ELSE IF s # <<>> /\ s[Len(s)] = "Lobby" THEN s
  ELSE Append(s, "Lobby")

\* The log s after the frames fs were written.
LoggedAll(s, fs) ==
  IF fs = <<>> THEN s ELSE Logged(s, fs[1])

\* Outcomes of run(): Ok(Start), or the error it returns.
Result == {"Pending", "Start", "StreamClosed", "IoError", "Ipv6NotSupported",
           "UnexpectedPacket", "TaskCancelled"}

\* pc: "run" is the select! loop; the other three are the awaits of
\* send_start between CountDownStart and CountDownEnd; "done" is returned.
Phase == {"run", "sleep3", "waitNotify", "sleep3b", "done"}
Countdown == {"sleep3", "waitNotify", "sleep3b"}

VARIABLES
  \* JoinPacketRecvState
  num_profile, num_skins, num_unk5, status,
  \* locals and fields of the handler
  reported, starting, pc, result, elapsed,
  \* what the handler has written: to the client, to the node, to the sink
  sent, node_reports, lan_game_joined,
  \* the environment
  client_up, watch_value, watch_seen, watch_closed, permit,
  \* constructor arguments, fixed for one handler
  local_addr_v4, has_node_stream, has_notify, has_outgoing,
  \* counters for the bounds
  npkts, npings, nstatus

recv_vars == <<num_profile, num_skins, num_unk5, status>>
out_vars == <<sent, node_reports, lan_game_joined>>
env_vars == <<client_up, watch_value, watch_seen, watch_closed, permit>>
cfg_vars == <<local_addr_v4, has_node_stream, has_notify, has_outgoing>>
bound_vars == <<npkts, npings, nstatus>>
vars == <<recv_vars, reported, starting, pc, result, elapsed,
          out_vars, env_vars, cfg_vars, bound_vars>>

-----------------------------------------------------------------------------
(* JoinPacketRecvState (lines 365-397).                                    *)

\* total_players as computed on lines 70-77: the observer slot counts.
total_players == NumPlayerInfos + (IF HasObSlot THEN 1 ELSE 0)

is_ready ==
  /\ num_profile = total_players
  /\ num_skins = 1
  /\ num_unk5 = 1

\* Seeded fault for mutation analysis: start on node status alone.
should_start_no_ready ==
  status \in {"Loading", "Running"}

should_start ==
  /\ is_ready
  /\ status \in {"Loading", "Running"}

-----------------------------------------------------------------------------
(* Helpers shared by the actions.                                          *)

\* run() returns with result r.
Finish(r) ==
  /\ pc' = "done"
  /\ result' = r

\* A write to the client stream fails only once the client has gone; a
\* write to a closed peer may still be accepted by the OS.
WriteMayFail == ~client_up

\* The frames handle_packet writes for a frame of type k (lines 196-360).
ReplyTo == [ReqJoin |-> "JoinReply", ChatToHost |-> "ChatFromHost",
           PlayerProfile |-> "PlayerProfile", PlayerSkins |-> "PlayerSkins",
           PlayerUnknown5 |-> "PlayerUnknown5"]

Reply(k) == IF k \in DOMAIN ReplyTo THEN <<ReplyTo[k]>> ELSE <<>>

\* handle_packet's arms that fail before writing: IPv6 on ReqJoin
\* (line 207) and an unexpected type id (line 359).
FatalError(k) ==
  IF k = "ReqJoin" /\ ~local_addr_v4 THEN "Ipv6NotSupported"
  ELSE IF k = "Other" THEN "UnexpectedPacket"
  ELSE "None"

\* The counters handle_packet increments (lines 318, 329, 340).
CountPacket(k) ==
  /\ num_profile' = num_profile + (IF k = "PlayerProfile" THEN 1 ELSE 0)
  /\ num_skins' = num_skins + (IF k = "PlayerSkins" THEN 1 ELSE 0)
  /\ num_unk5' = num_unk5 + (IF k = "PlayerUnknown5" THEN 1 ELSE 0)

\* send_start up to CountDownStart (lines 146-159), after s was written.
\* The guard `if self.starting` is never true here: run() returns right
\* after the only calls, which the theorem RunNotStarting establishes.
SendStart(s) ==
  /\ starting' = TRUE
  /\ \/ /\ sent' = Logged(Logged(s, "SlotInfo"), "CountDownStart")
        /\ pc' = "sleep3"
        /\ UNCHANGED result
     \/ /\ WriteMayFail
        /\ sent' = s
        /\ Finish("IoError")

\* Seeded fault for mutation analysis: report readiness on every
\* ready frame, not only the first time.
AfterPacket_no_once(s) ==
  /\ reported' = (reported \/ is_ready')
  /\ node_reports' = IF is_ready' /\ has_node_stream
                     THEN Append(node_reports, "Joined") ELSE node_reports
  /\ lan_game_joined' = IF is_ready' /\ has_outgoing
                        THEN lan_game_joined + 1 ELSE lan_game_joined
  /\ IF should_start'
     THEN SendStart(s)
     ELSE /\ sent' = s
          /\ UNCHANGED <<starting, pc, result>>

\* Lines 96-114, after handle_packet returned Ok and wrote s: the first
\* time the counts are ready, report Joined to the node (if there is a
\* node stream; the result is ignored) and LanGameJoined to the sink (if
\* the weak sender upgrades; the result is ignored); then start if the
\* node status allows it.
AfterPacket(s) ==
  /\ reported' = (reported \/ is_ready')
  /\ node_reports' = IF is_ready' /\ ~reported /\ has_node_stream
                     THEN Append(node_reports, "Joined") ELSE node_reports
  /\ lan_game_joined' = IF is_ready' /\ ~reported /\ has_outgoing
                        THEN lan_game_joined + 1 ELSE lan_game_joined
  /\ IF should_start'
     THEN SendStart(s)
     ELSE /\ sent' = s
          /\ UNCHANGED <<starting, pc, result>>

-----------------------------------------------------------------------------
(* The handler's steps.                                                    *)

\* A frame of type k is read and handle_packet returns Ok (lines 87-114).
RecvPacket(k) ==
  /\ pc = "run"
  /\ npkts < MaxPackets
  /\ k \in ClientPacket \ {"LeaveReq"}
  /\ FatalError(k) = "None"
  /\ npkts' = npkts + 1
  /\ CountPacket(k)
  /\ UNCHANGED status
  /\ \/ /\ Reply(k) # <<>>
        /\ WriteMayFail
        /\ Finish("IoError")
        /\ UNCHANGED <<reported, starting, out_vars>>
     \/ AfterPacket(LoggedAll(sent, Reply(k)))
  /\ UNCHANGED <<elapsed, env_vars, cfg_vars, npings, nstatus>>

\* A frame handle_packet rejects (lines 207, 359): run() fails.
RecvFatal(k) ==
  /\ pc = "run"
  /\ npkts < MaxPackets
  /\ k \in ClientPacket
  /\ FatalError(k) # "None"
  /\ npkts' = npkts + 1
  /\ Finish(FatalError(k))
  /\ UNCHANGED <<recv_vars, reported, starting, elapsed, out_vars,
                 env_vars, cfg_vars, npings, nstatus>>

\* LeaveReq is skipped before handle_packet and the readiness check
\* (lines 90-93).
RecvLeaveReq ==
  /\ pc = "run"
  /\ npkts < MaxPackets
  /\ npkts' = npkts + 1
  /\ UNCHANGED <<recv_vars, reported, starting, pc, result, elapsed,
                 out_vars, env_vars, cfg_vars, npings, nstatus>>

\* The client stream ends (line 116) or fails to read (line 88).
RecvClosed ==
  /\ pc = "run"
  /\ ~client_up
  /\ \E r \in {"StreamClosed", "IoError"} : Finish(r)
  /\ UNCHANGED <<recv_vars, reported, starting, elapsed, out_vars,
                 env_vars, cfg_vars, bound_vars>>

\* The ping interval ticks: PingFromHost is written (lines 119-121).
PingTick ==
  /\ pc = "run"
  /\ npings < MaxPings
  /\ npings' = npings + 1
  /\ \/ /\ sent' = Logged(sent, "PingFromHost")
        /\ UNCHANGED <<pc, result>>
     \/ /\ WriteMayFail
        /\ Finish("IoError")
        /\ UNCHANGED sent
  /\ UNCHANGED <<recv_vars, reported, starting, elapsed, node_reports,
                 lan_game_joined, env_vars, cfg_vars, npkts, nstatus>>

\* status_rx.changed() returns Ok: the latest value is taken if it is
\* Some, and the handler starts if it may (lines 122-136).  changed()
\* reports an unseen value even after the sender was dropped.
StatusChanged ==
  /\ pc = "run"
  /\ ~watch_seen
  /\ watch_seen' = TRUE
  /\ status' = IF watch_value = None THEN status ELSE watch_value
  /\ UNCHANGED <<num_profile, num_skins, num_unk5>>
  /\ IF should_start'
     THEN SendStart(sent)
     ELSE UNCHANGED <<starting, pc, result, sent>>
  /\ UNCHANGED <<reported, elapsed, node_reports, lan_game_joined,
                 client_up, watch_value, watch_closed, permit, cfg_vars,
                 bound_vars>>

\* status_rx.changed() fails: the sender is gone and every value was
\* seen (lines 137-139).
StatusClosed ==
  /\ pc = "run"
  /\ watch_seen
  /\ watch_closed
  /\ Finish("TaskCancelled")
  /\ UNCHANGED <<recv_vars, reported, starting, elapsed, out_vars,
                 env_vars, cfg_vars, bound_vars>>

\* The deadlines of the three countdown awaits, in seconds since
\* CountDownStart: sleep(3), then the notifier or sleep(6), or sleep(3).
Deadline == [sleep3 |-> 3, waitNotify |-> 3 + 6, sleep3b |-> 3 + 3]

\* Seeded fault for mutation analysis: a sleep without its deadline.
Tick_unbounded ==
  /\ pc \in Countdown
  /\ elapsed' = elapsed + 1
  /\ UNCHANGED <<recv_vars, reported, starting, pc, result, out_vars,
                 env_vars, cfg_vars, bound_vars>>

\* One second passes while send_start sleeps.
Tick ==
  /\ pc \in Countdown
  /\ elapsed < Deadline[pc]
  /\ elapsed' = elapsed + 1
  /\ UNCHANGED <<recv_vars, reported, starting, pc, result, out_vars,
                 env_vars, cfg_vars, bound_vars>>

\* sleep(3) ends (line 161); then the notifier is awaited if there is one
\* (line 166), or sleep(3) again (line 176).
FirstSleepDone ==
  /\ pc = "sleep3"
  /\ elapsed = Deadline["sleep3"]
  /\ pc' = IF has_notify THEN "waitNotify" ELSE "sleep3b"
  /\ UNCHANGED <<recv_vars, reported, starting, result, elapsed, out_vars,
                 env_vars, cfg_vars, bound_vars>>

\* Seeded fault for mutation analysis: run() keeps looping after the
\* countdown instead of returning Start.
EndCountdown_no_return ==
  \/ /\ sent' = Logged(sent, "CountDownEnd")
     /\ pc' = "run"
     /\ UNCHANGED result
  \/ /\ WriteMayFail
     /\ sent' = sent
     /\ Finish("IoError")

\* CountDownEnd is written and run() returns Ok(Start) (lines 179-180,
\* 111-112 and 130-131), or the write fails.
EndCountdown ==
  \/ /\ sent' = Logged(sent, "CountDownEnd")
     /\ Finish("Start")
  \/ /\ WriteMayFail
     /\ sent' = sent
     /\ Finish("IoError")

\* notify.notified() completes: a permit is consumed (line 168).
NotifyReceived ==
  /\ pc = "waitNotify"
  /\ permit
  /\ permit' = FALSE
  /\ EndCountdown
  /\ UNCHANGED <<recv_vars, reported, starting, elapsed, node_reports,
                 lan_game_joined, client_up, watch_value, watch_seen,
                 watch_closed, cfg_vars, bound_vars>>

\* Seeded fault for mutation analysis: the notifier is awaited forever.
NotifyTimeout_none ==
  FALSE

\* The 6 s ceiling on the notifier expires (line 171).
NotifyTimeout ==
  /\ pc = "waitNotify"
  /\ elapsed = Deadline["waitNotify"]
  /\ EndCountdown
  /\ UNCHANGED <<recv_vars, reported, starting, elapsed, node_reports,
                 lan_game_joined, env_vars, cfg_vars, bound_vars>>

\* Seeded fault for mutation analysis: no second sleep without a notifier.
SecondSleepDone_early ==
  /\ pc = "sleep3b"
  /\ elapsed = Deadline["sleep3"]
  /\ EndCountdown
  /\ UNCHANGED <<recv_vars, reported, starting, elapsed, node_reports,
                 lan_game_joined, env_vars, cfg_vars, bound_vars>>

\* The second sleep(3), taken without a notifier, ends (line 176).
SecondSleepDone ==
  /\ pc = "sleep3b"
  /\ elapsed = Deadline["sleep3b"]
  /\ EndCountdown
  /\ UNCHANGED <<recv_vars, reported, starting, elapsed, node_reports,
                 lan_game_joined, env_vars, cfg_vars, bound_vars>>

-----------------------------------------------------------------------------
(* The environment.                                                        *)

\* The game client closes its connection.
ClientClose ==
  /\ pc # "done"
  /\ client_up
  /\ client_up' = FALSE
  /\ UNCHANGED <<recv_vars, reported, starting, pc, result, elapsed,
                 out_vars, watch_value, watch_seen, watch_closed, permit,
                 cfg_vars, bound_vars>>

\* The proxy sends a node status on the watch channel.  Every send makes
\* a new version, even of an equal value; the receiver keeps only the
\* latest one.
StatusSend(s) ==
  /\ pc # "done"
  /\ ~watch_closed
  /\ nstatus < MaxStatusSends
  /\ nstatus' = nstatus + 1
  /\ watch_value' = s
  /\ watch_seen' = FALSE
  /\ UNCHANGED <<recv_vars, reported, starting, pc, result, elapsed,
                 out_vars, client_up, watch_closed, permit, cfg_vars,
                 npkts, npings>>

\* The proxy drops the sender of the status watch.
StatusDrop ==
  /\ pc # "done"
  /\ ~watch_closed
  /\ watch_closed' = TRUE
  /\ UNCHANGED <<recv_vars, reported, starting, pc, result, elapsed,
                 out_vars, client_up, watch_value, watch_seen, permit,
                 cfg_vars, bound_vars>>

\* The countdown notifier is notified (Notify::notify_one): the waiter is
\* woken, or one permit is stored for the next notified().
CountdownNotify ==
  /\ pc # "done"
  /\ has_notify
  /\ ~permit
  /\ permit' = TRUE
  /\ UNCHANGED <<recv_vars, reported, starting, pc, result, elapsed,
                 out_vars, client_up, watch_value, watch_seen, watch_closed,
                 cfg_vars, bound_vars>>

-----------------------------------------------------------------------------

\* LobbyHandler::new and the start of run() (lines 49-83): the status is
\* the value borrowed from the watch, which may or may not have been seen.
Init ==
  /\ watch_value \in NodeGameStatus \cup {None}
  /\ watch_seen \in BOOLEAN
  /\ watch_closed = FALSE
  /\ num_profile = 0
  /\ num_skins = 0
  /\ num_unk5 = 0
  /\ status = watch_value
  /\ reported = FALSE
  /\ starting = FALSE
  /\ pc = "run"
  /\ result = "Pending"
  /\ elapsed = 0
  /\ sent = <<>>
  /\ node_reports = <<>>
  /\ lan_game_joined = 0
  /\ client_up = TRUE
  /\ permit = FALSE
  /\ local_addr_v4 \in BOOLEAN
  /\ has_node_stream \in BOOLEAN
  /\ has_notify \in BOOLEAN
  /\ has_outgoing \in BOOLEAN
  /\ npkts = 0
  /\ npings = 0
  /\ nstatus = 0

HandlerStep ==
  \/ \E k \in ClientPacket : RecvPacket(k) \/ RecvFatal(k)
  \/ RecvLeaveReq
  \/ RecvClosed
  \/ PingTick
  \/ StatusChanged
  \/ StatusClosed
  \/ Tick
  \/ FirstSleepDone
  \/ NotifyReceived
  \/ NotifyTimeout
  \/ SecondSleepDone

Environment ==
  \/ ClientClose
  \/ \E s \in NodeGameStatus : StatusSend(s)
  \/ StatusDrop
  \/ CountdownNotify

Next == HandlerStep \/ Environment

\* The runtime polls the handler whenever one of its futures is ready, and
\* timers fire: weak fairness for the handler's own steps and for time.
\* The client, the proxy and the notifier get none: they may stay silent.
Fairness ==
  /\ WF_vars(RecvClosed)
  /\ WF_vars(StatusChanged)
  /\ WF_vars(StatusClosed)
  /\ WF_vars(Tick)
  /\ WF_vars(FirstSleepDone)
  /\ WF_vars(NotifyReceived)
  /\ WF_vars(NotifyTimeout)
  /\ WF_vars(SecondSleepDone)

Spec == Init /\ [][Next]_vars /\ Fairness

-----------------------------------------------------------------------------
(* Properties.                                                             *)

\* Every variable has its type.
TypeOK ==
  /\ num_profile \in 0..MaxPackets
  /\ num_skins \in 0..MaxPackets
  /\ num_unk5 \in 0..MaxPackets
  /\ status \in NodeGameStatus \cup {None}
  /\ reported \in BOOLEAN
  /\ starting \in BOOLEAN
  /\ pc \in Phase
  /\ result \in Result
  /\ elapsed \in 0..Deadline["waitNotify"]
  /\ sent \in Seq(SentEntry)
  /\ node_reports \in Seq({"Joined"})
  /\ lan_game_joined \in Nat
  /\ client_up \in BOOLEAN
  /\ watch_value \in NodeGameStatus \cup {None}
  /\ watch_seen \in BOOLEAN
  /\ watch_closed \in BOOLEAN
  /\ permit \in BOOLEAN
  /\ local_addr_v4 \in BOOLEAN
  /\ has_node_stream \in BOOLEAN
  /\ has_notify \in BOOLEAN
  /\ has_outgoing \in BOOLEAN
  /\ npkts \in 0..MaxPackets
  /\ npings \in 0..MaxPings
  /\ nstatus \in 0..MaxStatusSends

\* Once send_start has begun (CountDownStart may be on the wire), the
\* client had sent every join packet exactly as is_ready requires, the
\* last status the handler saw was Loading or Running, the readiness was
\* reported to the node (when there is a node stream) and to the sink
\* (when the sender upgrades), and neither changes afterwards.  Both
\* paths into send_start, the client frame and the status change, must
\* agree on this.
StartedOnlyWhenReady ==
  starting =>
    /\ is_ready
    /\ status \in {"Loading", "Running"}
    /\ reported
    /\ has_node_stream => node_reports = <<"Joined">>
    /\ has_outgoing => lan_game_joined = 1

\* The node hears Joined at most once per lobby, and only after the
\* handler saw the counts ready (lines 98-103), however the client's
\* frames and the status changes interleave.
JoinedReportedOnce ==
  /\ Len(node_reports) <= 1
  /\ lan_game_joined <= 1
  /\ (node_reports # <<>> \/ lan_game_joined > 0) => reported

\* What the client sees of the countdown: CountDownStart is written at
\* most once, right after the fresh SlotInfo of send_start; after it the
\* handler writes nothing but one CountDownEnd (no ping, no chat reply,
\* no echo), and nothing at all after CountDownEnd.
CountdownFraming ==
  \A i \in 1..Len(sent) :
    /\ sent[i] = "CountDownStart" =>
         /\ i > 1
         /\ sent[i - 1] = "SlotInfo"
         /\ \A j \in (i + 1)..Len(sent) : j = i + 1 /\ sent[j] = "CountDownEnd"
    /\ sent[i] = "CountDownEnd" => i > 1 /\ sent[i - 1] = "CountDownStart"

\* CountDownEnd is written 3 to 9 seconds after CountDownStart: exactly
\* 6 s without a notifier; with one, before 9 s only when a permit was
\* consumed (lines 161-179).
CountdownWindow ==
  [][ (Len(sent') > Len(sent) /\ sent'[Len(sent')] = "CountDownEnd") =>
        /\ elapsed \in 3..(3 + 6)
        /\ ~has_notify => elapsed = 3 + 3
        /\ (has_notify /\ elapsed < 3 + 6) => (permit /\ ~permit')
    ]_vars

\* Once the countdown has begun, run() returns, even if the notifier never
\* fires: the 6 s ceiling bounds the wait.
CountdownTerminates ==
  (pc \in Countdown) ~> (pc = "done")

\* Section 3 of the spec: at all times num_profile <= total_players,
\* num_skins <= 1 and num_unk5 <= 1.  handle_packet increments the three
\* counters on every matching frame, with no check.
JoinCountsBounded ==
  /\ num_profile <= total_players
  /\ num_skins <= 1
  /\ num_unk5 <= 1

-----------------------------------------------------------------------------
(* The inductive invariant the proofs in LobbyHandlerProofs rest on.       *)

\* Besides the types: every counted frame was read; in the select! loop
\* send_start has not begun (so its `if self.starting` early return is
\* dead code) and ready counts have been reported; the node and the sink
\* heard of readiness exactly when `reported` was set and the handler has
\* their sender; a begun send_start saw the counts ready and Loading or
\* Running.
HandlerConsistent ==
  /\ num_profile + num_skins + num_unk5 <= npkts
  /\ pc = "run" => ~starting
  /\ pc = "run" /\ is_ready => reported
  /\ node_reports = IF reported /\ has_node_stream THEN <<"Joined">> ELSE <<>>
  /\ lan_game_joined = IF reported /\ has_outgoing THEN 1 ELSE 0
  /\ starting => /\ is_ready
                 /\ status \in {"Loading", "Running"}
                 /\ reported

IInv == TypeOK /\ HandlerConsistent

\* The first n entries of the log s are lobby traffic.
LobbyOnly(s, n) == \A i \in 1..n : s[i] = "Lobby"

\* The log s is lobby traffic, then SlotInfo and CountDownStart.
StartWritten(s) ==
  /\ Len(s) >= 2
  /\ LobbyOnly(s, Len(s) - 2)
  /\ s[Len(s) - 1] = "SlotInfo"
  /\ s[Len(s)] = "CountDownStart"

\* The log s is lobby traffic, then SlotInfo, CountDownStart, CountDownEnd.
EndWritten(s) ==
  /\ Len(s) >= 3
  /\ LobbyOnly(s, Len(s) - 3)
  /\ s[Len(s) - 2] = "SlotInfo"
  /\ s[Len(s) - 1] = "CountDownStart"
  /\ s[Len(s)] = "CountDownEnd"

\* The strengthening the countdown proofs add to IInv: the log of the
\* client stream has one of the three shapes above; in the select! loop
\* nothing of the start sequence is written, and during the countdown
\* exactly SlotInfo and CountDownStart are; the notifier is awaited only
\* when there is one, the second sleep only when there is none, and
\* both only after the first 3 s.
CountdownConsistent ==
  /\ \/ LobbyOnly(sent, Len(sent))
     \/ StartWritten(sent)
     \/ EndWritten(sent)
  /\ pc = "run" => LobbyOnly(sent, Len(sent))
  /\ pc \in Countdown => StartWritten(sent)
  /\ pc = "waitNotify" => has_notify /\ elapsed >= 3
  /\ pc = "sleep3b" => ~has_notify /\ elapsed >= 3

CInv == IInv /\ CountdownConsistent

-----------------------------------------------------------------------------
(* The refinement of the abstract lobby.                                   *)

\* Where run() is: in the select! loop, in send_start's countdown, or
\* returned with Start or an error.
LobbyPhase ==
  IF pc = "run" THEN "waiting"
  ELSE IF pc \in Countdown THEN "countdown"
  ELSE IF result = "Start" THEN "started"
  ELSE "failed"

Lobby == INSTANCE LobbyAbstract
           WITH phase <- LobbyPhase,
                joined <- reported,
                go <- status \in {"Loading", "Running"}

\* The handler implements the abstract lobby: it reports the client's
\* readiness once and never withdraws it; it begins the countdown only
\* with the readiness reported and the node at Loading or Running, by a
\* client frame or by a status change; it never returns to the select!
\* loop once the countdown began; and the countdown ends.
ImplementsLobby == Lobby!Spec


=============================================================================
