------------------------- MODULE LobbyHandlerProofs -------------------------
(***************************************************************************)
(* Proofs about the lobby handler, for every value of the constants:      *)
(* IInv is inductive, hence the type invariant, StartedOnlyWhenReady and   *)
(* JoinedReportedOnce hold in every reachable state.                       *)
(***************************************************************************)
EXTENDS LobbyHandler, TLAPS

USE ConstAssumption

-----------------------------------------------------------------------------
(* Lemmas about the log of what the client was sent.                       *)

LEMMA LoggedType ==
  ASSUME NEW s \in Seq(SentEntry), NEW f \in HostPacket
  PROVE  Logged(s, f) \in Seq(SentEntry)
BY DEF Logged, SentEntry, StartFrame, HostPacket

LEMMA ReplyType ==
  ASSUME NEW k \in ClientPacket
  PROVE  /\ Reply(k) \in Seq(HostPacket)
         /\ Len(Reply(k)) <= 1
<1>1. CASE k \in DOMAIN ReplyTo
  <2>1. ReplyTo[k] \in HostPacket
    BY <1>1 DEF ReplyTo, HostPacket
  <2>2. QED
    BY <1>1, <2>1 DEF Reply
<1>2. CASE k \notin DOMAIN ReplyTo
  BY <1>2 DEF Reply
<1>3. QED
  BY <1>1, <1>2

LEMMA LoggedAllType ==
  ASSUME NEW s \in Seq(SentEntry), NEW k \in ClientPacket
  PROVE  LoggedAll(s, Reply(k)) \in Seq(SentEntry)
<1>1. CASE Reply(k) = <<>>
  BY <1>1 DEF LoggedAll
<1>2. CASE Reply(k) # <<>>
  <2>1. Reply(k)[1] \in HostPacket
    BY <1>2, ReplyType
  <2>2. QED
    BY <1>2, <2>1, LoggedType DEF LoggedAll
<1>3. QED
  BY <1>1, <1>2

-----------------------------------------------------------------------------
(* The initial states.                                                     *)

\* The members of the value sets the proofs use; the sets themselves are
\* left unexpanded, which keeps the obligations small.
LEMMA Sets ==
  /\ {"Loading", "Running"} \subseteq NodeGameStatus
  /\ Countdown \subseteq Phase
  /\ {"run", "sleep3", "waitNotify", "sleep3b", "done"} \subseteq Phase
  /\ {"Pending", "Start", "StreamClosed", "IoError", "Ipv6NotSupported",
      "UnexpectedPacket", "TaskCancelled"} \subseteq Result
BY DEF NodeGameStatus, Countdown, Phase, Result

LEMMA InitIInv == Init => IInv
<1> SUFFICES ASSUME Init PROVE IInv
  OBVIOUS
<1>1. /\ reported \in BOOLEAN /\ starting \in BOOLEAN /\ client_up \in BOOLEAN
      /\ watch_closed \in BOOLEAN /\ permit \in BOOLEAN
  BY Zenon DEF Init
<1>2. TypeOK
  BY <1>1, Sets DEF Init, TypeOK, Deadline
<1>3. HandlerConsistent
  BY DEF Init, HandlerConsistent, is_ready
<1>4. QED
  BY <1>2, <1>3 DEF IInv


-----------------------------------------------------------------------------
(* Each step preserves IInv.                                               *)

LEMMA NextTypeOK == IInv /\ [Next]_vars => TypeOK'
<1> SUFFICES ASSUME IInv, [Next]_vars PROVE TypeOK'
  OBVIOUS
<1> USE Sets DEF IInv, TypeOK, recv_vars, out_vars, env_vars, cfg_vars,
                bound_vars, Deadline, Finish
<1>1. ASSUME NEW k \in ClientPacket, RecvPacket(k) PROVE TypeOK'
  <2>1. LoggedAll(sent, Reply(k)) \in Seq(SentEntry)
    BY LoggedAllType
  <2>2. Logged(Logged(LoggedAll(sent, Reply(k)), "SlotInfo"), "CountDownStart")
          \in Seq(SentEntry)
    BY <2>1, LoggedType DEF HostPacket
  <2>3. Logged(Logged(sent, "SlotInfo"), "CountDownStart") \in Seq(SentEntry)
    BY LoggedType DEF HostPacket
  <2>4. reported' \in BOOLEAN /\ starting' \in BOOLEAN
    BY <1>1, Zenon DEF RecvPacket, AfterPacket, SendStart
  <2>5. /\ num_profile' \in 0..MaxPackets /\ num_skins' \in 0..MaxPackets
        /\ num_unk5' \in 0..MaxPackets /\ npkts' \in 0..MaxPackets
    BY <1>1 DEF RecvPacket, CountPacket, HandlerConsistent
  <2>6. CASE /\ Reply(k) # <<>>
             /\ WriteMayFail
             /\ Finish("IoError")
             /\ UNCHANGED <<reported, starting, out_vars>>
    BY <1>1, <2>4, <2>5, <2>6 DEF RecvPacket
  <2>7. CASE AfterPacket(LoggedAll(sent, Reply(k))) /\ should_start'
    <3>1. SendStart(LoggedAll(sent, Reply(k)))
      BY <2>7 DEF AfterPacket
    <3>2. CASE /\ sent' = Logged(Logged(LoggedAll(sent, Reply(k)), "SlotInfo"),
                                 "CountDownStart")
               /\ pc' = "sleep3"
               /\ UNCHANGED result
      BY <1>1, <2>2, <2>4, <2>5, <2>7, <3>2 DEF RecvPacket, AfterPacket
    <3>3. CASE /\ WriteMayFail
               /\ sent' = LoggedAll(sent, Reply(k))
               /\ Finish("IoError")
      BY <1>1, <2>1, <2>4, <2>5, <2>7, <3>3 DEF RecvPacket, AfterPacket
    <3>4. QED
      BY <3>1, <3>2, <3>3 DEF SendStart
  <2>8. CASE AfterPacket(LoggedAll(sent, Reply(k))) /\ ~should_start'
    BY <1>1, <2>1, <2>4, <2>5, <2>8 DEF RecvPacket, AfterPacket
  <2>9. QED
    BY <1>1, <2>6, <2>7, <2>8 DEF RecvPacket
<1>2. ASSUME NEW k \in ClientPacket, RecvFatal(k) PROVE TypeOK'
  BY <1>2 DEF RecvFatal, FatalError
<1>3. CASE RecvLeaveReq
  BY <1>3 DEF RecvLeaveReq
<1>4. CASE RecvClosed
  BY <1>4 DEF RecvClosed
<1>5. CASE PingTick
  <2>1. Logged(sent, "PingFromHost") \in Seq(SentEntry)
    BY LoggedType DEF HostPacket
  <2>2. QED
    BY <1>5, <2>1 DEF PingTick
<1>6. CASE StatusChanged
  <2>1. Logged(Logged(sent, "SlotInfo"), "CountDownStart") \in Seq(SentEntry)
    BY LoggedType DEF HostPacket
  <2>2. watch_seen' \in BOOLEAN /\ starting' \in BOOLEAN
    BY <1>6, Zenon DEF StatusChanged, SendStart
  <2>3. QED
    BY <1>6, <2>1, <2>2 DEF StatusChanged, SendStart, should_start
<1>7. CASE StatusClosed
  BY <1>7 DEF StatusClosed
<1>8. CASE Tick
  BY <1>8 DEF Tick, Countdown
<1>9. CASE FirstSleepDone
  BY <1>9 DEF FirstSleepDone
<1>10. ASSUME EndCountdown PROVE sent' \in Seq(SentEntry) /\ pc' = "done"
                                   /\ result' \in Result
  <2>1. Logged(sent, "CountDownEnd") \in Seq(SentEntry)
    BY LoggedType DEF HostPacket
  <2>2. QED
    BY <1>10, <2>1 DEF EndCountdown
<1>11. CASE NotifyReceived
  <2>1. permit' \in BOOLEAN
    BY <1>11, Zenon DEF NotifyReceived
  <2>2. QED
    BY <1>11, <1>10, <2>1 DEF NotifyReceived
<1>12. CASE NotifyTimeout
  BY <1>12, <1>10 DEF NotifyTimeout
<1>13. CASE SecondSleepDone
  BY <1>13, <1>10 DEF SecondSleepDone
<1>14. CASE ClientClose
  <2>1. client_up' \in BOOLEAN
    BY <1>14, Zenon DEF ClientClose
  <2>2. QED
    BY <1>14, <2>1 DEF ClientClose
<1>15. ASSUME NEW s \in NodeGameStatus, StatusSend(s) PROVE TypeOK'
  <2>1. watch_seen' \in BOOLEAN
    BY <1>15, Zenon DEF StatusSend
  <2>2. QED
    BY <1>15, <2>1 DEF StatusSend
<1>16. CASE StatusDrop
  <2>1. watch_closed' \in BOOLEAN
    BY <1>16, Zenon DEF StatusDrop
  <2>2. QED
    BY <1>16, <2>1 DEF StatusDrop
<1>17. CASE CountdownNotify
  <2>1. permit' \in BOOLEAN
    BY <1>17, Zenon DEF CountdownNotify
  <2>2. QED
    BY <1>17, <2>1 DEF CountdownNotify
<1>18. CASE UNCHANGED vars
  BY <1>18 DEF vars
<1>19. QED
  BY <1>1, <1>2, <1>3, <1>4, <1>5, <1>6, <1>7, <1>8, <1>9, <1>11, <1>12,
     <1>13, <1>14, <1>15, <1>16, <1>17, <1>18
  DEF Next, HandlerStep, Environment

\* Appending Joined to the empty report log gives the one-report log.
LEMMA AppendJoined == Append(<<>>, "Joined") = <<"Joined">>
OBVIOUS

\* What the bookkeeping after an accepted frame does to the report state
\* and to the phase, whatever was written.
LEMMA AfterPacketEffect ==
  ASSUME NEW s, AfterPacket(s)
  PROVE  /\ reported' = (reported \/ is_ready')
         /\ node_reports' = IF is_ready' /\ ~reported /\ has_node_stream
                            THEN Append(node_reports, "Joined")
                            ELSE node_reports
         /\ lan_game_joined' = IF is_ready' /\ ~reported /\ has_outgoing
                               THEN lan_game_joined + 1 ELSE lan_game_joined
         /\ should_start' => starting' = TRUE /\ pc' \in {"sleep3", "done"}
         /\ ~should_start' => starting' = starting /\ pc' = pc
BY DEF AfterPacket, SendStart, Finish

LEMMA NextConsistent == IInv /\ [Next]_vars => HandlerConsistent'
<1> SUFFICES ASSUME IInv, [Next]_vars PROVE HandlerConsistent'
  OBVIOUS
<1> USE DEF IInv, HandlerConsistent, TypeOK, recv_vars, out_vars, env_vars,
           cfg_vars, bound_vars, is_ready, total_players, Finish
<1>1. ASSUME NEW k \in ClientPacket, RecvPacket(k) PROVE HandlerConsistent'
  <2>1. CASE /\ Reply(k) # <<>>
             /\ WriteMayFail
             /\ Finish("IoError")
             /\ UNCHANGED <<reported, starting, out_vars>>
    BY <1>1, <2>1 DEF RecvPacket, CountPacket
  <2>2. CASE AfterPacket(LoggedAll(sent, Reply(k)))
    <3>1. /\ reported' = (reported \/ is_ready')
          /\ node_reports' = IF is_ready' /\ ~reported /\ has_node_stream
                             THEN Append(node_reports, "Joined")
                             ELSE node_reports
          /\ lan_game_joined' = IF is_ready' /\ ~reported /\ has_outgoing
                                THEN lan_game_joined + 1 ELSE lan_game_joined
          /\ should_start' => starting' = TRUE /\ pc' \in {"sleep3", "done"}
          /\ ~should_start' => starting' = starting /\ pc' = pc
      BY <2>2, AfterPacketEffect
    <3>2. (num_profile + num_skins + num_unk5 <= npkts)'
      BY <1>1 DEF RecvPacket, CountPacket
    <3>3. (pc = "run" => ~starting)'
      BY <1>1, <3>1 DEF RecvPacket
    <3>4. (pc = "run" /\ is_ready => reported)'
      BY <3>1
    <3>5. node_reports' = IF reported' /\ has_node_stream
                          THEN <<"Joined">> ELSE <<>>
      BY <1>1, <3>1, AppendJoined DEF RecvPacket
    <3>6. lan_game_joined' = IF reported' /\ has_outgoing THEN 1 ELSE 0
      BY <1>1, <3>1 DEF RecvPacket
    <3>7. (starting => is_ready /\ status \in {"Loading", "Running"}
                    /\ reported)'
      BY <1>1, <3>1 DEF RecvPacket, should_start
    <3>8. QED
      BY <1>1, <3>2, <3>3, <3>4, <3>5, <3>6, <3>7 DEF RecvPacket
  <2>3. QED
    BY <1>1, <2>1, <2>2 DEF RecvPacket
<1>2. ASSUME NEW k \in ClientPacket, RecvFatal(k) PROVE HandlerConsistent'
  BY <1>2 DEF RecvFatal
<1>3. CASE RecvLeaveReq
  BY <1>3 DEF RecvLeaveReq
<1>4. CASE RecvClosed
  BY <1>4 DEF RecvClosed
<1>5. CASE PingTick
  BY <1>5 DEF PingTick
<1>6. CASE StatusChanged
  <2>1. CASE should_start'
    <3>1. starting' = TRUE /\ pc' # "run"
      BY <1>6, <2>1 DEF StatusChanged, SendStart
    <3>2. QED
      BY <1>6, <2>1, <3>1 DEF StatusChanged, should_start
  <2>2. CASE ~should_start'
    BY <1>6, <2>2 DEF StatusChanged
  <2>3. QED
    BY <2>1, <2>2
<1>7. CASE StatusClosed
  BY <1>7 DEF StatusClosed
<1>8. CASE Tick
  BY <1>8 DEF Tick
<1>9. CASE FirstSleepDone
  BY <1>9 DEF FirstSleepDone
<1>10. ASSUME EndCountdown PROVE pc' = "done"
  BY <1>10 DEF EndCountdown
<1>11. CASE NotifyReceived
  BY <1>11, <1>10 DEF NotifyReceived
<1>12. CASE NotifyTimeout
  BY <1>12, <1>10 DEF NotifyTimeout
<1>13. CASE SecondSleepDone
  BY <1>13, <1>10 DEF SecondSleepDone
<1>14. CASE ClientClose
  BY <1>14 DEF ClientClose
<1>15. ASSUME NEW s \in NodeGameStatus, StatusSend(s)
       PROVE HandlerConsistent'
  BY <1>15 DEF StatusSend
<1>16. CASE StatusDrop
  BY <1>16 DEF StatusDrop
<1>17. CASE CountdownNotify
  BY <1>17 DEF CountdownNotify
<1>18. CASE UNCHANGED vars
  BY <1>18 DEF vars
<1>19. QED
  BY <1>1, <1>2, <1>3, <1>4, <1>5, <1>6, <1>7, <1>8, <1>9, <1>11, <1>12,
     <1>13, <1>14, <1>15, <1>16, <1>17, <1>18
  DEF Next, HandlerStep, Environment

LEMMA NextIInv == IInv /\ [Next]_vars => IInv'
BY NextTypeOK, NextConsistent DEF IInv

-----------------------------------------------------------------------------
(* The theorems.                                                           *)

\* IInv holds in every reachable state.
THEOREM IInvInvariant == Spec => []IInv
BY InitIInv, NextIInv, PTL DEF Spec

\* Every variable of the handler keeps its type (TypeOK, checked by the
\* run lobby_handler).
THEOREM TypeCorrect == Spec => []TypeOK
<1>1. IInv => TypeOK
  BY DEF IInv
<1>2. QED
  BY <1>1, IInvInvariant, PTL

\* In the select! loop send_start has never begun: the `if self.starting`
\* early return of send_start (line 147) is dead code, so CountDownStart
\* cannot be written twice by it.
THEOREM RunNotStarting == Spec => [](pc = "run" => ~starting)
<1>1. IInv => (pc = "run" => ~starting)
  BY DEF IInv, HandlerConsistent
<1>2. QED
  BY <1>1, IInvInvariant, PTL

\* Whichever path reaches send_start (a client frame, lines 110-113, or a
\* status change, lines 129-132), the join counts were exactly ready, the
\* last status seen was Loading or Running, and readiness had been
\* reported to the node and the sink (StartedOnlyWhenReady).
THEOREM StartSafety == Spec => []StartedOnlyWhenReady
<1>1. IInv => StartedOnlyWhenReady
  BY DEF IInv, HandlerConsistent, StartedOnlyWhenReady
<1>2. QED
  BY <1>1, IInvInvariant, PTL

\* The node hears Joined, and the sink LanGameJoined, at most once and
\* only after the counts were seen ready (JoinedReportedOnce).
THEOREM ReportSafety == Spec => []JoinedReportedOnce
<1>1. IInv => JoinedReportedOnce
  BY DEF IInv, TypeOK, HandlerConsistent, JoinedReportedOnce
<1>2. QED
  BY <1>1, IInvInvariant, PTL

=============================================================================
