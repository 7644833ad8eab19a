------------------------ MODULE LobbyRefinementProofs ------------------------
(***************************************************************************)
(* The lobby handler implements the safety part of the abstract lobby      *)
(* (LobbyAbstract) under the mapping LobbyPhase, reported and "status is   *)
(* Loading or Running", for every value of the constants.  The step        *)
(* lemma rests on the inductive invariant IInv of LobbyHandlerProofs: a    *)
(* status change may begin the countdown only because ready counts in the  *)
(* loop were already reported.                                            *)
(***************************************************************************)
EXTENDS LobbyHandlerProofs

\* The node status the abstract lobby sees.
Go == status \in {"Loading", "Running"}

LEMMA PhaseNames ==
  /\ "run" \notin Countdown
  /\ "done" \notin Countdown
  /\ {"waitNotify", "sleep3b", "sleep3"} \subseteq Countdown
BY DEF Countdown

\* send_start either reaches its first sleep or fails with IoError.
LEMMA SendStartEffect ==
  ASSUME NEW s, SendStart(s)
  PROVE  \/ pc' = "sleep3"
         \/ pc' = "done" /\ result' = "IoError"
BY DEF SendStart, Finish

\* After an accepted frame, run() begins send_start or stays in the loop.
LEMMA AfterPacketPhase ==
  ASSUME NEW s, AfterPacket(s)
  PROVE  /\ should_start' => \/ pc' = "sleep3"
                             \/ pc' = "done" /\ result' = "IoError"
         /\ ~should_start' => pc' = pc /\ result' = result
<1>1. should_start' => SendStart(s)
  BY DEF AfterPacket
<1>. QED
  BY <1>1, SendStartEffect DEF AfterPacket

\* The end of the countdown is an abstract Finish.
LEMMA EndCountdownPhase ==
  ASSUME EndCountdown
  PROVE  pc' = "done" /\ result' \in {"Start", "IoError"}
BY DEF EndCountdown, Finish

LEMMA InitRefines == Init => Lobby!Init
BY DEF Init, Lobby!Init, LobbyPhase

\* Every step of the handler is a step of the abstract lobby or leaves
\* the mapped state unchanged.
LEMMA NextRefines ==
  IInv /\ [Next]_vars => [Lobby!Next]_(Lobby!avars)
<1> SUFFICES ASSUME IInv, [Next]_vars
             PROVE  [Lobby!Next]_(Lobby!avars)
  OBVIOUS
<1> USE PhaseNames DEF Lobby!Next, Lobby!avars, Lobby!Join, Lobby!Status,
                       Lobby!Begin, Lobby!Finish, Lobby!Fail, LobbyPhase,
                       Finish
<1>1. ASSUME NEW k \in ClientPacket, RecvPacket(k)
      PROVE  [Lobby!Next]_(Lobby!avars)
  <2>1. pc = "run" /\ status' = status
    BY <1>1 DEF RecvPacket
  <2>2. CASE /\ Reply(k) # <<>>
             /\ WriteMayFail
             /\ Finish("IoError")
             /\ UNCHANGED <<reported, starting, out_vars>>
    <3>1. pc' = "done" /\ result' = "IoError" /\ reported' = reported
      BY <2>2 DEF Finish
    <3>. QED
      BY <2>1, <3>1
  <2>3. CASE AfterPacket(LoggedAll(sent, Reply(k)))
    <3>1. reported' = (reported \/ is_ready')
      BY <2>3, AfterPacketEffect
    <3>2. CASE should_start'
      <4>1. reported' = TRUE /\ Go'
        BY <2>1, <3>1, <3>2 DEF should_start, Go
      <4>2. \/ pc' = "sleep3"
            \/ pc' = "done" /\ result' = "IoError"
        BY <2>3, <3>2, AfterPacketPhase
      <4>. QED
        BY <2>1, <4>1, <4>2 DEF Go
    <3>3. CASE ~should_start'
      <4>1. pc' = pc /\ result' = result
        BY <2>3, <3>3, AfterPacketPhase
      <4>2. CASE reported' = reported
        BY <2>1, <4>1, <4>2
      <4>3. CASE reported' # reported
        <5>1. ~reported /\ reported' = TRUE
          BY <3>1, <4>3 DEF IInv, TypeOK
        <5>. QED
          BY <2>1, <4>1, <5>1
      <4>. QED
        BY <4>2, <4>3
    <3>. QED
      BY <3>2, <3>3
  <2>. QED
    BY <1>1, <2>2, <2>3 DEF RecvPacket
<1>2. ASSUME NEW k \in ClientPacket, RecvFatal(k)
      PROVE  [Lobby!Next]_(Lobby!avars)
  <2>1. pc = "run" /\ pc' = "done" /\ result' # "Start"
    BY <1>2 DEF RecvFatal, FatalError
  <2>. QED
    BY <1>2, <2>1 DEF RecvFatal, recv_vars
<1>3. CASE RecvLeaveReq
  BY <1>3 DEF RecvLeaveReq, recv_vars
<1>4. CASE RecvClosed
  BY <1>4 DEF RecvClosed, recv_vars
<1>5. CASE PingTick
  BY <1>5 DEF PingTick, recv_vars
<1>6. CASE StatusChanged
  <2>1. pc = "run" /\ reported' = reported /\ is_ready' = is_ready
    BY <1>6 DEF StatusChanged, is_ready
  <2>2. CASE should_start'
    <3>1. reported /\ Go'
      BY <2>1, <2>2 DEF IInv, HandlerConsistent, should_start, Go
    <3>2. \/ pc' = "sleep3"
          \/ pc' = "done" /\ result' = "IoError"
      BY <1>6, <2>2, SendStartEffect DEF StatusChanged
    <3>. QED
      BY <2>1, <3>1, <3>2 DEF Go
  <2>3. CASE ~should_start'
    <3>1. pc' = pc /\ result' = result
      BY <1>6, <2>3 DEF StatusChanged
    <3>. QED
      BY <2>1, <3>1
  <2>. QED
    BY <2>2, <2>3
<1>7. CASE StatusClosed
  BY <1>7 DEF StatusClosed, recv_vars
<1>8. CASE Tick
  BY <1>8 DEF Tick, recv_vars
<1>9. CASE FirstSleepDone
  BY <1>9 DEF FirstSleepDone, recv_vars, cfg_vars
<1>10. ASSUME EndCountdown,
              pc \in Countdown,
              UNCHANGED <<recv_vars, reported>>
       PROVE  [Lobby!Next]_(Lobby!avars)
  BY <1>10, EndCountdownPhase DEF recv_vars
<1>11. CASE NotifyReceived
  BY <1>11, <1>10 DEF NotifyReceived
<1>12. CASE NotifyTimeout
  BY <1>12, <1>10 DEF NotifyTimeout
<1>13. CASE SecondSleepDone
  BY <1>13, <1>10 DEF SecondSleepDone
<1>14. CASE Environment
  BY <1>14 DEF Environment, ClientClose, StatusSend, StatusDrop,
               CountdownNotify, recv_vars
<1>15. CASE UNCHANGED vars
  BY <1>15 DEF vars, recv_vars
<1>. QED
  BY <1>1, <1>2, <1>3, <1>4, <1>5, <1>6, <1>7, <1>8, <1>9, <1>11, <1>12,
     <1>13, <1>14, <1>15
  DEF Next, HandlerStep

\* The handler implements the abstract lobby's safety part (the property
\* ImplementsLobby of the run lobby_handler, less its fairness): the
\* readiness is reported once and never withdrawn, the countdown begins
\* only with it reported and the node at Loading or Running, whichever of
\* a client frame (lines 96-114) or a status change (lines 122-136)
\* begins it, and run() never returns to the select! loop afterwards.
THEOREM Refinement == Spec => Lobby!SafeSpec
<1>1. Init => Lobby!Init
  BY InitRefines
<1>2. IInv /\ [Next]_vars => [Lobby!Next]_(Lobby!avars)
  BY NextRefines
<1>. QED
  BY <1>1, <1>2, IInvInvariant, PTL DEF Spec, Lobby!SafeSpec

=============================================================================
