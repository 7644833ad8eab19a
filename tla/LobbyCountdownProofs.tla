------------------------ MODULE LobbyCountdownProofs ------------------------
(***************************************************************************)
(* Proofs about the start sequence of send_start (lobby.rs, lines         *)
(* 146-180), for every value of the constants: what the client stream     *)
(* carries around CountDownStart and CountDownEnd, and when CountDownEnd  *)
(* is written.  They rest on CInv, IInv strengthened by                    *)
(* CountdownConsistent.                                                    *)
(***************************************************************************)
EXTENDS LobbyHandlerProofs

USE ConstAssumption

-----------------------------------------------------------------------------
(* Lemmas about the log of the client stream.                              *)

\* A frame of the lobby traffic keeps a lobby-only log lobby-only.
LEMMA LoggedLobby ==
  ASSUME NEW s \in Seq(SentEntry), LobbyOnly(s, Len(s)),
         NEW f \in HostPacket \ StartFrame
  PROVE  /\ Logged(s, f) \in Seq(SentEntry)
         /\ LobbyOnly(Logged(s, f), Len(Logged(s, f)))
BY DEF Logged, LobbyOnly, SentEntry, StartFrame, HostPacket

\* So do the frames handle_packet writes in reply.
LEMMA ReplyLobby ==
  ASSUME NEW s \in Seq(SentEntry), LobbyOnly(s, Len(s)),
         NEW k \in ClientPacket
  PROVE  /\ LoggedAll(s, Reply(k)) \in Seq(SentEntry)
         /\ LobbyOnly(LoggedAll(s, Reply(k)), Len(LoggedAll(s, Reply(k))))
<1>1. CASE k \in DOMAIN ReplyTo
  <2>1. ReplyTo[k] \in HostPacket \ StartFrame
    BY <1>1 DEF ReplyTo, HostPacket, StartFrame
  <2>2. LoggedAll(s, Reply(k)) = Logged(s, ReplyTo[k])
    BY <1>1 DEF LoggedAll, Reply
  <2>3. QED
    BY <2>1, <2>2, LoggedLobby
<1>2. CASE k \notin DOMAIN ReplyTo
  BY <1>2 DEF LoggedAll, Reply
<1>3. QED
  BY <1>1, <1>2

\* SlotInfo then CountDownStart after lobby traffic.
LEMMA StartLogged ==
  ASSUME NEW s \in Seq(SentEntry), LobbyOnly(s, Len(s))
  PROVE  /\ Logged(Logged(s, "SlotInfo"), "CountDownStart") \in Seq(SentEntry)
         /\ StartWritten(Logged(Logged(s, "SlotInfo"), "CountDownStart"))
BY DEF Logged, StartWritten, LobbyOnly, SentEntry, StartFrame

\* CountDownEnd after the start frames.
LEMMA EndLogged ==
  ASSUME NEW s \in Seq(SentEntry), StartWritten(s)
  PROVE  /\ Logged(s, "CountDownEnd") = Append(s, "CountDownEnd")
         /\ EndWritten(Logged(s, "CountDownEnd"))
BY DEF Logged, StartWritten, EndWritten, LobbyOnly, StartFrame

\* A log that is lobby traffic, or ends with CountDownStart, did not just
\* receive CountDownEnd.
LEMMA NotEnd ==
  ASSUME NEW s \in Seq(SentEntry), NEW t \in Seq(SentEntry),
         LobbyOnly(t, Len(t)) \/ StartWritten(t)
  PROVE  ~(Len(t) > Len(s) /\ t[Len(t)] = "CountDownEnd")
BY DEF LobbyOnly, StartWritten

\* The three shapes of the log make CountdownFraming hold.
LEMMA FramingFromShape ==
  ASSUME NEW s \in Seq(SentEntry),
         LobbyOnly(s, Len(s)) \/ StartWritten(s) \/ EndWritten(s)
  PROVE  \A i \in 1..Len(s) :
           /\ s[i] = "CountDownStart" =>
                /\ i > 1
                /\ s[i - 1] = "SlotInfo"
                /\ \A j \in (i + 1)..Len(s) : j = i + 1 /\ s[j] = "CountDownEnd"
           /\ s[i] = "CountDownEnd" => i > 1 /\ s[i - 1] = "CountDownStart"
<1>1. CASE LobbyOnly(s, Len(s))
  BY <1>1 DEF LobbyOnly
<1>2. CASE StartWritten(s)
  BY <1>2 DEF StartWritten, LobbyOnly
<1>3. CASE EndWritten(s)
  BY <1>3 DEF EndWritten, LobbyOnly
<1>4. QED
  BY <1>1, <1>2, <1>3

-----------------------------------------------------------------------------
(* What the writing steps do to the log and to pc.                         *)

\* The log after a step of the select! loop that writes: lobby traffic,
\* with run() still looping or returned, or the start frames, with the
\* countdown begun.
RunShape ==
  \/ LobbyOnly(sent, Len(sent)) /\ pc \in {"run", "done"}
  \/ StartWritten(sent) /\ pc = "sleep3"

\* send_start from a lobby-only log.
LEMMA SendStartShape ==
  ASSUME NEW s \in Seq(SentEntry), LobbyOnly(s, Len(s)), SendStart(s)
  PROVE  sent' \in Seq(SentEntry) /\ RunShape'
<1>1. CASE /\ sent' = Logged(Logged(s, "SlotInfo"), "CountDownStart")
           /\ pc' = "sleep3"
  BY <1>1, StartLogged DEF RunShape
<1>2. CASE WriteMayFail /\ sent' = s /\ Finish("IoError")
  BY <1>2 DEF RunShape, Finish
<1>3. QED
  BY <1>1, <1>2 DEF SendStart

\* A client frame read in the loop (lines 87-114).
LEMMA RecvPacketShape ==
  ASSUME TypeOK, pc = "run", LobbyOnly(sent, Len(sent)),
         NEW k \in ClientPacket, RecvPacket(k)
  PROVE  sent' \in Seq(SentEntry) /\ RunShape'
<1>1. /\ LoggedAll(sent, Reply(k)) \in Seq(SentEntry)
      /\ LobbyOnly(LoggedAll(sent, Reply(k)), Len(LoggedAll(sent, Reply(k))))
  BY ReplyLobby DEF TypeOK
<1>2. CASE /\ Reply(k) # <<>>
           /\ WriteMayFail
           /\ Finish("IoError")
           /\ UNCHANGED <<reported, starting, out_vars>>
  BY <1>2 DEF TypeOK, RunShape, Finish, out_vars
<1>3. CASE AfterPacket(LoggedAll(sent, Reply(k))) /\ should_start'
  <2>1. SendStart(LoggedAll(sent, Reply(k)))
    BY <1>3 DEF AfterPacket
  <2>2. QED
    BY <1>1, <2>1, SendStartShape
<1>4. CASE AfterPacket(LoggedAll(sent, Reply(k))) /\ ~should_start'
  BY <1>1, <1>4 DEF AfterPacket, RunShape
<1>5. QED
  BY <1>2, <1>3, <1>4 DEF RecvPacket

\* A tick of the ping interval (lines 119-121).
LEMMA PingTickShape ==
  ASSUME TypeOK, LobbyOnly(sent, Len(sent)), PingTick
  PROVE  sent' \in Seq(SentEntry) /\ RunShape'
<1>1. /\ Logged(sent, "PingFromHost") \in Seq(SentEntry)
      /\ LobbyOnly(Logged(sent, "PingFromHost"),
                   Len(Logged(sent, "PingFromHost")))
  BY LoggedLobby DEF TypeOK, HostPacket, StartFrame
<1>2. QED
  BY <1>1 DEF PingTick, TypeOK, RunShape, Finish

\* A change of the node status (lines 122-136).
LEMMA StatusChangedShape ==
  ASSUME TypeOK, LobbyOnly(sent, Len(sent)), StatusChanged
  PROVE  sent' \in Seq(SentEntry) /\ RunShape'
<1>1. CASE should_start'
  <2>1. SendStart(sent)
    BY <1>1 DEF StatusChanged
  <2>2. QED
    BY <2>1, SendStartShape DEF TypeOK
<1>2. CASE ~should_start'
  BY <1>2 DEF StatusChanged, TypeOK, RunShape
<1>3. QED
  BY <1>1, <1>2

\* The end of the countdown (lines 179-180): CountDownEnd, or a failed
\* write that leaves the log as it was; run() returns either way.
LEMMA EndCountdownShape ==
  ASSUME NEW s \in Seq(SentEntry), StartWritten(s), sent = s, EndCountdown
  PROVE  /\ pc' = "done"
         /\ \/ sent' = Append(s, "CountDownEnd") /\ EndWritten(sent')
            \/ sent' = s
BY EndLogged DEF EndCountdown, Finish

-----------------------------------------------------------------------------
(* CInv is inductive.                                                      *)

LEMMA InitCInv == Init => CInv
<1>1. Init => CountdownConsistent
  BY DEF Init, CountdownConsistent, LobbyOnly, Countdown
<1>2. QED
  BY <1>1, InitIInv DEF CInv

LEMMA NextCountdown == CInv /\ [Next]_vars => CountdownConsistent'
<1> SUFFICES ASSUME CInv, [Next]_vars PROVE CountdownConsistent'
  OBVIOUS
<1>0. TypeOK /\ CountdownConsistent
  BY DEF CInv, IInv
<1> USE DEF cfg_vars, bound_vars, recv_vars, env_vars, out_vars
\* The steps of the select! loop that write: the log stays lobby traffic
\* or gets the start frames, and pc goes to run, sleep3 or done.
<1>1. ASSUME RunShape', sent' \in Seq(SentEntry), elapsed' = elapsed,
             has_notify' = has_notify
      PROVE  CountdownConsistent'
  BY <1>1 DEF RunShape, CountdownConsistent, Countdown
<1>2. ASSUME NEW k \in ClientPacket, RecvPacket(k) PROVE CountdownConsistent'
  <2>1. pc = "run" /\ elapsed' = elapsed /\ has_notify' = has_notify
    BY <1>2 DEF RecvPacket
  <2>2. LobbyOnly(sent, Len(sent))
    BY <1>0, <2>1 DEF CountdownConsistent
  <2>3. QED
    BY <1>0, <1>1, <1>2, <2>1, <2>2, RecvPacketShape
<1>3. CASE PingTick
  <2>1. pc = "run" /\ elapsed' = elapsed /\ has_notify' = has_notify
    BY <1>3 DEF PingTick
  <2>2. LobbyOnly(sent, Len(sent))
    BY <1>0, <2>1 DEF CountdownConsistent
  <2>3. QED
    BY <1>0, <1>1, <1>3, <2>1, <2>2, PingTickShape
<1>4. CASE StatusChanged
  <2>1. pc = "run" /\ elapsed' = elapsed /\ has_notify' = has_notify
    BY <1>4 DEF StatusChanged
  <2>2. LobbyOnly(sent, Len(sent))
    BY <1>0, <2>1 DEF CountdownConsistent
  <2>3. QED
    BY <1>0, <1>1, <1>4, <2>1, <2>2, StatusChangedShape
\* The steps that end run() from the loop without writing.
<1>5. ASSUME pc' = "done", sent' = sent PROVE CountdownConsistent'
  BY <1>0, <1>5 DEF CountdownConsistent, Countdown
<1>6. ASSUME NEW k \in ClientPacket, RecvFatal(k) PROVE CountdownConsistent'
  BY <1>5, <1>6 DEF RecvFatal, Finish
<1>7. CASE RecvClosed \/ StatusClosed
  BY <1>5, <1>7 DEF RecvClosed, StatusClosed, Finish
\* The countdown.
<1>8. CASE Tick
  <2>1. /\ UNCHANGED <<sent, pc, has_notify>>
        /\ elapsed' = elapsed + 1
        /\ elapsed \in Nat
    BY <1>0, <1>8 DEF Tick, TypeOK
  <2>2. QED
    BY <1>0, <2>1 DEF CountdownConsistent
<1>9. CASE FirstSleepDone
  BY <1>0, <1>9 DEF FirstSleepDone, CountdownConsistent, Countdown, Deadline
<1>10. ASSUME EndCountdown, pc \in Countdown PROVE CountdownConsistent'
  <2>1. StartWritten(sent)
    BY <1>0, <1>10 DEF CountdownConsistent
  <2>2. /\ pc' = "done"
        /\ \/ sent' = Append(sent, "CountDownEnd") /\ EndWritten(sent')
           \/ sent' = sent
    BY <1>0, <1>10, <2>1, EndCountdownShape DEF TypeOK
  <2>3. QED
    BY <1>0, <2>1, <2>2 DEF CountdownConsistent, Countdown
<1>11. CASE NotifyReceived \/ NotifyTimeout \/ SecondSleepDone
  <2>1. EndCountdown /\ pc \in Countdown
    BY <1>11 DEF NotifyReceived, NotifyTimeout, SecondSleepDone, Countdown
  <2>2. QED
    BY <1>10, <2>1
\* The environment and stuttering leave the log, pc and the clock alone.
<1>12. CASE RecvLeaveReq \/ Environment \/ UNCHANGED vars
  <2>1. UNCHANGED <<sent, pc, elapsed, has_notify>>
    BY <1>12 DEF RecvLeaveReq, Environment, ClientClose, StatusSend,
                 StatusDrop, CountdownNotify, vars
  <2>2. QED
    BY <1>0, <2>1 DEF CountdownConsistent
<1>13. QED
  BY <1>2, <1>3, <1>4, <1>6, <1>7, <1>8, <1>9, <1>11, <1>12
  DEF Next, HandlerStep

LEMMA NextCInv == CInv /\ [Next]_vars => CInv'
BY NextIInv, NextCountdown DEF CInv

\* CInv holds in every reachable state of the handler.
THEOREM CInvInvariant == Spec => []CInv
BY InitCInv, NextCInv, PTL DEF Spec

\* Whatever the client sends and however the node status and the timers
\* interleave, CountDownStart is written only right after SlotInfo, then
\* nothing but one CountDownEnd, and CountDownEnd only right after
\* CountDownStart: send_start's three writes (lines 155-179) are never
\* split by a ping or a reply, because the select! loop is not polled
\* while send_start awaits (CountdownFraming, checked by lobby_handler).
THEOREM FramingSafety == Spec => []CountdownFraming
<1>1. CInv => CountdownFraming
  <2> SUFFICES ASSUME CInv PROVE CountdownFraming
    OBVIOUS
  <2>1. sent \in Seq(SentEntry) /\ CountdownConsistent
    BY DEF CInv, IInv, TypeOK
  <2>2. QED
    BY <2>1, FramingFromShape DEF CountdownConsistent, CountdownFraming
<1>2. QED
  BY <1>1, CInvInvariant, PTL

-----------------------------------------------------------------------------
(* When CountDownEnd is written.                                           *)

\* One step of the handler, seen by CountdownWindow: if it wrote
\* CountDownEnd, it did so within the window.
WindowStep ==
  (Len(sent') > Len(sent) /\ sent'[Len(sent')] = "CountDownEnd") =>
    /\ elapsed \in 3..(3 + 6)
    /\ ~has_notify => elapsed = 3 + 3
    /\ (has_notify /\ elapsed < 3 + 6) => (permit /\ ~permit')

LEMMA NextWindow == CInv /\ [Next]_vars => WindowStep
<1> SUFFICES ASSUME CInv, [Next]_vars PROVE WindowStep
  OBVIOUS
<1>0. TypeOK /\ CountdownConsistent
  BY DEF CInv, IInv
<1> USE DEF cfg_vars, bound_vars, recv_vars, env_vars, out_vars
\* A step that writes no CountDownEnd.
<1>1. ASSUME sent' \in Seq(SentEntry), RunShape' PROVE WindowStep
  <2>1. LobbyOnly(sent', Len(sent')) \/ StartWritten(sent')
    BY <1>1 DEF RunShape
  <2>2. sent \in Seq(SentEntry)
    BY <1>0 DEF TypeOK
  <2>3. QED
    BY <1>1, <2>1, <2>2, NotEnd DEF WindowStep
<1>2. ASSUME sent' = sent PROVE WindowStep
  BY <1>2 DEF WindowStep
<1>3. ASSUME NEW k \in ClientPacket, RecvPacket(k) PROVE WindowStep
  <2>1. pc = "run"
    BY <1>3 DEF RecvPacket
  <2>2. QED
    BY <1>0, <1>1, <1>3, <2>1, RecvPacketShape DEF CountdownConsistent
<1>4. CASE PingTick
  <2>1. pc = "run"
    BY <1>4 DEF PingTick
  <2>2. QED
    BY <1>0, <1>1, <1>4, <2>1, PingTickShape DEF CountdownConsistent
<1>5. CASE StatusChanged
  <2>1. pc = "run"
    BY <1>5 DEF StatusChanged
  <2>2. QED
    BY <1>0, <1>1, <1>5, <2>1, StatusChangedShape DEF CountdownConsistent
<1>6. CASE \/ \E k \in ClientPacket : RecvFatal(k)
           \/ RecvLeaveReq \/ RecvClosed \/ StatusClosed
           \/ Tick \/ FirstSleepDone \/ Environment \/ UNCHANGED vars
  <2>1. sent' = sent
    BY <1>6 DEF RecvFatal, RecvLeaveReq, RecvClosed, StatusClosed, Tick,
                FirstSleepDone, Environment, ClientClose, StatusSend,
                StatusDrop, CountdownNotify, vars
  <2>2. QED
    BY <1>2, <2>1
\* The three awaits that end the countdown.
<1>7. elapsed \in 0..(3 + 6)
  BY <1>0 DEF TypeOK, Deadline
<1>8. CASE NotifyReceived
  <2>1. has_notify /\ elapsed >= 3
    BY <1>0, <1>8 DEF NotifyReceived, CountdownConsistent
  <2>2. permit /\ ~permit'
    BY <1>8 DEF NotifyReceived
  <2>3. QED
    BY <1>7, <2>1, <2>2 DEF WindowStep
<1>9. CASE NotifyTimeout
  <2>1. has_notify /\ elapsed = 3 + 6
    BY <1>0, <1>9 DEF NotifyTimeout, CountdownConsistent, Deadline
  <2>2. QED
    BY <2>1 DEF WindowStep
<1>10. CASE SecondSleepDone
  <2>1. ~has_notify /\ elapsed = 3 + 3
    BY <1>0, <1>10 DEF SecondSleepDone, CountdownConsistent, Deadline
  <2>2. QED
    BY <2>1 DEF WindowStep
<1>11. QED
  BY <1>3, <1>4, <1>5, <1>6, <1>8, <1>9, <1>10 DEF Next, HandlerStep

\* CountDownEnd is written 3 to 9 s after CountDownStart: exactly 6 s
\* when the handler has no countdown notifier (two sleep(3), lines 161
\* and 176), and before the 6 s ceiling of the notifier (line 171) only
\* by consuming a permit of notify.notified() (CountdownWindow, checked
\* by lobby_handler).
THEOREM WindowSafety == Spec => CountdownWindow
<1>1. CInv /\ [Next]_vars => [WindowStep]_vars
  BY NextWindow
<1>2. QED
  BY <1>1, CInvInvariant, PTL DEF Spec, CountdownWindow, WindowStep

=============================================================================
