---------------------------- MODULE LanGameProofs ----------------------------
(***************************************************************************)
(* StopRequestedBeforeDispatch holds for every set of statuses and every   *)
(* bound.  It is not inductive alone: DispatchStatus hands the proxy the   *)
(* pending status, so the invariant also says that a pending status past  *)
(* Loading was notified (StopRequestedPending), and Create spawns the      *)
(* publisher only before any status was handled (NothingBeforeCreate).     *)
(***************************************************************************)
EXTENDS LanGame, TLAPS

USE LanGameAssumption

\* The publisher was told to stop: a permit waits, or it has woken.
StopRequested == permit \/ pub \in {"draining", "exited"}

StopRequestedPending ==
  pending \notin Advertised \cup {None} => StopRequested

NothingBeforeCreate ==
  phase = "creating" => pending = None /\ proxy_status = None /\ pub = "none"

LInv ==
  /\ TypeOK
  /\ StopRequestedBeforeDispatch
  /\ StopRequestedPending
  /\ NothingBeforeCreate

LEMMA InitLInv == Init => LInv
<1> SUFFICES ASSUME Init PROVE LInv
  OBVIOUS
<1>1. proxy_up \in BOOLEAN /\ permit \in BOOLEAN /\ scope_alive \in BOOLEAN
  BY Zenon DEF Init
<1>2. TypeOK
  BY <1>1 DEF Init, TypeOK
<1>. QED
  BY <1>2 DEF Init, LInv, StopRequestedBeforeDispatch, StopRequestedPending,
              NothingBeforeCreate

\* Every step keeps the type, and a stop request is never withdrawn
\* while the publisher has not woken: only PublisherWake clears the
\* permit, and it moves the publisher to draining.
LEMMA NextLInv == LInv /\ [Next]_vars => LInv'
<1> SUFFICES ASSUME LInv, [Next]_vars PROVE LInv'
  OBVIOUS
<1> USE DEF LInv, TypeOK, StopRequestedBeforeDispatch, StopRequestedPending,
           NothingBeforeCreate, StopRequested
<1>1. CASE Create
  BY <1>1 DEF Create
<1>2. CASE PublisherStart
  BY <1>2 DEF PublisherStart
<1>3. CASE PublisherWake
  BY <1>3 DEF PublisherWake
<1>4. CASE PublisherExit
  BY <1>4 DEF PublisherExit
<1>5. ASSUME NEW s \in Status, UpdateGameStatus(s) PROVE LInv'
  <2>1. CASE s \notin Advertised
    <3>1. permit' = TRUE
      BY <1>5, <2>1 DEF UpdateGameStatus, Notify
    <3>. QED
      BY <1>5, <3>1 DEF UpdateGameStatus
  <2>2. CASE s \in Advertised
    BY <1>5, <2>2 DEF UpdateGameStatus
  <2>. QED
    BY <2>1, <2>2
<1>6. CASE DispatchStatus
  BY <1>6 DEF DispatchStatus
<1>7. CASE UpdatePlayerStatus
  BY <1>7 DEF UpdatePlayerStatus
<1>8. CASE Shutdown \/ ShutdownDone \/ Drop
  BY <1>8 DEF Shutdown, ShutdownDone, Drop
<1>9. CASE UNCHANGED vars
  BY <1>9 DEF vars
<1>. QED
  BY <1>1, <1>2, <1>3, <1>4, <1>5, <1>6, <1>7, <1>8, <1>9 DEF Next

\* Every variable of the LAN game keeps its type (TypeOK, checked by the
\* run lan_game).
THEOREM LanGameTypeCorrect == Spec => []TypeOK
<1>1. LInv => TypeOK
  BY DEF LInv
<1>. QED
  BY <1>1, InitLInv, NextLInv, PTL DEF Spec

\* Whenever the proxy holds a status past Loading (what the lobby handler
\* then starts the game on), the mDNS publisher was already told to stop,
\* even if update_game_status ran before the publisher task first waited:
\* update_game_status notifies before it dispatches, and the notify is
\* stored as a permit (StopRequestedBeforeDispatch, checked by lan_game).
THEOREM StopBeforeDispatch == Spec => []StopRequestedBeforeDispatch
<1>1. LInv => StopRequestedBeforeDispatch
  BY DEF LInv
<1>. QED
  BY <1>1, InitLInv, NextLInv, PTL DEF Spec

=============================================================================
