------------------------ MODULE ControllerGamesProofs ------------------------
(***************************************************************************)
(* OpenGameRegistered holds for every set of players, games and concurrent *)
(* calls, whatever the game actors answer and whichever calls are          *)
(* abandoned.  It is not inductive alone: a cancel_game, or a leave_game   *)
(* told game_ended, that waits to send Remove is about to unregister its   *)
(* game, so IInv adds that such a game is already closed (StopPending),    *)
(* and that its id was created, so that no CreateGame can reopen it.       *)
(***************************************************************************)
EXTENDS ControllerGames, TLAPS

USE GamesAssumption

\* A call about to send Remove: a cancel, or a leave told game_ended.
Stopping(r) == r.op = "cancel" \/ (r.op = "leave" /\ ended[r])

StopPending ==
  \A r \in Request :
    pc[r] = "step2" /\ Stopping(r) =>
      ~open[r.game] /\ r.game \in created

IInv == TypeOK /\ OpenGameRegistered /\ StopPending

\* A request's fields.
LEMMA RequestFields ==
  ASSUME NEW r \in Request
  PROVE  r.game \in GameId /\ r.player \in Player /\ r.op \in Op
BY DEF RequestType

LEMMA InitIInv == Init => IInv
BY DEF Init, IInv, TypeOK, OpenGameRegistered, StopPending, ReqPhase

\* A step of call r changes no other call's pc, reply or ended flag.
LEMMA OthersUnchanged ==
  ASSUME TypeOK, NEW r \in Request, Arrive(r) \/ Resume(r) \/ Abandon(r)
  PROVE  /\ pc' \in [Request -> ReqPhase]
         /\ reply' \in [Request -> {"None", "Ok", "Err"}]
         /\ ended' \in [Request -> BOOLEAN]
         /\ \A q \in Request \ {r} :
              pc'[q] = pc[q] /\ ended'[q] = ended[q]
<1>1. \/ pc' = [pc EXCEPT ![r] = "done"]
      \/ pc' = [pc EXCEPT ![r] = "step2"]
  BY DEF Arrive, Resume, Abandon, CreateGame, JoinStep1, LeaveStep1,
         SelectStep1, CancelStep1, StartBotStep1, JoinStep2, LeaveStep2,
         SelectStep2, CancelStep2, StartBotStep2, Return, Continue, Refused
<1>2. \/ reply' = reply
      \/ reply' = [reply EXCEPT ![r] = "Ok"]
      \/ reply' = [reply EXCEPT ![r] = "Err"]
  BY DEF Arrive, Resume, Abandon, CreateGame, JoinStep1, LeaveStep1,
         SelectStep1, CancelStep1, StartBotStep1, JoinStep2, LeaveStep2,
         SelectStep2, CancelStep2, StartBotStep2, Return, Continue, Refused
<1>3. \/ ended' = ended
      \/ \E e \in BOOLEAN : ended' = [ended EXCEPT ![r] = e]
  BY DEF Arrive, Resume, Abandon, CreateGame, JoinStep1, LeaveStep1,
         SelectStep1, CancelStep1, StartBotStep1, JoinStep2, LeaveStep2,
         SelectStep2, CancelStep2, StartBotStep2, Refused
<1>. QED
  BY <1>1, <1>2, <1>3 DEF TypeOK, ReqPhase

\* The registry and actor parts of TypeOK are kept by every step.
LEMMA NextStateTypes ==
  ASSUME TypeOK, [Next]_vars
  PROVE  /\ games' \subseteq created'
         /\ created' \subseteq GameId
         /\ index' \in [Player -> SUBSET GameId]
         /\ cache' \in [GameId -> Node \cup {None}]
         /\ open' \in [GameId -> BOOLEAN]
         /\ members' \in [GameId -> SUBSET Player]
         /\ node' \in [GameId -> Node \cup {None}]
<1>1. CASE UNCHANGED vars
  BY <1>1 DEF vars, registry_vars, actor_vars, TypeOK
<1>2. ASSUME NEW r \in Request, Arrive(r)
      PROVE  /\ games' \subseteq created'
             /\ created' \subseteq GameId
             /\ index' \in [Player -> SUBSET GameId]
             /\ cache' \in [GameId -> Node \cup {None}]
             /\ open' \in [GameId -> BOOLEAN]
             /\ members' \in [GameId -> SUBSET Player]
             /\ node' \in [GameId -> Node \cup {None}]
  <2>0. r.game \in GameId /\ r.player \in Player /\ r.node \in Node \cup {None}
    BY RequestFields DEF RequestType
  <2>1. CASE Refused(r)
    BY <2>1 DEF Refused, registry_vars, actor_vars, TypeOK
  <2>2. CASE CreateGame(r) /\ ~Refused(r)
    <3>1. RegistryCreate(r.game, r.player)
      BY <2>2, Zenon DEF CreateGame
    <3>. QED
      BY <2>0, <3>1 DEF RegistryCreate, TypeOK
  <2>3. CASE JoinStep1(r) /\ ~Refused(r)
    BY <2>0, <2>3 DEF JoinStep1, registry_vars, TypeOK
  <2>4. CASE LeaveStep1(r) /\ ~Refused(r)
    <3>1. PICK e \in BOOLEAN :
            /\ members' = [members EXCEPT ![r.game] = @ \ {r.player}]
            /\ open' = [open EXCEPT ![r.game] = @ /\ ~e]
            /\ UNCHANGED <<registry_vars, node>>
      BY <2>4, Zenon DEF LeaveStep1
    <3>. QED
      BY <2>0, <3>1 DEF registry_vars, TypeOK
  <2>5. CASE SelectStep1(r) /\ ~Refused(r)
    BY <2>0, <2>5 DEF SelectStep1, registry_vars, TypeOK
  <2>6. CASE CancelStep1(r) /\ ~Refused(r)
    BY <2>0, <2>6 DEF CancelStep1, registry_vars, TypeOK
  <2>7. CASE StartBotStep1(r)
    BY <2>7 DEF StartBotStep1, registry_vars, actor_vars, TypeOK
  <2>. QED
    BY <1>2, <2>1, <2>2, <2>3, <2>4, <2>5, <2>6, <2>7 DEF Arrive
<1>3. ASSUME NEW r \in Request, Resume(r)
      PROVE  /\ games' \subseteq created'
             /\ created' \subseteq GameId
             /\ index' \in [Player -> SUBSET GameId]
             /\ cache' \in [GameId -> Node \cup {None}]
             /\ open' \in [GameId -> BOOLEAN]
             /\ members' \in [GameId -> SUBSET Player]
             /\ node' \in [GameId -> Node \cup {None}]
  <2>0. r.game \in GameId /\ r.player \in Player /\ r.node \in Node \cup {None}
    BY RequestFields DEF RequestType
  <2>1. CASE JoinStep2(r)
    BY <2>0, <2>1 DEF JoinStep2, actor_vars, TypeOK
  <2>2. CASE LeaveStep2(r)
    BY <2>0, <2>2 DEF LeaveStep2, RegistryRemove, actor_vars, TypeOK
  <2>3. CASE SelectStep2(r)
    BY <2>0, <2>3 DEF SelectStep2, actor_vars, TypeOK
  <2>4. CASE CancelStep2(r)
    BY <2>0, <2>4 DEF CancelStep2, RegistryRemove, actor_vars, TypeOK
  <2>5. CASE StartBotStep2(r)
    BY <2>5 DEF StartBotStep2, registry_vars, actor_vars, TypeOK
  <2>. QED
    BY <1>3, <2>1, <2>2, <2>3, <2>4, <2>5 DEF Resume
<1>4. ASSUME NEW r \in Request, Abandon(r)
      PROVE  /\ games' \subseteq created'
             /\ created' \subseteq GameId
             /\ index' \in [Player -> SUBSET GameId]
             /\ cache' \in [GameId -> Node \cup {None}]
             /\ open' \in [GameId -> BOOLEAN]
             /\ members' \in [GameId -> SUBSET Player]
             /\ node' \in [GameId -> Node \cup {None}]
  BY <1>4 DEF Abandon, registry_vars, actor_vars, TypeOK
<1>. QED
  BY <1>1, <1>2, <1>3, <1>4 DEF Next

LEMMA NextTypeOK == TypeOK /\ [Next]_vars => TypeOK'
<1> SUFFICES ASSUME TypeOK, [Next]_vars PROVE TypeOK'
  OBVIOUS
<1>1. CASE UNCHANGED vars
  BY <1>1 DEF vars, registry_vars, actor_vars, req_vars, TypeOK
<1>2. ASSUME NEW r \in Request, Arrive(r) \/ Resume(r) \/ Abandon(r)
      PROVE  TypeOK'
  BY <1>2, NextStateTypes, OthersUnchanged DEF TypeOK
<1>. QED
  BY <1>1, <1>2 DEF Next

\* A step that opens, registers and creates nothing, after which r is not
\* about to send Remove, keeps the invariant.
LEMMA Frame ==
  ASSUME IInv, NEW r \in Request, Arrive(r) \/ Resume(r) \/ Abandon(r),
         open' = open, games' = games, created' = created,
         ~(pc'[r] = "step2" /\ Stopping(r)')
  PROVE  OpenGameRegistered' /\ StopPending'
<1>0. \A q \in Request \ {r} : pc'[q] = pc[q] /\ ended'[q] = ended[q]
  BY OthersUnchanged DEF IInv
<1>1. OpenGameRegistered'
  BY DEF OpenGameRegistered, IInv
<1>2. StopPending'
  <2> SUFFICES ASSUME NEW q \in Request, pc'[q] = "step2", Stopping(q)'
               PROVE  ~open'[q.game] /\ q.game \in created'
    BY DEF StopPending
  <2>1. q # r
    OBVIOUS
  <2>2. pc[q] = "step2" /\ Stopping(q)
    BY <1>0, <2>1 DEF Stopping
  <2>. QED
    BY <2>2 DEF IInv, StopPending
<1>. QED
  BY <1>1, <1>2

\* A step that only closes games, after which r is about to send Remove
\* only for a closed game, keeps the invariant.
LEMMA CloseStep ==
  ASSUME IInv, NEW r \in Request, Arrive(r),
         games' = games, created' = created,
         open' \in [GameId -> BOOLEAN],
         \A g \in GameId : open'[g] => open[g],
         pc'[r] = "step2" /\ Stopping(r)' => ~open'[r.game] /\ r.game \in created
  PROVE  OpenGameRegistered' /\ StopPending'
<1>0. \A q \in Request \ {r} : pc'[q] = pc[q] /\ ended'[q] = ended[q]
  BY OthersUnchanged DEF IInv
<1>1. OpenGameRegistered'
  BY DEF OpenGameRegistered, IInv
<1>2. StopPending'
  <2> SUFFICES ASSUME NEW q \in Request, pc'[q] = "step2", Stopping(q)'
               PROVE  ~open'[q.game] /\ q.game \in created'
    BY DEF StopPending
  <2>1. CASE q = r
    BY <2>1
  <2>2. CASE q # r
    <3>1. pc[q] = "step2" /\ Stopping(q)
      BY <1>0, <2>2 DEF Stopping
    <3>. QED
      BY <3>1, RequestFields DEF IInv, StopPending
  <2>. QED
    BY <2>1, <2>2
<1>. QED
  BY <1>1, <1>2

\* The second message of a call about to send Remove keeps the invariant.
LEMMA RemoveStep ==
  ASSUME IInv, NEW r \in Request, Resume(r),
         pc[r] = "step2", Stopping(r), RegistryRemove(r.game),
         open' = open, pc'[r] = "done"
  PROVE  OpenGameRegistered' /\ StopPending'
<1>0. \A q \in Request \ {r} : pc'[q] = pc[q] /\ ended'[q] = ended[q]
  BY OthersUnchanged DEF IInv
<1>1. ~open[r.game]
  BY DEF IInv, StopPending
<1>2. OpenGameRegistered'
  BY <1>1 DEF OpenGameRegistered, IInv, RegistryRemove
<1>3. StopPending'
  <2> SUFFICES ASSUME NEW q \in Request, pc'[q] = "step2", Stopping(q)'
               PROVE  ~open'[q.game] /\ q.game \in created'
    BY DEF StopPending
  <2>1. pc[q] = "step2" /\ Stopping(q)
    BY <1>0 DEF Stopping
  <2>. QED
    BY <2>1 DEF IInv, StopPending, RegistryRemove
<1>. QED
  BY <1>2, <1>3

LEMMA NextIInv == IInv /\ [Next]_vars => IInv'
<1> SUFFICES ASSUME IInv, [Next]_vars PROVE IInv'
  OBVIOUS
<1>t. TypeOK'
  BY NextTypeOK DEF IInv
<1>1. CASE UNCHANGED vars
  BY <1>1, <1>t DEF vars, registry_vars, actor_vars, req_vars, IInv,
                    OpenGameRegistered, StopPending, Stopping
<1>2. ASSUME NEW r \in Request, Arrive(r) PROVE IInv'
  <2> DEFINE g == r.game  p == r.player
  <2>0. g \in GameId /\ p \in Player /\ pc[r] = "idle"
    BY <1>2, RequestFields DEF Arrive
  <2>1. CASE Refused(r)
    <3>1. pc'[r] = "done"
      BY <2>1 DEF Refused, Return, IInv, TypeOK
    <3>. QED
      BY <1>2, <1>t, <2>1, <3>1, Frame DEF Refused, registry_vars,
         actor_vars, IInv
  <2>2. CASE CreateGame(r) /\ ~Refused(r)
    <3>1. g \notin created /\ RegistryCreate(g, p) /\ Return(r, TRUE)
      BY <2>2, Zenon DEF CreateGame
    <3>2. pc'[r] = "done"
      BY <3>1 DEF Return, IInv, TypeOK
    <3>3. \A q \in Request \ {r} : pc'[q] = pc[q] /\ ended'[q] = ended[q]
      BY <1>2, OthersUnchanged DEF IInv
    <3>4. OpenGameRegistered'
      BY <3>1, <2>0 DEF RegistryCreate, OpenGameRegistered, IInv, TypeOK
    <3>5. StopPending'
      <4> SUFFICES ASSUME NEW q \in Request, pc'[q] = "step2", Stopping(q)'
                   PROVE  ~open'[q.game] /\ q.game \in created'
        BY DEF StopPending
      <4>1. q # r /\ pc[q] = "step2" /\ Stopping(q)
        BY <3>2, <3>3 DEF Stopping
      <4>2. ~open[q.game] /\ q.game \in created
        BY <4>1 DEF IInv, StopPending
      <4>. QED
        BY <4>2, <3>1, RequestFields DEF RegistryCreate, IInv, TypeOK
    <3>. QED
      BY <1>t, <3>4, <3>5 DEF IInv
  <2>3. CASE JoinStep1(r) /\ ~Refused(r)
    <3>0. Continue(r) /\ ended' = ended /\ UNCHANGED <<registry_vars, open>>
      BY <2>3, Zenon DEF JoinStep1
    <3>1. pc'[r] = "step2" /\ ended' = ended /\ UNCHANGED <<registry_vars, open>>
      BY <3>0 DEF Continue, IInv, TypeOK
    <3>2. r.op \in {"join", "join_token"}
      BY <2>3 DEF JoinStep1
    <3>. QED
      BY <1>2, <1>t, <3>1, <3>2, Frame DEF Stopping, registry_vars, IInv
  <2>4. CASE LeaveStep1(r) /\ ~Refused(r)
    <3>1. PICK e \in BOOLEAN :
            /\ Routed(g)
            /\ ended' = [ended EXCEPT ![r] = e]
            /\ open' = [open EXCEPT ![g] = @ /\ ~e]
            /\ Continue(r)
            /\ UNCHANGED registry_vars
      BY <2>4, Zenon DEF LeaveStep1
    <3>2. r.op = "leave"
      BY <2>4 DEF LeaveStep1
    <3>3. pc'[r] = "step2" /\ Stopping(r)' => ~open'[g] /\ g \in created
      BY <3>1, <3>2, <2>0 DEF Stopping, Routed, IInv, TypeOK
    <3>. QED
      BY <1>2, <1>t, <3>1, <3>3, <2>0, CloseStep
      DEF registry_vars, IInv, TypeOK
  <2>5. CASE SelectStep1(r) /\ ~Refused(r)
    <3>1. UNCHANGED <<registry_vars, open, ended>>
      BY <2>5, Zenon DEF SelectStep1
    <3>2. r.op = "select"
      BY <2>5 DEF SelectStep1
    <3>. QED
      BY <1>2, <1>t, <3>1, <3>2, Frame DEF Stopping, registry_vars, IInv
  <2>6. CASE CancelStep1(r) /\ ~Refused(r)
    <3>1. /\ Routed(g)
          /\ open' = [open EXCEPT ![g] = FALSE]
          /\ UNCHANGED registry_vars
      BY <2>6, Zenon DEF CancelStep1
    <3>2. ~open'[g] /\ g \in created
      BY <3>1, <2>0 DEF Routed, IInv, TypeOK
    <3>. QED
      BY <1>2, <1>t, <3>1, <3>2, <2>0, CloseStep
      DEF registry_vars, IInv, TypeOK
  <2>7. CASE StartBotStep1(r)
    <3>1. UNCHANGED <<registry_vars, actor_vars, ended>> /\ r.op = "start_bot"
      BY <2>7 DEF StartBotStep1
    <3>. QED
      BY <1>2, <1>t, <3>1, Frame DEF Stopping, registry_vars, actor_vars,
         IInv
  <2>. QED
    BY <1>2, <2>1, <2>2, <2>3, <2>4, <2>5, <2>6, <2>7 DEF Arrive
<1>3. ASSUME NEW r \in Request, Resume(r) PROVE IInv'
  <2>0. pc[r] = "step2" /\ pc'[r] = "done" /\ UNCHANGED <<open, created>>
    BY <1>3 DEF Resume, JoinStep2, LeaveStep2, SelectStep2, CancelStep2,
               StartBotStep2, Return, RegistryRemove, actor_vars,
               registry_vars, IInv, TypeOK
  <2>1. CASE LeaveStep2(r) /\ ended[r]
    BY <1>3, <1>t, <2>0, <2>1, RemoveStep DEF LeaveStep2, Stopping, IInv
  <2>2. CASE CancelStep2(r)
    BY <1>3, <1>t, <2>0, <2>2, RemoveStep DEF CancelStep2, Stopping, IInv
  <2>3. CASE ~(LeaveStep2(r) /\ ended[r]) /\ ~CancelStep2(r)
    <3>1. games' = games
      BY <1>3, <2>3 DEF Resume, JoinStep2, LeaveStep2, SelectStep2,
                        StartBotStep2, registry_vars
    <3>. QED
      BY <1>3, <1>t, <2>0, <3>1, Frame DEF IInv
  <2>. QED
    BY <2>1, <2>2, <2>3
<1>4. ASSUME NEW r \in Request, Abandon(r) PROVE IInv'
  BY <1>4, <1>t, Frame DEF Abandon, Return, registry_vars, actor_vars,
     IInv, TypeOK
<1>. QED
  BY <1>1, <1>2, <1>3, <1>4 DEF Next

\* The registry never unregisters a game whose actor has not ended (the
\* invariant OpenGameRegistered of the run controller_games): leave_game
\* sends Remove only after PlayerLeave answered game_ended and cancel_game
\* only after CancelGame succeeded, for every set of players, games and
\* concurrent calls, whatever the actors answer and whichever calls are
\* abandoned between their two messages.
THEOREM RemoveSafety == Spec => []OpenGameRegistered
<1>1. IInv => OpenGameRegistered
  BY DEF IInv
<1>. QED
  BY <1>1, InitIInv, NextIInv, PTL DEF Spec
====
