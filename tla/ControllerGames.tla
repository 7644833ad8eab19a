--------------------------- MODULE ControllerGames ---------------------------
(***************************************************************************)
(* The game handlers of the controller's gRPC service                      *)
(* (crates/controller/src/grpc.rs): create_game, join_game,                *)
(* join_game_by_token, leave_game, select_game_node, cancel_game (and      *)
(* cancel_game_as_bot, which calls it) and start_game_as_bot.              *)
(*                                                                         *)
(* tonic runs every call as its own task.  A handler that sends two        *)
(* messages (one to the game's actor, then one to the games registry)      *)
(* awaits in between, so the calls of several clients interleave there.   *)
(* Each request r of the constant set Request is one call: it arrives at   *)
(* most once, takes its first step, and, if that succeeded, its second.    *)
(*                                                                         *)
(* The game actors and the registry (crates/controller/src/game/, not in   *)
(* this repository) are an environment here: an actor handles one message  *)
(* at a time and may accept or refuse it (PlayerLeave reporting either     *)
(* game_ended), and the registry routes send_to only to the actor of a     *)
(* live game.  What CreateGame and Remove do to the registry is what their *)
(* names say: register (and index the creator), forget (and unindex).      *)
(*                                                                         *)
(* A call may also be abandoned between its two messages: hyper drops the  *)
(* handler's future when the client resets the call, and the registry     *)
(* send of the second message may fail (its error is then returned).       *)
(***************************************************************************)
EXTENDS Naturals

CONSTANTS
  Player,      \* player ids
  GameId,      \* game ids
  Node,        \* node ids
  Request,     \* the calls, records [op, game, player, node, token_ok]
  Abandonable  \* whether a call may stop between its two messages

None == "None"

\* The handlers modelled, by the kind of their request.
Op == {"create", "join", "join_token", "leave", "select", "cancel", "start_bot"}

RequestType ==
  [op : Op, game : GameId, player : Player, node : Node \cup {None},
   token_ok : BOOLEAN]

ASSUME GamesAssumption ==
  /\ None \notin Player \cup Node
  /\ Request \subseteq RequestType
  /\ Abandonable \in BOOLEAN

\* pc of a call: not yet made, between its two messages, returned.
ReqPhase == {"idle", "step2", "done"}

VARIABLES
  \* the registry: live game actors, the player index, the node cache
  games, index, cache,
  \* the game ids the database has assigned
  created,
  \* the state of each game actor: not ended, players, selected node
  open, members, node,
  \* the calls
  pc, ended, reply

registry_vars == <<games, index, cache, created>>
actor_vars == <<open, members, node>>
req_vars == <<pc, ended, reply>>
vars == <<registry_vars, actor_vars, req_vars>>

-----------------------------------------------------------------------------
(* The registry messages grpc.rs sends, as the environment answers them.  *)

\* send_to(g, msg) (lines 200-210) reaches the actor of a live game;
\* otherwise it fails and the handler returns the error.
Routed(g) == g \in games

\* send(CreateGame) (lines 181-188) answered Ok: the registry now holds an
\* actor for the new game, whose creator is its only player, and indexes
\* the creator.
RegistryCreate(g, p) ==
  /\ games' = games \cup {g}
  /\ created' = created \cup {g}
  /\ index' = [index EXCEPT ![p] = @ \cup {g}]
  /\ cache' = [cache EXCEPT ![g] = None]
  /\ open' = [open EXCEPT ![g] = TRUE]
  /\ members' = [members EXCEPT ![g] = {p}]
  /\ node' = [node EXCEPT ![g] = None]

\* send(Remove) (lines 303-310, 375-380) delivered: the game is no longer
\* registered, and no player is indexed under it.
RegistryRemove(g) ==
  /\ games' = games \ {g}
  /\ index' = [q \in Player |-> index[q] \ {g}]
  /\ UNCHANGED created

-----------------------------------------------------------------------------
(* The handlers.                                                           *)

\* The call r returns Ok or Err.
Return(r, ok) ==
  /\ pc' = [pc EXCEPT ![r] = "done"]
  /\ reply' = [reply EXCEPT ![r] = IF ok THEN "Ok" ELSE "Err"]

\* The first message was accepted; the handler awaits the second.
Continue(r) == pc' = [pc EXCEPT ![r] = "step2"] /\ UNCHANGED reply

\* The first message failed and the handler returns its error with ?.
Refused(r) == Return(r, FALSE) /\ UNCHANGED <<registry_vars, actor_vars>>

\* create_game (lines 177-193): one message to the registry; the game id
\* is the one the database assigns, fresh.  CreateGame may fail.
CreateGame(r) ==
  LET g == r.game  p == r.player IN
  /\ r.op = "create"
  /\ \/ /\ g \notin created
        /\ RegistryCreate(g, p)
        /\ Return(r, TRUE)
     \/ Refused(r)
  /\ UNCHANGED ended

\* join_game and join_game_by_token, first half (lines 195-210, 250-265):
\* the token is validated first (line 254), then PlayerJoin is sent to
\* the game's actor, which adds the player or refuses; a missing game or
\* a refusal is returned as an error.
JoinStep1(r) ==
  LET g == r.game  p == r.player IN
  /\ r.op \in {"join", "join_token"}
  /\ \/ /\ r.op = "join" \/ r.token_ok
        /\ Routed(g)
        /\ members' = [members EXCEPT ![g] = @ \cup {p}]
        /\ Continue(r)
        /\ UNCHANGED <<registry_vars, open, node>>
     \/ Refused(r)
  /\ UNCHANGED ended

\* Their second half (lines 212-224, 267-280): AddGamePlayer indexes the
\* player under the game, whatever happened to the game meanwhile.
JoinStep2(r) ==
  /\ r.op \in {"join", "join_token"}
  /\ index' = [index EXCEPT ![r.player] = @ \cup {r.game}]
  /\ Return(r, TRUE)
  /\ UNCHANGED <<games, cache, created, actor_vars, ended>>

\* leave_game, first half (lines 283-296): PlayerLeave; the actor drops
\* the player and answers whether the game ended with it.
LeaveStep1(r) ==
  LET g == r.game  p == r.player IN
  /\ r.op = "leave"
  /\ \/ \E e \in BOOLEAN :
          /\ Routed(g)
          /\ members' = [members EXCEPT ![g] = @ \ {p}]
          /\ ended' = [ended EXCEPT ![r] = e]
          /\ open' = [open EXCEPT ![g] = @ /\ ~e]
          /\ Continue(r)
          /\ UNCHANGED <<registry_vars, node>>
     \/ Refused(r) /\ UNCHANGED ended

\* Its second half (lines 298-323): Remove the ended game, or
\* RemoveGamePlayer drops the player from the index.
LeaveStep2(r) ==
  /\ r.op = "leave"
  /\ IF ended[r]
     THEN RegistryRemove(r.game)
     ELSE /\ index' = [index EXCEPT ![r.player] = @ \ {r.game}]
          /\ UNCHANGED <<games, created>>
  /\ Return(r, TRUE)
  /\ UNCHANGED <<cache, actor_vars, ended>>

\* select_game_node, first half (lines 326-343): SelectNode, which the
\* actor applies or refuses.
SelectStep1(r) ==
  LET g == r.game IN
  /\ r.op = "select"
  /\ \/ /\ Routed(g)
        /\ node' = [node EXCEPT ![g] = r.node]
        /\ Continue(r)
        /\ UNCHANGED <<registry_vars, open, members>>
     \/ Refused(r)
  /\ UNCHANGED ended

\* Its second half (lines 345-355): the registry is notified to cache the
\* node; a game removed meanwhile has no cache entry to update.
SelectStep2(r) ==
  LET g == r.game IN
  /\ r.op = "select"
  /\ cache' = IF g \in games THEN [cache EXCEPT ![g] = r.node] ELSE cache
  /\ Return(r, TRUE)
  /\ UNCHANGED <<games, index, created, actor_vars, ended>>

\* Seeded fault for mutation analysis: the ? after CancelGame is lost, so
\* a refused cancel goes on to Remove.
CancelStep1_ignore_error(r) ==
  LET g == r.game IN
  /\ r.op = "cancel"
  /\ \/ /\ Routed(g)
        /\ open' = [open EXCEPT ![g] = FALSE]
     \/ UNCHANGED open
  /\ Continue(r)
  /\ UNCHANGED <<registry_vars, members, node, ended>>

\* cancel_game, first half (lines 358-372, also reached from
\* cancel_game_as_bot, lines 536-549): CancelGame, which ends the game
\* or is refused.
CancelStep1(r) ==
  LET g == r.game IN
  /\ r.op = "cancel"
  /\ \/ /\ Routed(g)
        /\ open' = [open EXCEPT ![g] = FALSE]
        /\ Continue(r)
        /\ UNCHANGED <<registry_vars, members, node>>
     \/ Refused(r)
  /\ UNCHANGED ended

\* Its second half (lines 374-382): Remove.
CancelStep2(r) ==
  /\ r.op = "cancel"
  /\ RegistryRemove(r.game)
  /\ Return(r, TRUE)
  /\ UNCHANGED <<cache, actor_vars, ended>>

\* start_game_as_bot (lines 488-534): StartGameCheckAsBot carries a
\* oneshot sender to a live game's actor ...
StartBotStep1(r) ==
  /\ r.op = "start_bot"
  /\ IF Routed(r.game) THEN Continue(r) ELSE Return(r, FALSE)
  /\ UNCHANGED <<registry_vars, actor_vars, ended>>

\* ... and rx.await gets Started or Rejected (both an Ok reply), or fails
\* when the actor was stopped and dropped the sender ("System is shutting
\* down").
StartBotStep2(r) ==
  /\ r.op = "start_bot"
  /\ Return(r, r.game \in games)
  /\ UNCHANGED <<registry_vars, actor_vars, ended>>

\* A call between its two messages never sends the second: the client
\* reset it and the handler's future was dropped at its await, or the
\* registry send failed (lines 220, 276, 310, 320, 353, 380) and the
\* error was returned.
Abandon(r) ==
  /\ Abandonable
  /\ pc[r] = "step2"
  /\ Return(r, FALSE)
  /\ UNCHANGED <<registry_vars, actor_vars, ended>>

-----------------------------------------------------------------------------

Init ==
  /\ games = {}
  /\ index = [p \in Player |-> {}]
  /\ cache = [g \in GameId |-> None]
  /\ created = {}
  /\ open = [g \in GameId |-> FALSE]
  /\ members = [g \in GameId |-> {}]
  /\ node = [g \in GameId |-> None]
  /\ pc = [r \in Request |-> "idle"]
  /\ ended = [r \in Request |-> FALSE]
  /\ reply = [r \in Request |-> "None"]

\* A call arrives and takes its first step.
Arrive(r) ==
  /\ pc[r] = "idle"
  /\ \/ CreateGame(r)
     \/ JoinStep1(r)
     \/ LeaveStep1(r)
     \/ SelectStep1(r)
     \/ CancelStep1(r)
     \/ StartBotStep1(r)

\* A call's task resumes after its first message and sends the second.
Resume(r) ==
  /\ pc[r] = "step2"
  /\ \/ JoinStep2(r)
     \/ LeaveStep2(r)
     \/ SelectStep2(r)
     \/ CancelStep2(r)
     \/ StartBotStep2(r)

Next == \E r \in Request : Arrive(r) \/ Resume(r) \/ Abandon(r)

\* Clients call when they like.  A call that is not abandoned is a task
\* the runtime keeps polling, so it sends its second message; nothing
\* forces a call not to be abandoned.
Fairness == \A r \in Request : WF_vars(Resume(r))

Spec == Init /\ [][Next]_vars /\ Fairness

-----------------------------------------------------------------------------
(* Properties.                                                             *)

TypeOK ==
  /\ games \subseteq created
  /\ created \subseteq GameId
  /\ index \in [Player -> SUBSET GameId]
  /\ cache \in [GameId -> Node \cup {None}]
  /\ open \in [GameId -> BOOLEAN]
  /\ members \in [GameId -> SUBSET Player]
  /\ node \in [GameId -> Node \cup {None}]
  /\ pc \in [Request -> ReqPhase]
  /\ ended \in [Request -> BOOLEAN]
  /\ reply \in [Request -> {"None", "Ok", "Err"}]

\* No call is between its two messages.
Quiescent == \A r \in Request : pc[r] # "step2"

\* The registry never removes a game whose actor has not ended: Remove is
\* sent by leave_game only when PlayerLeave answered game_ended, and by
\* cancel_game only after CancelGame succeeded, whatever other calls do in
\* between.  A refused cancel (by a player who is not the host) or a leave
\* that does not end the game must not unregister a running game.
OpenGameRegistered ==
  \A g \in GameId : open[g] => g \in games

\* A game that ended (its host left, or it was cancelled) is removed from
\* the registry: the call that ended it goes on to send Remove.
EndedGameRemoved ==
  \A g \in GameId : (g \in games /\ ~open[g]) ~> (g \notin games)

\* Whenever no call is in flight, the registry's player index agrees with
\* the game actors: a player is indexed under a live game exactly when
\* that game has the player.  join, leave and cancel each update the
\* actor and the index with two separate messages.
IndexMatchesMembers ==
  Quiescent =>
    \A p \in Player, g \in GameId :
      g \in index[p] <=> (g \in games /\ p \in members[g])

\* Whenever no call is in flight, the registry's node cache of a live
\* game holds the node its actor selected: select_game_node sends
\* SelectNode and then UpdateGameNodeCache as two separate messages.
NodeCacheMatchesGame ==
  Quiescent => \A g \in games : cache[g] = node[g]

=============================================================================
