# TLA+ models of W3C-Flo

This directory holds TLA+ specifications of the concurrent parts of Flo, the
TLC configurations that model-check them, and TLAPS proofs about the lobby
handler, its refinement of an abstract lobby, the LAN game, the controller's
game handlers and the map hash conversion. It sits beside the Rust sources under `src/`.

## The system and its parts

Flo lets Warcraft III players join games hosted by a controller and played
through relay nodes. The sources in this repository cover five files. The
spec (`spec.md`, §4) names more parts than `src/` contains.

| Part | Source | Role | Model |
|---|---|---|---|
| E. Lobby handler | `crates/client/src/lan/game/lobby.rs` | Drives the local game client through the lobby. It answers ReqJoin, counts the join packets, reports Joined to the node, and runs the start countdown when the node says Loading/Running. | `LobbyHandler`, `JoinReply`, abstract `LobbyAbstract`; proofs in `LobbyHandlerProofs`, `LobbyRefinementProofs`, `LobbyCountdownProofs` |
| G. Control-plane stream | `binaries/flo/src/net/lobby.rs` | Connects to the controller. Its worker task multiplexes outbound frames from a bounded channel with inbound frames, echoes pings, and dispatches packets to the user sink and the node registry. | `LobbyStream`; proofs in `LobbyStreamProofs` |
| LAN game | `crates/client/src/lan/game/mod.rs` | Creates the proxy and the mDNS publisher, and fans node status out to the proxy. | `LanGame`; proofs in `LanGameProofs` |
| Controller gRPC | `crates/controller/src/grpc.rs` | The controller's RPC handlers. join, leave, select-node and cancel each send two messages: one to the game's actor, one to the games registry. | `ControllerGames` (the game handlers); proofs in `ControllerGamesProofs` |
| Map types | `crates/controller/src/map/mod.rs` | `MapSha1` byte conversion. | `MapSha1`; proofs in `MapSha1Proofs` |
| Framed transport, LAN proxy, node stream and registry, slot planner | not in `src/` | These appear only as the environment of the modelled parts. | environment only |

How they interact:
- The LAN proxy (not in `src/`) owns a watch channel of the node's game status. It runs one `LobbyHandler` per game-client connection.
- The handler reads that watch, reports `Joined` through the node stream, and signals `LanGameJoined` to the user sink.
- The `LanGame` owns that proxy. Its `update_game_status` first tells the mDNS publisher task to stop advertising (past Loading), then dispatches the status to the proxy, whose lobby handler may then start the game.
- On the controller side, each gRPC call is its own task. A game handler talks to the game's actor and then to the registry, so calls of different clients interleave between the two messages.
- Independently, the user's `LobbyStream` carries controller traffic. Its `dispatch` updates the node registry's selected node and forwards messages to the same user sink.

## Modules

### `LobbyHandler.tla` (lobby.rs, lines 29-397)

**State.** Variables that mirror the code directly:
- `JoinPacketRecvState`: `num_profile`, `num_skins`, `num_unk5`, `status`.
- The handler's locals: `reported`, `starting`.

Modelling devices:
- `pc` is the await point: the `select!` loop, or one of the three awaits of `send_start` between CountDownStart and CountDownEnd.
- `elapsed` counts seconds only during the countdown, where timing decides behaviour.
- `sent` is the log of what the game client received. Start frames are kept as themselves; a run of any other frames collapses to one `"Lobby"` entry.
- `node_reports` and `lan_game_joined` record the Joined reports.

**Environment.** All of it is part of the state:
- The game client may send any frame or disconnect.
- The proxy side of the watch may send any status or drop its sender.
- The notifier may post its single permit.

**Actions.** One action per `select!` branch and per await:
- `RecvPacket`, `RecvFatal`, `RecvLeaveReq` and `RecvClosed` for the stream branch.
- `PingTick`.
- `StatusChanged` and `StatusClosed`.
- `Tick`, `FirstSleepDone`, `NotifyReceived`, `NotifyTimeout` and `SecondSleepDone` for `send_start`.

`RecvPacket` contains the whole handler path: `handle_packet`'s counter updates and reply, the readiness report (`AfterPacket`), and the call to `send_start` (`SendStart`). It also covers the write failures at each `?`. A write fails only after the client has gone (`WriteMayFail`). An IPv6 local address (line 207) and an unknown type id (line 359) end `run()` with an error (`RecvFatal`).

### `JoinReply.tla` (lobby.rs, lines 197-291)

`JoinReplyFrames(infos, me, ob)` is the batch `send_all` writes for ReqJoin, as a pure function of the slot layout. It is written as sequence concatenation exactly in the code's push order.

### `LobbyStream.tla` (net/lobby.rs, lines 27-232)

**State.**
- `phase` and `exit_reason` track `connect`, the loop, and how the worker ended.
- The bounded `mpsc` channel is the sequence `outq`, with `QueueCapacity`. Outbound frames are numbered 1, 2, ... in the order they were queued.
- `to_server` holds what the server received: frames and `Pong`.
- `sink` holds what the user sink received.
- `current_game`, `registry` and `selected` are the node registry's state. The registry (`net/node.rs`) is not in `src/`, so it is modelled from the spec and marked `spec_modelled`: `set_selected_node` fails for an id outside the registry, and `update_nodes` clears a selection that left it. Because that behaviour comes from the spec and not from code, no property is stated about the selection: it would check the spec against itself.

**Actions.**
- `Connect` covers all of `connect()`. Its outcomes are an IO error, rejection, or acceptance followed by PlayerSession to the sink, which may itself fail.
- `SendOutbound` and `SendersGone` are the `frame_r.next()` branch.
- `RecvPing`, `RecvFrame` (through `Dispatch`, one disjunct per packet arm, with its error arm) and `RecvError` are the `recv_frame()` branch.
- Environment: `Enqueue` (a producer's `send().await`, once the worker loop runs), `DropSenders`, `ServerClose` and `SinkClose`.

### `LobbyAbstract.tla` and the refinement mapping

`LobbyAbstract` is what the lobby handler promises, with no frames or timers:
- `phase` is waiting, countdown, started or failed;
- `joined` is whether readiness was reported;
- `go` is whether the node says Loading or Running.

Its actions are `Join` (report once), `Status` (the node changes its mind), `Begin` (from waiting; after it `joined` and `go` hold, because the step that begins the countdown saw readiness reported and the node at Loading/Running; the countdown may also fail at once), `Finish` (countdown to started or failed) and `Fail` (the lobby ends with an error). Weak fairness on `Finish` says a begun countdown ends.

At the end of `LobbyHandler.tla`, `Lobby == INSTANCE LobbyAbstract WITH ...` maps the handler onto it:
- `phase <- LobbyPhase`: `pc = "run"` is waiting, a countdown await is countdown, `done` is started when `result = "Start"` and failed otherwise;
- `joined <- reported`;
- `go <- status \in {"Loading", "Running"}`.

`ImplementsLobby == Lobby!Spec` is checked by the run `lobby_handler`, beside its invariants.

### `LanGame.tla` (mod.rs, lines 29-148)

**State.**
- `phase`: creating, live, failed, shutting, dropped.
- `proxy_up` and `scope_alive`: the `LanProxy` and the `SpawnScope` the struct owns.
- `pub`: the publisher task (none, spawned, waiting in `select!`, draining during the one-second delay, exited).
- `permit`: the stored permit of `mdns_shutdown_notify`. `Notify::notify` with no waiter stores one, which the next `notified()` takes at once.
- `pending` and `proxy_status`: a status `update_game_status` has yet to dispatch, and the last one the proxy got.
- `nupdates`: calls made, bounded by `MaxUpdates`.

**Actions.**
- `Create` is all of `create`. It may fail before the proxy starts, or after it (the `MdnsPublisher::start` `?`, which drops proxy and scope), or succeed with the task spawned.
- `PublisherStart`, `PublisherWake` (either `select!` arm) and `PublisherExit` are the publisher task.
- `UpdateGameStatus(s)` runs up to its await: it notifies when `s` is not Created/Waiting/Loading. `DispatchStatus` is the await.
- `UpdatePlayerStatus`.

`proxy_up` is kept so that every `Create` path and `Shutdown` have their effect on the proxy. No property is stated about it: a failed `Create` drops the started proxy through Rust's ownership, so there is nothing there that the code could get wrong and a property could catch.
- `Shutdown` then `ShutdownDone` (the proxy stops, then `self` and the scope drop).
- `Drop` is a drop without `shutdown`.

### `ControllerGames.tla` (grpc.rs, lines 27-549)

**State.**
- The registry: `games` (registered game actors), `index` (player to games), `cache` (game to node), and `created` (the ids the database has handed out).
- Each game actor: `open` (not ended), `members` and `node`.
- Each call `r` of the constant set `Request`: `pc` (idle, between its two messages, done), `ended` (the `game_ended` PlayerLeave answered) and `reply`.

**Environment.** The actors and the registry live in `crates/controller/src/game/`, which is not under `src/`, and spec.md says of them only that they are actor-style mailboxes (one task, one inbound channel, request/response). So the model does not guess their handlers. An actor may accept or refuse any message (`Refused(r)`: the `?` returns the error), and PlayerLeave may answer `game_ended` either way. The registry is modelled only by what the messages grpc.rs sends must mean for the code's own comments to make sense: `send_to` reaches a registered game (`Routed`), an accepted `CreateGame` registers a fresh game with its creator (`RegistryCreate`), and a delivered `Remove` forgets the game and its index entries (`RegistryRemove`).

**Actions.** `Arrive(r)` is a call's first message and `Resume(r)` its second:
- create (one registry message);
- join and join_by_token (PlayerJoin, then AddGamePlayer);
- leave (PlayerLeave, then Remove if the game ended or RemoveGamePlayer);
- select (SelectNode, then the UpdateGameNodeCache notify);
- cancel (CancelGame, then Remove);
- start_game_as_bot (send, then await the reply).

Each first step's error path returns `Err` with no second message. `Abandon(r)` is a call that never sends its second message. hyper drops a handler's future when the client resets the call, and a failed registry send (lines 220, 276, 310, 320, 353, 380) returns early. The constant `Abandonable` switches this on. The race runs switch it off, so they show the interleaving alone.

### `MapSha1.tla` (map/mod.rs, lines 29-50)

`to_vec`, `pack` and `unpack` as functions over byte sequences. `unpack` copies the first `Width` bytes of a long vector and zero-fills a short one. The variable `value` is any vector of the set `Input`. `UnpackReference` (cut with `SubSeq`, then append zeros) is the independent definition it is checked and proved against.

## Runs

| Run | What it checks | Result |
|---|---|---|
| `lobby_handler` (`MCLobbyHandler.cfg`) | TypeOK; StartedOnlyWhenReady; JoinedReportedOnce; CountdownFraming; CountdownWindow (action property); ImplementsLobby (the handler implements `LobbyAbstract`, fairness included) | pass, about 1.7 M distinct states |
| `lobby_countdown_liveness` (`MCLobbyHandlerLive.cfg`) | CountdownTerminates (liveness) | pass, about 158 k distinct states |
| `lobby_join_counts` (`MCLobbyHandlerCounts.cfg`) | JoinCountsBounded, the spec's invariant `num_skins <= 1`, ... | violated: two PlayerSkins frames |
| `join_reply` (`MCJoinReply.cfg`) | JoinReplyMatchesSpec over every layout of up to 5 slots | pass |
| `lobby_stream` (`MCLobbyStream.cfg`) | TypeOK (channel within capacity); QueuedFrameHandled (liveness) | pass, about 306 k distinct states |
| `lobby_stream_disconnect` (`MCLobbyStreamDisconnect.cfg`) | DisconnectOnErrorExit, the spec's "send error emits Disconnect" | violated: a failed Pong write exits silently |
| `lan_game` (`MCLanGame.cfg`) | StopRequestedBeforeDispatch; AdvertWithdrawn (liveness) | pass, 572 distinct states |
| `map_sha1` (`MCMapSha1.cfg`) | UnpackMatchesReference; RoundTrip, over every vector of 0 to 5 bytes | pass, 364 distinct states |
| `controller_games` (`MCControllerGames.cfg`) | OpenGameRegistered: an open game is never unregistered | pass, about 899 k distinct states |
| `controller_join_race` (`MCControllerGamesIndex.cfg`) | IndexMatchesMembers | violated: join's AddGamePlayer after a leave |
| `controller_select_race` (`MCControllerGamesCache.cfg`) | NodeCacheMatchesGame | violated: two selects cross |
| `controller_ended_game` (`MCControllerGamesEnded.cfg`) | EndedGameRemoved (liveness) | violated: a cancel abandoned before its Remove |

Every property of a passing run has a seeded fault (an operator named `<Def>_<fault>` just before the definition it replaces) that TLC must catch. Examples are a dropped `reported` guard, a permit-less notify and a lost `?` after `CancelGame`. The list is in `PROJECT.json`.

### Bounds

**LobbyHandler.** One other player plus the stream observer (`total_players = 2`), so readiness needs four frames; `MaxPackets = 5` allows one frame more. There is one ping and two status sends.
- Only "is it Loading/Running" matters to the code, so statuses are reduced to `{Waiting, Loading}`.
- MapSize, PongToHost, Unknown2 and UnknownValue lead to the same states as LeaveReq, so LeaveReq stands in for them.
- Both paths into `send_start` are reached, as are every error return and all three countdown branches.
- The liveness run `lobby_countdown_liveness` uses a smaller lobby, because TLC checks temporal properties on one thread. It has one player and no observer (`total_players = 1`), so three frames make the client ready. `MaxPackets = 3`, with no ping and one status send. The countdown is still reached from a client frame and from a status change, with and without a notifier.

**LobbyStream.** Channel capacity 2 (the code uses 5) and 3 outbound frames, so the channel really fills and producers block. There are 3 inbound frames, two nodes and one game. Capacity 5 gives the same behaviours and takes minutes, not seconds.

**LanGame.** Five statuses (three advertised, Running, Ended) and `MaxUpdates = 3`. This is enough for an advertised update, an update past Loading, and a third call after it. Every order of the notify against the task's first poll, and of shutdown/drop against a pending dispatch, is reached.

**ControllerGames.** Three players, two games and two nodes, and one call of every handler, including a refused token and a join of a game never created. Any call may be refused, and any call may be abandoned between its messages. The race runs use only the calls the race needs: create, join, leave and cancel; or create and two selects. The ended-game run uses create, leave and cancel of one game.

**MapSha1.** `Width = 3` over the bytes `{0, 1, 2}`, for every vector of length 0 to 5. This covers shorter than, equal to and longer than the width. The proofs cover every width.

### Fairness

`tokio::select!` picks a ready branch at random, and timers fire. So the handler's own steps get weak fairness:
- `LobbyHandler`: the status branch, the read of a closed stream, and every countdown await.
- `LobbyStream`: the outbound branch, the end of the queue, and the failing read.

- `LanGame`: the publisher task's three steps, the awaited dispatch, and the drop after `proxy.shutdown()`. These are futures the runtime keeps polling.
- `ControllerGames`: `Resume(r)` for every call. A call that is not abandoned is a task the runtime keeps polling, so it sends its second message. `Abandon(r)` has no fairness, and nothing forces it not to happen: that is why `EndedGameRemoved` fails.
- `LobbyAbstract`: `Finish`, matching the handler's fair countdown.

The game client, the proxy, the notifier, the producers, the server and the user sink get no fairness: they may stay silent forever.

`CHECK_DEADLOCK FALSE` is used because every modelled activity really ends: `run()` returns, the worker breaks, the LAN game is dropped, and every gRPC call returns.

## Findings

1. **Join counters are unbounded.** `handle_packet` increments `num_profile`, `num_skins` and `num_unk5` on every matching frame (lobby.rs:318, 329, 340). spec.md states `num_skins <= 1` (and the others) "at all times". A duplicate frame violates this, and since `is_ready` tests equality, the lobby then never becomes ready.
2. **Send errors exit without a Disconnect.** A write error in the control-plane worker (net/lobby.rs:75-77 and 94-96) breaks the loop with only a debug log. spec.md §4.G and the error policy say a best-effort `Disconnect` is sent to the user sink on send errors, as the recv and dispatch arms do.
3. **Join/leave leaves a stale registry index.** `join_game` sends `PlayerJoin` to the game actor, awaits, and only then sends `AddGamePlayer` to the registry (grpc.rs:201-220). A concurrent `leave_game` or `cancel_game` can complete in between. The registry then indexes the player under a game that no longer has them, or under a removed game, with no call in flight (`controller_join_race`).
4. **Crossed node selections desynchronise the node cache.** `select_game_node` applies `SelectNode` in the actor and then notifies `UpdateGameNodeCache` (grpc.rs:335-351). Two selections can cross between the two messages. The actor keeps the node of the SelectNode it applied last, while the registry caches the node of the call that notified last (`controller_select_race`).
5. **A closed game can stay registered.** `cancel_game` logs "shutting down" once the actor has accepted `CancelGame`, and only then sends `Remove` in a second await (grpc.rs:374-380). `leave_game` does the same when PlayerLeave answers `game_ended` (298-310). If the client resets the call, or the registry send fails, `Remove` is never sent and nothing retries it. The closed game then stays registered for good (`controller_ended_game`).

## Proofs

Every theorem is checked by `tlapm` to the last leaf, for every value of the constants satisfying the module's named `ASSUME`.

**`LobbyHandlerProofs`** (under `ConstAssumption`: `NumPlayerInfos >= 1`, the bounds natural).
- `IInvInvariant`: `Spec => []IInv`.
- `TypeCorrect` (TypeOK), `StartSafety` (StartedOnlyWhenReady), `ReportSafety` (JoinedReportedOnce) and `RunNotStarting` (the `if self.starting` early return of `send_start` is dead code), each derived from `IInv`.

`IInv = TypeOK /\ HandlerConsistent`. The properties are not inductive alone. For example, StartedOnlyWhenReady says nothing about the loop state, so a `StatusChanged` step could seem to start with unreported readiness. `HandlerConsistent` therefore adds:
- every counted frame was read;
- in the loop, `starting` is false, and ready counts imply `reported`;
- `node_reports` and `lan_game_joined` are exactly determined by `reported` and the presence of the node stream and the sink sender;
- a begun start saw ready counts and Loading/Running.

TLC checked `IInv` as an invariant before it was proved. The proof is `InitIInv`, then `NextTypeOK` and `NextConsistent` (one step per action, one per disturbed conjunct), then `NextIInv` and the PTL step.

**`LobbyRefinementProofs`.** `Refinement: Spec => Lobby!SafeSpec`, the safety part of ImplementsLobby. `InitRefines` maps the initial state. `NextRefines` shows that, under `IInv`, every handler step is an abstract step or a stutter of the mapped state, with one case per action. It needs `IInv` because a `StatusChanged` step that begins the countdown is an abstract `Begin` only if readiness was already reported: `HandlerConsistent` says ready counts in the loop imply `reported`. A `RecvPacket` that reports readiness without starting is a `Join`.

**`LobbyCountdownProofs`** (extends `LobbyHandlerProofs`). `CInvInvariant: Spec => []CInv`, with `CInv = IInv /\ CountdownConsistent`. From it:
- `FramingSafety` (CountdownFraming);
- `WindowSafety` (CountdownWindow), an action property.

`CountdownFraming` is not inductive alone: a ping in the loop could seem to follow a CountDownStart. `CountdownConsistent`, defined in `LobbyHandler.tla`, says the client stream's log has one of three shapes: lobby traffic only (`LobbyOnly`), that plus SlotInfo and CountDownStart (`StartWritten`), or that plus CountDownEnd (`EndWritten`). In the loop it is lobby traffic only, and during the countdown it is exactly `StartWritten`. It also says the notifier is awaited only when there is one, the second sleep only when there is none, and both only after 3 s. `CountdownWindow` needs that clock part: the step that writes CountDownEnd is one of the three awaits that end the countdown.

The lemmas show what each writing step does to the log: `LoggedLobby`, `ReplyLobby`, `StartLogged`, `EndLogged`, and the per-action `RecvPacketShape`, `PingTickShape`, `StatusChangedShape`, `EndCountdownShape`. TLC checked `CInv` on the `lobby_handler` constants before it was proved.

**`LanGameProofs`** (under `LanGameAssumption`). `LanGameTypeCorrect` (TypeOK) and `StopBeforeDispatch` (StopRequestedBeforeDispatch) follow from `LInv`. `LInv` adds two conjuncts:
- a pending status past Loading was already notified. This is needed because `DispatchStatus` hands the pending status on.
- before `Create`, nothing was spawned, pending or dispatched.

The permit is cleared only by `PublisherWake`, which moves the task past waiting.

**`ControllerGamesProofs`** (under `GamesAssumption`). `RemoveSafety: Spec => []OpenGameRegistered`, for any numbers of players, games, nodes and calls, with calls refused or abandoned. The invariant is not inductive alone. A cancel or an ending leave between its two messages is about to send `Remove`, and nothing in `OpenGameRegistered` says its game is already closed. `IInv = TypeOK /\ OpenGameRegistered /\ StopPending` adds that fact. `StopPending` says that a call at its second message whose second message is `Remove` has closed its game, and that game's id was created, so `RegistryCreate` cannot reopen it. The lemmas are:
- `NextStateTypes` and `NextTypeOK`: types, with one case per action;
- `OthersUnchanged` and `Frame`: a step of one call changes no other call's phase;
- `CloseStep` and `RemoveStep`: the steps that close and remove a game;
- `NextIInv`: with one case per action.

**`MapSha1Proofs`** (under `MapSha1Assumption`). `UnpackIsReference`: `unpack(v) = UnpackReference(v)` for every byte sequence and every width. From it follow `UnpackCorrect` (UnpackMatchesReference) and `RoundTripCorrect` (RoundTrip). The only invariant needed is `ValueOK`: the value is a byte sequence.

**`LobbyStreamProofs`** (under `StreamAssumption`: capacity and frame count natural, capacity at least 1). `SInvInvariant: Spec => []SInv`, and from it `StreamTypeCorrect` (TypeOK, including the channel bound), for every channel capacity and every number of frames. `SInv = TypeOK /\ Running /\ DroppedDrained` adds two conjuncts:
- `Running`: while connecting or in the loop, no exit reason is set, so a `dropped` reason is never set before the worker really ends.
- `DroppedDrained`: an exit with reason `dropped` happened in phase `exited` with an empty queue, which is the safety half of `QueuedFrameHandled`.

TLC checked `SInv` as an invariant before it was proved. `NextSInv` has one case per action.

Left to TLC only:
- the liveness properties (`CountdownTerminates`, `QueuedFrameHandled`, `AdvertWithdrawn`) and the fairness part of `ImplementsLobby`, because TLAPS does not reason about fairness and ENABLED;
- `JoinReplyMatchesSpec`, checked over every layout of up to 5 slots. Proving it for every layout counts the frames that `SelectSeq` and concatenation produce, which is induction over sequences and beyond the provers;
- the hazard of `recv_frame` being cancelled by `select!` (net/lobby.rs:85), which has no property: `FloStream` is not under `src/`, so the model takes each read as atomic.

## Plan

Further work, if taken up:
- compose `LanGame` with `LobbyHandler` through the status watch, so `StopRequestedBeforeDispatch` meets `StartedOnlyWhenReady`;
- model the game actors and the registry, once their source (`crates/controller/src/game/`) is in the repository, and replace the nondeterministic environment of `ControllerGames` by them.

## Not modelled

- Byte-level encodings, logging and message wording are left out.
- The framed transport, proxy, node stream, registry implementation and slot planner are not under `src/`. They enter only as the environment or as spec-modelled helpers.
- The controller's other gRPC handlers (players, nodes, maps, ping maps, bans, reload, join tokens, `create_game_as_bot`) each make one database or actor call with no state of their own. They are pure I/O and add no interleaving beyond what `CreateGame` shows. `serve` only builds the server.
- The `Map`, `MapPlayer` and `MapForce` structs of map/mod.rs are derived serialisation with no behaviour.
- `LanGame::game_id` and `is_same_game` only read state.
- Cancel-safety of `FloStream::recv_frame` inside `select!` is assumed: each read is atomic.
