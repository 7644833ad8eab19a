------------------------------ MODULE LanGame ------------------------------
(***************************************************************************)
(* One LanGame of the client (crates/client/src/lan/game/mod.rs): create,  *)
(* the mDNS publisher task it spawns, update_game_status,                  *)
(* update_player_status, shutdown, and a drop without shutdown.            *)
(*                                                                         *)
(* The publisher task waits in select! for the game's SpawnScope to be     *)
(* left (the LanGame dropped) or for mdns_shutdown_notify, then waits one  *)
(* second and drops the publisher, which withdraws the advertisement.      *)
(* Notify::notify wakes the waiting task or, when none waits yet, stores   *)
(* one permit for its next notified().  The proxy (lan/game/proxy.rs, not  *)
(* in this repository) is reduced to whether it runs and the last node     *)
(* status dispatched to it, which is what its lobby handler watches.       *)
(***************************************************************************)
EXTENDS Naturals

CONSTANTS
  Status,       \* NodeGameStatus
  MaxUpdates    \* bound: calls of update_game_status and update_player_status

ASSUME LanGameAssumption ==
  /\ {"Created", "Waiting", "Loading"} \subseteq Status
  /\ MaxUpdates \in Nat

None == "None"

\* The statuses that keep the game advertised (lines 123-128).
Advertised == {"Created", "Waiting", "Loading"}

VARIABLES
  phase,        \* "creating", "live", "failed", "shutting", "dropped"
  proxy_up,     \* the LanProxy runs
  pub,          \* the publisher task: "none", "spawned", "waiting",
                \* "draining", "exited"
  permit,       \* a stored permit of mdns_shutdown_notify
  scope_alive,  \* the SpawnScope is held by the LanGame
  pending,      \* a status update_game_status still has to dispatch
  proxy_status, \* the last status dispatched to the proxy
  nupdates      \* calls made, for the bound

vars == <<phase, proxy_up, pub, permit, scope_alive, pending, proxy_status,
          nupdates>>

-----------------------------------------------------------------------------

\* LanGame::create (lines 45-116).  GameInfo::new, the node token and the
\* slot info may fail before the proxy starts, and LanProxy::start may
\* fail (lines 60-83); MdnsPublisher::start may fail after the proxy has
\* started, which is then dropped with the scope (line 94).  Otherwise
\* the publisher task is spawned and the game is live.
Create ==
  /\ phase = "creating"
  /\ \/ /\ phase' = "failed"
        /\ UNCHANGED <<proxy_up, pub, scope_alive>>
     \/ /\ phase' = "failed"
        /\ proxy_up' = FALSE
        /\ scope_alive' = FALSE
        /\ UNCHANGED pub
     \/ /\ phase' = "live"
        /\ proxy_up' = TRUE
        /\ scope_alive' = TRUE
        /\ pub' = "spawned"
  /\ UNCHANGED <<permit, pending, proxy_status, nupdates>>

\* The spawned task is first polled and waits in select! (lines 97-100).
PublisherStart ==
  /\ pub = "spawned"
  /\ pub' = "waiting"
  /\ UNCHANGED <<phase, proxy_up, permit, scope_alive, pending,
                 proxy_status, nupdates>>

\* One arm of select! completes: the scope was left, or notified()
\* takes the permit (lines 97-100); the one-second delay begins.
PublisherWake ==
  /\ pub = "waiting"
  /\ \/ /\ ~scope_alive
        /\ UNCHANGED permit
     \/ /\ permit
        /\ permit' = FALSE
  /\ pub' = "draining"
  /\ UNCHANGED <<phase, proxy_up, scope_alive, pending, proxy_status,
                 nupdates>>

\* delay_for(1 s) ends and the publisher is dropped (lines 102-105).
PublisherExit ==
  /\ pub = "draining"
  /\ pub' = "exited"
  /\ UNCHANGED <<phase, proxy_up, permit, scope_alive, pending,
                 proxy_status, nupdates>>

\* Seeded fault for mutation analysis: notify_waiters semantics, which
\* wake a waiting task and store nothing.
Notify_no_permit ==
  permit' = (pub = "waiting")

\* mdns_shutdown_notify.notify() (line 130).
Notify == permit' = TRUE

\* Seeded fault for mutation analysis: the status is dispatched without
\* notifying the publisher.
UpdateGameStatus_no_notify(s) ==
  /\ phase = "live"
  /\ pending = None
  /\ nupdates < MaxUpdates
  /\ nupdates' = nupdates + 1
  /\ pending' = s
  /\ UNCHANGED <<phase, proxy_up, pub, permit, scope_alive, proxy_status>>

\* update_game_status(s), up to its await (lines 122-131): a status that
\* is not Created, Waiting or Loading notifies the publisher to stop.
UpdateGameStatus(s) ==
  /\ phase = "live"
  /\ pending = None
  /\ nupdates < MaxUpdates
  /\ nupdates' = nupdates + 1
  /\ IF s \notin Advertised THEN Notify ELSE UNCHANGED permit
  /\ pending' = s
  /\ UNCHANGED <<phase, proxy_up, pub, scope_alive, proxy_status>>

\* Its await: dispatch_game_status_change hands the status to the proxy
\* (line 132).
DispatchStatus ==
  /\ pending # None
  /\ proxy_status' = pending
  /\ pending' = None
  /\ UNCHANGED <<phase, proxy_up, pub, permit, scope_alive, nupdates>>

\* update_player_status hands a player event to the proxy
\* (lines 135-140); nothing of it is observed here.
UpdatePlayerStatus ==
  /\ phase = "live"
  /\ pending = None
  /\ nupdates < MaxUpdates
  /\ nupdates' = nupdates + 1
  /\ UNCHANGED <<phase, proxy_up, pub, permit, scope_alive, pending,
                 proxy_status>>

\* shutdown(self) awaits proxy.shutdown() (lines 146-148) ...
Shutdown ==
  /\ phase = "live"
  /\ pending = None
  /\ phase' = "shutting"
  /\ proxy_up' = FALSE
  /\ UNCHANGED <<pub, permit, scope_alive, pending, proxy_status, nupdates>>

\* ... and then drops self, and with it the scope.
ShutdownDone ==
  /\ phase = "shutting"
  /\ phase' = "dropped"
  /\ scope_alive' = FALSE
  /\ UNCHANGED <<proxy_up, pub, permit, pending, proxy_status, nupdates>>

\* The owner drops the LanGame without shutdown: the proxy and the scope
\* go with it.
Drop ==
  /\ phase = "live"
  /\ pending = None
  /\ phase' = "dropped"
  /\ proxy_up' = FALSE
  /\ scope_alive' = FALSE
  /\ UNCHANGED <<pub, permit, pending, proxy_status, nupdates>>

-----------------------------------------------------------------------------

Init ==
  /\ phase = "creating"
  /\ proxy_up = FALSE
  /\ pub = "none"
  /\ permit = FALSE
  /\ scope_alive = FALSE
  /\ pending = None
  /\ proxy_status = None
  /\ nupdates = 0

Next ==
  \/ Create
  \/ PublisherStart
  \/ PublisherWake
  \/ PublisherExit
  \/ \E s \in Status : UpdateGameStatus(s)
  \/ DispatchStatus
  \/ UpdatePlayerStatus
  \/ Shutdown
  \/ ShutdownDone
  \/ Drop

\* The publisher task and an update or shutdown in progress are polled
\* by the runtime until they finish; the owner's calls are not forced.
Fairness ==
  /\ WF_vars(PublisherStart)
  /\ WF_vars(PublisherWake)
  /\ WF_vars(PublisherExit)
  /\ WF_vars(DispatchStatus)
  /\ WF_vars(ShutdownDone)

Spec == Init /\ [][Next]_vars /\ Fairness

-----------------------------------------------------------------------------
(* Properties.                                                             *)

TypeOK ==
  /\ phase \in {"creating", "live", "failed", "shutting", "dropped"}
  /\ proxy_up \in BOOLEAN
  /\ pub \in {"none", "spawned", "waiting", "draining", "exited"}
  /\ permit \in BOOLEAN
  /\ scope_alive \in BOOLEAN
  /\ pending \in Status \cup {None}
  /\ proxy_status \in Status \cup {None}
  /\ nupdates \in 0..MaxUpdates

\* By the time the proxy (and through it the lobby handler) sees a status
\* past Loading, the publisher has been told to stop: a permit waits for
\* it, or it is already draining or gone.  update_game_status notifies
\* before it dispatches, whether or not the task has started waiting.
StopRequestedBeforeDispatch ==
  proxy_status \notin Advertised \cup {None} =>
    \/ permit
    \/ pub \in {"draining", "exited"}

\* The advertisement is withdrawn once the game is dropped or the node
\* reports a status past Loading, even when the notify came before the
\* publisher task first waited.
AdvertWithdrawn ==
  (phase = "dropped" \/ proxy_status \in Status \ Advertised)
    ~> pub \in {"none", "exited"}

=============================================================================
