---------------------------- MODULE LobbyAbstract ----------------------------
(***************************************************************************)
(* What one lobby handler (lan/game/lobby.rs) promises, with the frames,   *)
(* counters, timers and channels left out.  The handler waits in the       *)
(* lobby, learns the node's status (go: Loading or Running) and that the   *)
(* game client has joined (joined: the readiness was reported); it begins  *)
(* the start countdown only once both hold, and the countdown ends with    *)
(* the game started or the handler failed.  Nothing changes afterwards.   *)
(***************************************************************************)

VARIABLES
  phase,   \* "waiting", "countdown", "started", "failed"
  joined,  \* the client's readiness was reported to the node
  go       \* the last node status seen allows the start

avars == <<phase, joined, go>>

Init ==
  /\ phase = "waiting"
  /\ joined = FALSE
  /\ go \in BOOLEAN

\* The client becomes ready, which is reported once.
Join ==
  /\ phase = "waiting"
  /\ ~joined
  /\ joined' = TRUE
  /\ UNCHANGED <<phase, go>>

\* A node status arrives.
Status ==
  /\ phase = "waiting"
  /\ go' \in BOOLEAN
  /\ UNCHANGED <<phase, joined>>

\* The countdown begins, with the client joined and the node's go,
\* either of which may be learned in this same step; its first write may
\* fail at once.
Begin ==
  /\ phase = "waiting"
  /\ joined' = TRUE
  /\ go' = TRUE
  /\ phase' \in {"countdown", "failed"}

\* The countdown ends: the game starts, or the last write fails.
Finish ==
  /\ phase = "countdown"
  /\ phase' \in {"started", "failed"}
  /\ UNCHANGED <<joined, go>>

\* The handler fails in the lobby (the client left, an IO error, or the
\* node status channel closed).
Fail ==
  /\ phase = "waiting"
  /\ phase' = "failed"
  /\ UNCHANGED <<joined, go>>

Next == Join \/ Status \/ Begin \/ Finish \/ Fail

\* A begun countdown ends.
Spec == Init /\ [][Next]_avars /\ WF_avars(Finish)

\* The safety part, which the proofs establish.
SafeSpec == Init /\ [][Next]_avars

=============================================================================
