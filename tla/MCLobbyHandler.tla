--------------------------- MODULE MCLobbyHandler ---------------------------
(* Model-checking instance of LobbyHandler: one other player and the      *)
(* stream observer (total_players = 2, so four frames make the client     *)
(* ready), one frame more than that, one ping and two status sends.       *)
(* Running behaves as Loading, and the other statuses as Waiting.         *)
EXTENDS LobbyHandler

MCNumPlayerInfos == 1
MCHasObSlot == TRUE
MCMaxPackets == 5
MCMaxPings == 1
MCMaxStatusSends == 2

\* The handler only asks whether a status is Loading or Running: one
\* status of each kind stands for the others.
MCNodeGameStatus == {"Waiting", "Loading"}

\* MapSize, PongToHost, Unknown2 and UnknownValue are read and answered
\* with nothing, exactly as LeaveReq is, and lead to the same states: the
\* instance lets LeaveReq stand for them.
MCClientPacket == {"ReqJoin", "ChatToHost", "PlayerProfile", "PlayerSkins",
                   "PlayerUnknown5", "LeaveReq", "Other"}
\* The liveness instance: TLC checks temporal properties on one thread, so
\* CountdownTerminates gets a smaller lobby.  One player and no observer
\* slot (total_players = 1: PlayerProfile, PlayerSkins and PlayerUnknown5
\* make the client ready), exactly those three frames, no ping and one
\* status send: the countdown is reached from a client frame and from a
\* status change, with and without a notifier, as in the larger instance.
LiveNumPlayerInfos == 1
LiveHasObSlot == FALSE
LiveMaxPackets == 3
LiveMaxPings == 0
LiveMaxStatusSends == 1
=============================================================================
