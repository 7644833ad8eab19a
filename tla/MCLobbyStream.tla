--------------------------- MODULE MCLobbyStream ---------------------------
(* A small instance of the control-plane stream: two nodes, one game, a *)
(* channel of capacity 2 and one more outbound frame than fits in it.    *)
EXTENDS LobbyStream, TLC

CONSTANTS n1, n2, g1

MCNodeId == {n1, n2}
MCGameId == {g1}
MCQueueCapacity == 2
MCMaxOutbound == 3
MCMaxInbound == 3

=============================================================================
