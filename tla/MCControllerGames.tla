------------------------- MODULE MCControllerGames -------------------------
(* Model-checking instance of ControllerGames: three players, calls of   *)
(* every handler on one game, and a join of a game never created.        *)
EXTENDS ControllerGames, TLC

CONSTANTS p1, p2, p3, g1, g2, n1, n2

MCPlayer == {p1, p2, p3}
MCGameId == {g1, g2}
MCNode == {n1, n2}

Call(op, g, p, n) ==
  [op |-> op, game |-> g, player |-> p, node |-> n, token_ok |-> TRUE]

\* Every handler, with the interleavings the properties are about.
MCRequest ==
  { Call("create", g1, p1, None),
    Call("join", g1, p2, None),
    Call("leave", g1, p2, None),
    Call("join_token", g1, p3, None),
    [Call("join_token", g1, p3, None) EXCEPT !.token_ok = FALSE],
    Call("cancel", g1, p1, None),
    Call("select", g1, p1, n1),
    Call("leave", g1, p1, None),
    Call("start_bot", g1, p1, None),
    Call("join", g2, p2, None) }

\* join against leave and cancel, for IndexMatchesMembers.
MCRaceJoin ==
  { Call("create", g1, p1, None),
    Call("join", g1, p2, None),
    Call("leave", g1, p2, None),
    Call("cancel", g1, p1, None) }

\* The host ends its game by leaving, or cancels it, for EndedGameRemoved.
MCEnd ==
  { Call("create", g1, p1, None),
    Call("leave", g1, p1, None),
    Call("cancel", g1, p1, None) }

\* Two node selections by the host, for NodeCacheMatchesGame.
MCRaceSelect ==
  { Call("create", g1, p1, None),
    Call("select", g1, p1, n1),
    Call("select", g1, p1, n2) }
=============================================================================
