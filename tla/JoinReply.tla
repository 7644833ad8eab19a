------------------------------ MODULE JoinReply ------------------------------
(***************************************************************************)
(* The batch handle_packet writes in answer to ReqJoin (lines 197-291 of   *)
(* crates/client/src/lan/game/lobby.rs), as a function of the slot info.   *)
(* A player is its slot_player_id; names, skins, the slot table and the    *)
(* map checksum are data the frames carry and are left out.                *)
(***************************************************************************)
EXTENDS Naturals, Sequences, FiniteSets

\* slot::index_to_player_id: a slot index is one less than its player id.
index_to_player_id(i) == i + 1

Frame(kind, id) == [kind |-> kind, player_id |-> id]

\* One frame of the given kind per id of ids, in order.
FramesFor(kind, ids) == [i \in 1..Len(ids) |-> Frame(kind, ids[i])]

\* Seeded fault for mutation analysis: profiles only for the other players.
JoinReplyFrames_no_local_profile(infos, me, ob) ==
  LET peers == SelectSeq(infos, LAMBDA id : id # me)
      obs == [i \in 1..Len(ob) |-> index_to_player_id(ob[i])]
  IN  << Frame("SlotInfoJoin", me), Frame("SlotInfo", 0) >>
      \o FramesFor("PlayerInfo", peers \o obs)
      \o FramesFor("PlayerSkins", peers \o obs)
      \o FramesFor("PlayerProfile", peers \o obs)
      \o << Frame("MapCheck", 0) >>

\* The replies vector: SlotInfoJoin for me, SlotInfo, then PlayerInfo and
\* PlayerSkinsMessage for every other player, PlayerProfileMessage for
\* every player, each list followed by the stream observer's frame when
\* there is an observer slot, and MapCheck last.  infos is the sequence of
\* slot_player_ids of slot_info.player_infos, me my_slot_player_id and
\* ob the Option stream_ob_slot, as <<>> or <<index>>.
JoinReplyFrames(infos, me, ob) ==
  LET peers == SelectSeq(infos, LAMBDA id : id # me)
      obs == [i \in 1..Len(ob) |-> index_to_player_id(ob[i])]
  IN  << Frame("SlotInfoJoin", me), Frame("SlotInfo", 0) >>
      \o FramesFor("PlayerInfo", peers \o obs)
      \o FramesFor("PlayerSkins", peers \o obs)
      \o FramesFor("PlayerProfile", infos \o obs)
      \o << Frame("MapCheck", 0) >>

\* The positions of r holding a frame of kind k for player id.
Positions(r, k, id) ==
  {i \in 1..Len(r) : r[i].kind = k /\ r[i].player_id = id}

\* The positions of r holding a frame of kind k.
KindPositions(r, k) == {i \in 1..Len(r) : r[i].kind = k}
=============================================================================
