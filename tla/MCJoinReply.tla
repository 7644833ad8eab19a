---------------------------- MODULE MCJoinReply ----------------------------
(* Checks JoinReplyFrames on every slot layout of up to SlotCount slots:  *)
(* the players sit in some slots (slot_player_id = index + 1), the local  *)
(* player is one of them, and the observer slot, when there is one, is a  *)
(* slot no player holds.                                                  *)
EXTENDS JoinReply

SlotCount == 5

\* The increasing sequence of the elements of a set of naturals.
Sorted(S) ==
  [i \in 1..Cardinality(S) |->
     CHOOSE x \in S : Cardinality({y \in S : y < x}) = i - 1]

Layouts ==
  {[infos |-> Sorted(ids), me |-> me, ob |-> ob] :
     ids \in (SUBSET (1..SlotCount)) \ {{}},
     me \in 1..SlotCount,
     ob \in {<<>>} \cup {<<i>> : i \in 0..(SlotCount - 1)}}

VARIABLE layout

Init ==
  /\ layout \in Layouts
  /\ layout.me \in {layout.infos[i] : i \in 1..Len(layout.infos)}
  /\ \A i \in 1..Len(layout.ob) :
       index_to_player_id(layout.ob[i]) \notin
         {layout.infos[j] : j \in 1..Len(layout.infos)}

Next == UNCHANGED layout

Spec == Init /\ [][Next]_layout

\* The ids of the layout's players, of the others, and the observer's.
Players == {layout.infos[i] : i \in 1..Len(layout.infos)}
Peers == Players \ {layout.me}
Observer == {index_to_player_id(layout.ob[i]) : i \in 1..Len(layout.ob)}

\* The join reply the game client receives is the one section 4.E of the
\* spec enumerates: SlotInfoJoin for the local player, then SlotInfo,
\* exactly one PlayerInfo and one PlayerSkins per other player and per
\* observer, exactly one PlayerProfile per player (the local one included)
\* and per observer, grouped PlayerInfo < PlayerSkins < PlayerProfile, and
\* MapCheck last.  In particular the number of PlayerProfile frames is
\* total_players, the count is_ready later waits for (lines 70-77).
JoinReplyMatchesSpec ==
  LET r == JoinReplyFrames(layout.infos, layout.me, layout.ob)
      total == Len(layout.infos) + Len(layout.ob)
  IN  /\ r[1] = Frame("SlotInfoJoin", layout.me)
      /\ r[2].kind = "SlotInfo"
      /\ r[Len(r)].kind = "MapCheck"
      /\ \A id \in Players \cup Observer \cup {0} :
           /\ Cardinality(Positions(r, "PlayerInfo", id)) =
                (IF id \in Peers \cup Observer THEN 1 ELSE 0)
           /\ Cardinality(Positions(r, "PlayerSkins", id)) =
                (IF id \in Peers \cup Observer THEN 1 ELSE 0)
           /\ Cardinality(Positions(r, "PlayerProfile", id)) =
                (IF id \in Players \cup Observer THEN 1 ELSE 0)
      /\ Cardinality(KindPositions(r, "PlayerProfile")) = total
      /\ Len(r) = 3 + 2 * Cardinality(Peers \cup Observer) + total
      /\ \A i, j \in 1..Len(r) :
           /\ r[i].kind = "PlayerInfo" /\ r[j].kind = "PlayerSkins" => i < j
           /\ r[i].kind = "PlayerSkins" /\ r[j].kind = "PlayerProfile" => i < j
=============================================================================
