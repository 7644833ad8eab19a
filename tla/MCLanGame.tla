----------------------------- MODULE MCLanGame -----------------------------
(* LanGame with every NodeGameStatus the code tells apart: the three that  *)
(* keep the advertisement, and two past them.                              *)
EXTENDS LanGame

MCStatus == {"Created", "Waiting", "Loading", "Running", "Ended"}

MCMaxUpdates == 3

=============================================================================
