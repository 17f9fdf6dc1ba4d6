------------------------ MODULE MCLeaderboardStream ------------------------
(* Instances of LeaderboardStream for TLC. *)
EXTENDS LeaderboardStream, TLC
=============================================================================
