--------------------------- MODULE MCMusicPlayer ---------------------------
(* Instances of MusicPlayer for TLC. *)
EXTENDS MusicPlayer, TLC

\* Nobody tells one song or one slot from another.
TaskSymmetry == Permutations(Songs) \cup Permutations(Slots)
=============================================================================
