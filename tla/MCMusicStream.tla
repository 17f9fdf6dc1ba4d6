--------------------------- MODULE MCMusicStream ---------------------------
(* Instances of MusicStream for TLC. *)
EXTENDS MusicStream, TLC
=============================================================================
