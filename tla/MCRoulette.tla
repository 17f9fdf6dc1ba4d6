----------------------------- MODULE MCRoulette -----------------------------
(* Instances of Roulette for TLC. *)
EXTENDS Roulette, TLC

Pairs == {[number |-> "0", colour |-> "green"], [number |-> "7", colour |-> "red"]}

\* Commands and games are interchangeable.
RouletteSymmetry == Permutations(Commands) \cup Permutations(Games)
=============================================================================
