--------------------------- MODULE MCEconomyRepo ---------------------------
(* Instances of EconomyRepo for TLC. *)
EXTENDS EconomyRepo, TLC

\* Callers are interchangeable.
CallerSymmetry == Permutations(Callers)
=============================================================================
