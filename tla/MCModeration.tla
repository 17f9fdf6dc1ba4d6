---------------------------- MODULE MCModeration ----------------------------
(* Instances of Moderation for TLC. *)
EXTENDS Moderation, TLC

\* README.md:78 names thresholds at 3, 5 and 7 warns; here at 1 and 2.
WarnThresholds == 1 :> "timeout" @@ 2 :> "kick"
FirstWarn      == 1 :> "timeout"

SlashWarns == {[via |-> "slash", kind |-> "warn", target |-> u] : u \in Users}
SlashTimeouts == {[via |-> "slash", kind |-> "timeout", target |-> u] : u \in Users}

HandlerSymmetry == Permutations(Handlers) \cup Permutations(Users)
=============================================================================
