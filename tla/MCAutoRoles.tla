---------------------------- MODULE MCAutoRoles ----------------------------
(* Instances of AutoRoles for TLC: one role to react for and two buttons,  *)
(* the last for a role that is by now above the bot's own.                 *)
EXTENDS AutoRoles, TLC

Mapping(role, emoji) == [role |-> role, emoji |-> emoji]
MCFirstMenu == <<Mapping("red", "heart"), Mapping("green", NoEmoji), Mapping("blue", NoEmoji)>>
MCChoices == {Mapping("green", "leaf")}
MCSymmetry ==
  Permutations(Clicks) \cup Permutations(Handlers) \cup Permutations(Menus \ {Configured})
=============================================================================
