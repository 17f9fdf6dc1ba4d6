-------------------------- MODULE MCMessageCreate --------------------------
(* Instances of MessageCreate for TLC. *)
EXTENDS MessageCreate, TLC

Kind(channel, text, traits) == [channel |-> channel, text |-> text, traits |-> traits]
MCKinds == {Kind("general", "hi", {}),
            Kind("general", "look", {"mentioning", "mentions", "link", "emojis"}),
            Kind("art", "ART", {"image", "caps"}),
            Kind("art", "play", {"slash"})}
MCLimit == [p \in Windowed \cup Counted |-> IF p \in Counted THEN 1 ELSE 2]
MCWindow == [p \in PatternNames \ {"caps"} |-> 1]
MCActionFor ==
  [p \in PatternNames |-> CASE p \in {"mention", "link", "combo"} -> "TIMEOUT_5MIN"
                            [] p = "duplicate" -> "NOTIFY_ONLY"
                            [] p = "emoji" -> "DELETE_ONLY"
                            [] OTHER -> "WARN"]
MessageSymmetry == Permutations(Messages)
=============================================================================
