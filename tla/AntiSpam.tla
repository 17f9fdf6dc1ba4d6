------------------------------ MODULE AntiSpam ------------------------------
(***************************************************************************)
(* The patterns AntiSpamService.ts looks for in the messages of one member *)
(* and the Valkey keys it looks them up in.  A message starts every check  *)
(* at once: the first command of each leaves in one burst, the second when *)
(* the first was answered, and the sorted sets are read last.  Several     *)
(* messages are checked at a time, in steps of MessageCreate.              *)
(*                                                                         *)
(* A check whose command fails answers "no spam".  Time is counted in      *)
(* units; Limit and Window give every pattern its DEFAULTS.                *)
(***************************************************************************)
EXTENDS Integers, Sequences, FiniteSets

CONSTANTS
  Messages,
  Kinds,    \* what a message may be: [channel, text, traits]
  Enabled,  \* the patterns the guild has switched on
  Limit,    \* how many messages, or hits, make each pattern
  Window,   \* how long each pattern remembers
  None

Patterns == <<"rate", "burst", "velocity", "mention", "link",
              "duplicate", "caps", "emoji", "combo">>
PatternNames == {Patterns[i] : i \in DOMAIN Patterns}
Windowed == {"rate", "burst", "emoji", "combo"}
Counted == {"mention", "link"}

ASSUME AntiSpamAssumption ==
  /\ IsFiniteSet(Messages) /\ Kinds # {}
  /\ Enabled \subseteq PatternNames
  /\ Limit \in [Windowed \cup Counted -> Nat \ {0}]
  /\ Window \in [PatternNames \ {"caps"} -> Nat \ {0}]
  /\ \A k \in Kinds : k.traits \subseteq
       {"mentioning", "mentions", "link", "emojis", "caps", "image", "slash"}
  /\ None \notin Messages \cup PatternNames

VARIABLES
  now,
  marked,   \* actionTaken: when the key expires
  members,  \* the sorted sets: [pattern, channel, message, score]
  lastSeen, \* the velocity key: the time it holds and when it expires
  texts,    \* the duplicate keys: when each expires
  hits      \* the INCR counters: count and when they expire

valkey == <<marked, members, lastSeen, texts, hits>>

Texts == {k.text : k \in Kinds}
Members == [pattern : Windowed, channel : {k.channel : k \in Kinds} \cup {None},
            message : Messages, score : Nat]

AntiSpamInit ==
  /\ now = 0
  /\ marked = 0
  /\ members = {}
  /\ lastSeen = [at |-> 0, expires |-> 0]
  /\ texts = [t \in Texts |-> 0]
  /\ hits = [p \in Counted |-> [count |-> 0, expires |-> 0]]

-----------------------------------------------------------------------------
\* checkRateLimit counts every message, checkBurstPerChannel every message
\* of the channel, checkEmojiSpam and checkCombo those that have the trait.
\* (The count of mentions in one message that checkCombo takes first is of
\* a regular expression without /g: it is never above one.)
Counts(pattern, k) ==
  CASE pattern \in {"rate", "burst"} -> TRUE
    [] pattern = "emoji" -> "emojis" \in k.traits
    [] pattern = "combo" -> {"mentioning", "link"} \subseteq k.traits

ChannelOf(pattern, k) == IF pattern = "burst" THEN k.channel ELSE None

KeptIn(k) == {p \in Windowed \cap Enabled : Counts(p, k)}

\* sortedSetAdd and sortedSetRemoveByScore of every check of the message.
Recorded(m, k) ==
  LET keys == {<<p, ChannelOf(p, k)>> : p \in KeptIn(k)}
      old(x) == <<x.pattern, x.channel>> \in keys /\ x.score <= now - Window[x.pattern]
  IN {x \in members : ~old(x)}
       \cup {[pattern |-> key[1], channel |-> key[2], message |-> m, score |-> now] : key \in keys}

\* sortedSetRangeByScore, with the time the check began as "now".
InWindow(pattern, k, at) ==
  {x.message : x \in {y \in members :
     /\ y.pattern = pattern
     /\ y.channel = ChannelOf(pattern, k)
     /\ y.score \in (at - Window[pattern])..at}}

\* Two counters run through rateLimit: INCR, and EXPIRE on the first hit.
Hits(k) ==
  {p \in Counted \cap Enabled : (IF p = "mention" THEN "mentions" ELSE "link") \in k.traits}

CountAfter(p) == IF now < hits[p].expires THEN hits[p].count + 1 ELSE 1

HitsCounted(k) ==
  [p \in Counted |->
     IF p \notin Hits(k) THEN hits[p]
     ELSE [count |-> CountAfter(p),
           expires |-> IF CountAfter(p) = 1 THEN now + Window[p] ELSE hits[p].expires]]

Velocity == now < lastSeen.expires /\ now - lastSeen.at < Window["velocity"]
Duplicate(k) == now < texts[k.text]

\* What the checks that do not read a sorted set find.
FoundAtOnce(k) ==
  Enabled \cap
    (  {p \in Hits(k) : CountAfter(p) > Limit[p]}
    \cup {p \in {"velocity"} : Velocity}
    \cup {p \in {"duplicate"} : Duplicate(k)}
    \cup {p \in {"caps"} : "caps" \in k.traits})

\* Mutant: the set is read with the first commands, before the message is in it.
FoundInWindowsBeforeAdding(m, k, at) ==
  {p \in KeptIn(k) : Cardinality(InWindow(p, k, at) \ {m}) >= Limit[p]}

\* What the sorted sets say when they are read.
FoundInWindows(m, k, at) ==
  {p \in KeptIn(k) : Cardinality(InWindow(p, k, at)) >= Limit[p]}

\* evaluate takes the first check, in this order, that found something.
FirstOf(found) ==
  IF found = {} THEN None
  ELSE Patterns[CHOOSE i \in DOMAIN Patterns :
                  Patterns[i] \in found /\ \A j \in 1..(i - 1) : Patterns[j] \notin found]
=============================================================================
