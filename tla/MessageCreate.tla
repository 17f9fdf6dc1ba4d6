---------------------------- MODULE MessageCreate ----------------------------
(***************************************************************************)
(* The handler of a message (messageCreate.ts): the anti-spam check and    *)
(* what it leads to, else XP, level and level roles, then the reposting of *)
(* images.  All messages are of one member of one guild, each handled by a *)
(* task of its own that is interleaved with the others at every await.     *)
(***************************************************************************)
EXTENDS AntiSpam

CONSTANTS
  ActionFor,        \* the configured action of every pattern
  EscalationCount,
  XpPerMessage,
  XpPerLevel,       \* 100: level n needs 100 * n * n
  StartXp,          \* the XP the member may have before the first message
  LevelRoles,       \* the levels that give a role
  XpPause,          \* no XP within five seconds of the last
  MaxTime, MaxFaults

Sanctions == {"WARN", "TIMEOUT_5MIN", "TIMEOUT_30MIN"}
Actions == Sanctions \cup {"NOTIFY_ONLY", "DELETE_ONLY"}

ASSUME MessageCreateAssumption ==
  /\ ActionFor \in [PatternNames -> Actions]
  /\ EscalationCount \in Nat
  /\ XpPerMessage \in Nat \ {0} /\ XpPerLevel \in Nat \ {0}
  /\ StartXp \subseteq Nat /\ LevelRoles \subseteq Nat \ {0}
  /\ XpPause \in Nat /\ MaxTime \in Nat /\ MaxFaults \in Nat

VARIABLES
  task,       \* one for each message
  history,    \* AntiSpamHistory: the messages with a row
  timeouts,   \* the messages whose member was timed out
  cases,      \* the ModCases, by message
  visible,    \* the messages Discord shows
  swept,      \* those deleted as spam
  reposted,   \* the images posted again
  notices,    \* how many notices the moderation log has
  xp, nivel, lastMessageAt,  \* the UserXP row; lastMessageAt < 0 before it exists
  startXp, earned,           \* the XP at the start and the messages paid since
  memberRoles,
  faults

punishment == <<history, timeouts, cases, swept, notices>>
images == <<visible, reposted>>
experience == <<xp, nivel, lastMessageAt, startXp, earned, memberRoles>>
vars == <<now, valkey, task, punishment, images, experience, faults>>

Stages == {"unsent", "checks", "remember", "judge", "mark", "count", "record", "delete",
           "sanction", "case", "notify", "xp", "earn", "roles", "repost", "drop", "done"}

Unsent ==
  [pc |-> "unsent", kind |-> CHOOSE k \in Kinds : TRUE, at |-> 0, answered |-> TRUE,
   found |-> {}, verdict |-> None, sweep |-> {}, action |-> "WARN", xp |-> 0, nivel |-> 0]

TypeOK ==
  /\ now \in 0..MaxTime /\ faults \in 0..MaxFaults
  /\ members \subseteq Members
  /\ task \in [Messages ->
       [pc : Stages, kind : Kinds, at : 0..MaxTime, answered : BOOLEAN,
        found : SUBSET PatternNames, verdict : PatternNames \cup {None},
        sweep : SUBSET Messages, action : Actions, xp : Nat, nivel : Nat]]
  /\ history \subseteq Messages /\ timeouts \subseteq Messages /\ cases \subseteq Messages
  /\ visible \subseteq Messages /\ swept \subseteq Messages /\ reposted \subseteq Messages
  /\ xp \in Nat /\ nivel \in Nat /\ memberRoles \subseteq LevelRoles /\ earned \subseteq Messages

\* floor(sqrt(x / 100))
LevelOf(x) == CHOOSE n \in 0..x : XpPerLevel * n * n <= x /\ x < XpPerLevel * (n + 1) * (n + 1)

Init ==
  /\ AntiSpamInit
  /\ task = [m \in Messages |-> Unsent]
  /\ history = {} /\ timeouts = {} /\ cases = {} /\ swept = {} /\ notices = 0
  /\ visible = {} /\ reposted = {}
  /\ startXp \in StartXp
  /\ xp = startXp /\ nivel = LevelOf(startXp)
  /\ lastMessageAt = -XpPause - 1
  /\ memberRoles = {l \in LevelRoles : l <= LevelOf(startXp)}
  /\ earned = {} /\ faults = 0

-----------------------------------------------------------------------------
At(m, pc) == task[m].pc = pc
Goto(m, pc) == task' = [task EXCEPT ![m].pc = pc]
Well == UNCHANGED faults
Fault == faults < MaxFaults /\ faults' = faults + 1

Tick ==
  /\ now < MaxTime
  /\ now' = now + 1
  /\ UNCHANGED <<valkey, task, punishment, images, experience, faults>>

-----------------------------------------------------------------------------
(* The anti-spam check. *)

\* evaluate: the first-trigger guard.  A message that comes after a verdict
\* is not checked and goes on to XP.
Arrive(m, k) ==
  /\ At(m, "unsent")
  /\ visible' = visible \cup {m}
  /\ \/ /\ Well
        /\ task' = [task EXCEPT ![m].kind = k,
                                ![m].pc = IF now < marked THEN "xp" ELSE "checks"]
     \/ /\ Fault
        /\ task' = [task EXCEPT ![m].kind = k, ![m].pc = "checks"]
  /\ UNCHANGED <<now, valkey, punishment, reposted, experience>>

\* The first commands of all checks; without an answer only what needs no
\* command is found.
StartChecks(m) ==
  /\ At(m, "checks")
  /\ LET k == task[m].kind
         started(found, ok) ==
           task' = [task EXCEPT ![m].pc = "remember", ![m].at = now,
                                ![m].found = found, ![m].answered = ok]
     IN \/ /\ Well
           /\ started(FoundAtOnce(k), TRUE)
           /\ members' = Recorded(m, k)
           /\ hits' = HitsCounted(k)
        \/ /\ Fault
           /\ started(Enabled \cap {"caps"} \cap k.traits, FALSE)
           /\ UNCHANGED <<members, hits>>
  /\ UNCHANGED <<now, marked, lastSeen, texts, punishment, images, experience>>

\* checkVelocity and checkDuplicateContent: the message that found nothing
\* leaves its trace by a command of its own.
Remember(m) ==
  /\ At(m, "remember")
  /\ Goto(m, "judge")
  /\ lastSeen' =
       IF task[m].answered /\ "velocity" \in Enabled \ task[m].found
       THEN [at |-> task[m].at, expires |-> now + Window["velocity"]]
       ELSE lastSeen
  /\ texts' =
       IF task[m].answered /\ "duplicate" \in Enabled \ task[m].found
       THEN [texts EXCEPT ![task[m].kind.text] = now + Window["duplicate"]]
       ELSE texts
  /\ UNCHANGED <<now, marked, members, hits, punishment, images, experience, faults>>

\* The sorted sets are read and the first finding is the verdict.
Judge(m) ==
  /\ At(m, "judge")
  /\ LET k == task[m].kind
         judged(found, ok) ==
           LET verdict == FirstOf(found)
           IN task' = [task EXCEPT
                ![m].pc = IF verdict = None THEN "xp" ELSE "mark",
                ![m].found = found, ![m].verdict = verdict, ![m].answered = @ /\ ok,
                ![m].sweep = IF verdict \in Windowed THEN InWindow(verdict, k, task[m].at) ELSE {m}]
     IN \/ Well /\ judged(task[m].found \cup FoundInWindows(m, k, task[m].at), TRUE)
        \/ Fault /\ judged(task[m].found, FALSE)
  /\ UNCHANGED <<now, valkey, punishment, images, experience>>

\* The mark comes with the verdict, not before the checks.
Mark(m) ==
  /\ At(m, "mark")
  /\ Goto(m, "count")
  /\ \/ Well /\ marked' = now + Window["rate"]
     \/ Fault /\ UNCHANGED marked
  /\ UNCHANGED <<now, members, lastSeen, texts, hits, punishment, images, experience>>

-----------------------------------------------------------------------------
(* What follows a verdict. *)

Escalated(action) ==
  CASE action = "WARN" -> "TIMEOUT_5MIN"
    [] action \in {"TIMEOUT_5MIN", "TIMEOUT_30MIN"} -> "TIMEOUT_30MIN"
    [] OTHER -> action

\* Mutant: the row of this message counts as one of those before it.
EscalatesWithOwnRow(m) == Cardinality(history) + 1 >= EscalationCount

\* applyAction: enough rows within the hour.
Escalates(m) == Cardinality(history) >= EscalationCount

CountHistory(m) ==
  /\ At(m, "count")
  /\ LET configured == ActionFor[task[m].verdict]
     IN \/ /\ Well
           /\ task' = [task EXCEPT ![m].pc = "record",
                ![m].action = IF Escalates(m) THEN Escalated(configured) ELSE configured]
        \/ /\ Fault  \* applyAction throws: no row either
           /\ task' = [task EXCEPT ![m].pc = "delete", ![m].action = configured]
  /\ UNCHANGED <<now, valkey, punishment, images, experience>>

RecordHistory(m) ==
  /\ At(m, "record")
  /\ \/ /\ Well
        /\ Goto(m, "delete")
        /\ history' = history \cup {m}
     \/ /\ Fault  \* and the escalation is forgotten
        /\ task' = [task EXCEPT ![m].pc = "delete", ![m].action = ActionFor[task[m].verdict]]
        /\ UNCHANGED history
  /\ UNCHANGED <<now, valkey, timeouts, cases, swept, notices, images, experience>>

Delete(m) ==
  /\ At(m, "delete")
  /\ Goto(m, "sanction")
  /\ \/ /\ Well
        /\ LET gone == IF task[m].action = "NOTIFY_ONLY" THEN {} ELSE task[m].sweep
           IN visible' = visible \ gone /\ swept' = swept \cup gone
     \/ Fault /\ task[m].action # "NOTIFY_ONLY" /\ UNCHANGED <<visible, swept>>
  /\ UNCHANGED <<now, valkey, history, timeouts, cases, notices, reposted, experience>>

\* WARN registers a case; a timeout comes before its case, and neither does
\* when the member is not moderatable or Discord refuses.  NOTIFY_ONLY and
\* DELETE_ONLY sanction nobody.
Sanction(m) ==
  /\ At(m, "sanction")
  /\ \/ /\ task[m].action = "WARN"
        /\ Goto(m, "case")
        /\ UNCHANGED <<timeouts, faults>>
     \/ /\ task[m].action \in {"TIMEOUT_5MIN", "TIMEOUT_30MIN"}
        /\ Well
        /\ Goto(m, "case")
        /\ timeouts' = timeouts \cup {m}
     \/ /\ task[m].action # "WARN"
        /\ Goto(m, "notify")
        /\ UNCHANGED <<timeouts, faults>>
  /\ UNCHANGED <<now, valkey, history, cases, swept, notices, images, experience>>

CreateCase(m) ==
  /\ At(m, "case")
  /\ Goto(m, "notify")
  /\ \/ Well /\ cases' = cases \cup {m}
     \/ Fault /\ UNCHANGED cases
  /\ UNCHANGED <<now, valkey, history, timeouts, swept, notices, images, experience>>

\* notifySpamToModLog: get answers undefined for a missing key, which is not
\* null, so only a get that throws lets the notice through.
Notify(m) ==
  /\ At(m, "notify")
  /\ Goto(m, "done")
  /\ \/ Well /\ UNCHANGED notices
     \/ Fault /\ notices' = notices + 1
  /\ UNCHANGED <<now, valkey, history, timeouts, cases, swept, images, experience>>

-----------------------------------------------------------------------------
(* XP and levels. *)

ReadXp(m) ==
  /\ At(m, "xp")
  /\ task' = [task EXCEPT
       ![m].pc = IF "slash" \in task[m].kind.traits THEN "done"
                 ELSE IF now - lastMessageAt < XpPause THEN "repost" ELSE "earn",
       ![m].xp = xp, ![m].nivel = nivel]
  /\ UNCHANGED <<now, valkey, punishment, images, experience, faults>>

\* Mutant: the sum of the read is written back.
XpWritten(m) == task[m].xp + XpPerMessage

\* Mutant: the level of the next message.
NewLevelAhead(m) == LevelOf(task[m].xp + 2 * XpPerMessage)

NewLevel(m) == LevelOf(task[m].xp + XpPerMessage)

XpIncremented(m) == xp + XpPerMessage

\* incrementUserXP: the XP is added to the row, the level is the one of the
\* XP that was read.
Earn(m) ==
  /\ At(m, "earn")
  /\ \/ /\ Well
        /\ xp' = XpIncremented(m)
        /\ nivel' = NewLevel(m)
        /\ lastMessageAt' = now
        /\ earned' = earned \cup {m}
        /\ Goto(m, IF NewLevel(m) > task[m].nivel THEN "roles" ELSE "repost")
     \/ /\ Fault
        /\ Goto(m, "repost")
        /\ UNCHANGED <<xp, nivel, lastMessageAt, earned>>
  /\ UNCHANGED <<now, valkey, punishment, images, startXp, memberRoles>>

\* Every role up to the level; one that Discord refuses is passed over.
GiveRoles(m) ==
  /\ At(m, "roles")
  /\ Goto(m, "repost")
  /\ LET due == {l \in LevelRoles : l <= NewLevel(m)}
     IN \/ Well /\ memberRoles' = memberRoles \cup due
        \/ Fault /\ due # {} /\ \E l \in due : memberRoles' = memberRoles \cup (due \ {l})
  /\ UNCHANGED <<now, valkey, punishment, images, xp, nivel, lastMessageAt, startXp, earned>>

-----------------------------------------------------------------------------
(* Images. *)

\* Mutant: the original goes before the copy is sent.
RepostAfterDeleting(m) ==
  /\ At(m, "repost") /\ "image" \in task[m].kind.traits
  /\ Well /\ Goto(m, "drop")
  /\ visible' = visible \ {m}
  /\ UNCHANGED <<now, valkey, punishment, reposted, experience>>

\* The copy is sent first.
Repost(m) ==
  /\ At(m, "repost") /\ "image" \in task[m].kind.traits
  /\ \/ Well /\ Goto(m, "drop") /\ reposted' = reposted \cup {m}
     \/ Fault /\ Goto(m, "done") /\ UNCHANGED reposted
  /\ UNCHANGED <<now, valkey, punishment, visible, experience>>

NoImage(m) ==
  /\ At(m, "repost") /\ "image" \notin task[m].kind.traits
  /\ Goto(m, "done")
  /\ UNCHANGED <<now, valkey, punishment, images, experience, faults>>

Drop(m) ==
  /\ At(m, "drop") /\ Goto(m, "done")
  /\ \/ Well /\ visible' = visible \ {m}
     \/ Fault /\ UNCHANGED visible
  /\ UNCHANGED <<now, valkey, punishment, reposted, experience>>

-----------------------------------------------------------------------------
Handle(m) ==
  \/ StartChecks(m) \/ Remember(m) \/ Judge(m) \/ Mark(m)
  \/ CountHistory(m) \/ RecordHistory(m) \/ Delete(m) \/ Sanction(m) \/ CreateCase(m) \/ Notify(m)
  \/ ReadXp(m) \/ Earn(m) \/ GiveRoles(m) \/ Repost(m) \/ NoImage(m) \/ Drop(m)

Next ==
  \/ \E m \in Messages : Handle(m) \/ \E k \in Kinds : Arrive(m, k)
  \/ Tick

Spec == Init /\ [][Next]_vars

-----------------------------------------------------------------------------
Judged(m) == task[m].pc \notin {"unsent", "checks", "remember", "judge"}

\* "Threshold: 3+ messages in 5 seconds in SAME channel" (AntiSpamService.ts):
\* messages that are checked at the same time may each read the sorted set
\* before the others are in it, but never all of them: of enough messages
\* within one window, with every command answered and no later message to
\* prune the set, one is found to be spam.
FloodCaught ==
  \A p \in Windowed \cap Enabled : \A flood \in SUBSET {m \in Messages : Judged(m)} :
    (/\ Cardinality(flood) >= Limit[p]
     /\ \A m \in flood :
          /\ \E x \in members : x.pattern = p /\ x.message = m
          /\ task[m].answered
          /\ \A n \in flood : ChannelOf(p, task[n].kind) = ChannelOf(p, task[m].kind)
          /\ \A x \in members : x.score - task[m].at < Window[p])
      => \E m \in flood : task[m].verdict # None

\* applyAction counts the rows and inserts its own in separate statements:
\* whatever else is counted meanwhile, a sanction is raised only after
\* EscalationCount other messages have a row.
EscalatedAfterEnough ==
  \A m \in Messages :
    (task[m].pc \in {"record", "delete", "sanction", "case", "notify", "done"} /\ task[m].verdict # None
       /\ task[m].action # ActionFor[task[m].verdict])
      => Cardinality(history \ {m}) >= EscalationCount

\* "Usar incremento atómico para evitar race conditions" (messageCreate.ts:449):
\* messages handled at once all count, whatever each of them had read.
XpCounted == xp = startXp + XpPerMessage * Cardinality(earned)

\* The level is computed from XP that is out of date by the time it is
\* written, and so are the roles: they may lag behind the XP, but no member
\* has a level, or a role, that the XP does not pay for.
LevelEarned ==
  /\ nivel <= LevelOf(xp)
  /\ \A l \in memberRoles : l <= LevelOf(xp)

\* An image that is posted again is sent before the original is deleted: it
\* is always to be seen somewhere, unless a flood it is part of was swept.
ImageKept ==
  \A m \in Messages :
    task[m].pc # "unsent" => m \in visible \cup reposted \cup swept
=============================================================================
