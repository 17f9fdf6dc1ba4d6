----------------------------- MODULE Moderation -----------------------------
(***************************************************************************)
(* The moderation of a guild: the /mod commands, the context menus and the *)
(* sanctions of the anti-spam handler, which act on Discord and record a   *)
(* ModCase (modCaseRepository.ts), and the thresholds that turn warns into *)
(* sanctions (WarnThresholdService.ts).                                    *)
(*                                                                         *)
(* Slash commands and the anti-spam act on Discord first and record the    *)
(* case second; the context menus record first.  A case number is the      *)
(* count of the cases plus one, read and inserted by two statements of a   *)
(* transaction at Read Committed; the table refuses a number in use.       *)
(***************************************************************************)
EXTENDS Integers, FiniteSets

CONSTANTS
  Users,       \* the members that may be sanctioned
  Handlers,    \* executions of commands and of the anti-spam handler
  Jobs,        \* what the handlers of this instance are asked to do
  Threshold,   \* WarnThreshold: from a number of warns to a sanction
  CanFail,     \* may Discord and the database refuse a call?
  CanLeave,    \* may members leave of their own accord?
  NoJob

Sanctions == {"timeout", "kick", "ban"}
Kinds     == Sanctions \cup {"warn", "unban", "clear"}

\* via: a slash command, a context menu, or messageCreate's anti-spam.
LegalJobs ==
  {j \in [via : {"slash", "menu", "auto"}, kind : Kinds, target : Users] :
     /\ j.via = "menu" => j.kind \in Sanctions \cup {"warn"}
     /\ j.via = "auto" => j.kind \in {"warn", "timeout"}}

ASSUME ModerationAssumption ==
  /\ Jobs \subseteq LegalJobs
  /\ Threshold \in [DOMAIN Threshold -> Sanctions]
  /\ DOMAIN Threshold \subseteq Nat \ {0}
  /\ CanFail \in BOOLEAN
  /\ CanLeave \in BOOLEAN
  /\ NoJob \notin LegalJobs

VARIABLES
  cases,      \* the ModCase rows
  closed,     \* numbers of the cases with active = false
  members,    \* Discord: who is in the guild
  banned,     \* Discord: the ban list
  applied,    \* Discord: the sanctions carried out, as its audit log has them
  job, pc,    \* what a handler was asked to do and where it stands
  counted,    \* the count its transaction has read
  tally,      \* the warns enforceWarnThreshold has counted
  escalates,  \* is it applying a threshold?
  toClose     \* the ban case /mod unban has found, 0 if none

discord == <<members, banned, applied>>
caseRows == <<cases, closed>>
vars    == <<cases, closed, members, banned, applied, job, pc, counted, tally,
             escalates, toClose>>

Init ==
  /\ cases = {}
  /\ closed = {}
  /\ members = Users
  /\ banned = {}
  /\ applied = {}
  /\ job = [h \in Handlers |-> NoJob]
  /\ pc = [h \in Handlers |-> "idle"]
  /\ counted = [h \in Handlers |-> 0]
  /\ tally = [h \in Handlers |-> 0]
  /\ escalates = [h \in Handlers |-> FALSE]
  /\ toClose = [h \in Handlers |-> 0]

Goto(h, l) == pc' = [pc EXCEPT ![h] = l]

Target(h)   == job[h].target
\* The sanction in hand: the threshold's once the handler escalates.
Sanction(h) == IF escalates[h] THEN Threshold[tally[h]] ELSE job[h].kind

Numbers == {k.number : k \in cases}

-----------------------------------------------------------------------------
(* The order of a handler's steps.                                         *)

\* Mutant: the menus act before they record.
MenusActFirst(j) == j.kind = "warn"

RecordsFirst(j) == j.kind = "warn" \/ j.via = "menu"

FirstStep(j) ==
  CASE j.kind = "unban"                       -> "find"
    [] j.kind # "unban" /\ RecordsFirst(j)    -> "count"
    [] j.kind # "unban" /\ ~RecordsFirst(j)   -> "act"

AfterInsert(h) ==
  IF RecordsFirst(job[h]) /\ job[h].kind # "warn" THEN "act" ELSE "log"

AfterAct(h) ==
  IF RecordsFirst(job[h]) /\ ~escalates[h] THEN "log" ELSE "count"

AfterLog(h) ==
  IF job[h].via = "slash" /\ job[h].kind = "warn" /\ ~escalates[h]
    THEN "warns" ELSE "done"

\* The commands that fetch the member before anything else.
NeedsMember(j) ==
  /\ j.kind \notin {"unban", "clear"}
  /\ ~(j.via = "slash" /\ j.kind = "ban")

Start(h) ==
  /\ pc[h] = "idle"
  /\ \E j \in Jobs :
       /\ NeedsMember(j) => j.target \in members
       /\ job' = [job EXCEPT ![h] = j]
       /\ Goto(h, FirstStep(j))
  /\ UNCHANGED <<caseRows, discord, counted, tally, escalates, toClose>>

-----------------------------------------------------------------------------
(* Discord.                                                                *)

\* Discord refuses to time out or kick somebody who has left.
Reachable(kind, u) == kind \in {"timeout", "kick"} => u \in members

CarryOut(h) ==
  LET kind == Sanction(h)
      u    == Target(h)
  IN /\ applied' = applied \cup {[by |-> h, kind |-> kind, target |-> u,
                                  threshold |-> IF escalates[h] THEN tally[h] ELSE 0]}
     /\ members' = IF kind \in {"kick", "ban"} THEN members \ {u} ELSE members
     /\ banned' = IF kind = "ban" THEN banned \cup {u} ELSE banned

Act(h) ==
  /\ pc[h] = "act"
  /\ Reachable(Sanction(h), Target(h))
  /\ CarryOut(h)
  /\ Goto(h, AfterAct(h))
  /\ UNCHANGED <<caseRows, job, counted, tally, escalates, toClose>>

\* The call rejects; the handler's catch answers "Inténtalo de nuevo".
ActFails(h) ==
  /\ pc[h] = "act"
  /\ CanFail \/ ~Reachable(Sanction(h), Target(h))
  /\ Goto(h, "done")
  /\ UNCHANGED <<caseRows, discord, job, counted, tally, escalates, toClose>>

\* A member leaves; who is not banned may come back.
Leave(u) ==
  /\ CanLeave
  /\ u \in members
  /\ members' = members \ {u}
  /\ UNCHANGED <<caseRows, banned, applied, job, pc, counted, tally, escalates, toClose>>

Rejoin(u) ==
  /\ u \notin members \cup banned
  /\ members' = members \cup {u}
  /\ UNCHANGED <<caseRows, banned, applied, job, pc, counted, tally, escalates, toClose>>

-----------------------------------------------------------------------------
(* modCaseRepository.create.                                               *)

CountCases(h) ==
  /\ pc[h] = "count"
  /\ counted' = [counted EXCEPT ![h] = Cardinality(cases)]
  /\ Goto(h, "insert")
  /\ UNCHANGED <<caseRows, discord, job, tally, escalates, toClose>>

\* A /mod clear is filed under the moderator: he is the job's target.
NewCase(h) == [number |-> counted[h] + 1, kind |-> Sanction(h),
               target |-> Target(h), by |-> h, escalation |-> escalates[h]]

\* Mutant: the table without @@unique([guildId, caseNumber]).
InsertCaseAnyNumber(h) ==
  /\ pc[h] = "insert"
  /\ cases' = cases \cup {NewCase(h)}
  /\ Goto(h, AfterInsert(h))
  /\ UNCHANGED <<closed, discord, job, counted, tally, escalates, toClose>>

InsertCase(h) ==
  /\ pc[h] = "insert"
  /\ counted[h] + 1 \notin Numbers
  /\ cases' = cases \cup {NewCase(h)}
  /\ Goto(h, AfterInsert(h))
  /\ UNCHANGED <<closed, discord, job, counted, tally, escalates, toClose>>

\* The number is taken: create rejects and nothing tries again.
NumberTaken(h) ==
  /\ pc[h] = "insert"
  /\ counted[h] + 1 \in Numbers
  /\ Goto(h, "done")
  /\ UNCHANGED <<caseRows, discord, job, counted, tally, escalates, toClose>>

\* logModAction swallows what Discord refuses.
Log(h) ==
  /\ pc[h] = "log"
  /\ Goto(h, AfterLog(h))
  /\ UNCHANGED <<caseRows, discord, job, counted, tally, escalates, toClose>>

\* The database refuses a query and the handler's catch ends it.  That takes
\* in the configuration logModAction reads: /mod warn then ends before it has
\* looked at the thresholds.
DatabaseFails(h) ==
  /\ CanFail
  /\ pc[h] \in {"count", "insert", "log", "warns", "threshold", "findcase", "close"}
  /\ Goto(h, "done")
  /\ UNCHANGED <<caseRows, discord, job, counted, tally, escalates, toClose>>

-----------------------------------------------------------------------------
(* enforceWarnThreshold.                                                   *)

ActiveWarns(u) == {k \in cases : /\ k.kind = "warn"
                                 /\ k.target = u
                                 /\ k.number \notin closed}

\* Mutant: every case of the user counts, not his active warns alone.
CountAllCases(h) ==
  /\ pc[h] = "warns"
  /\ tally' = [tally EXCEPT ![h] = Cardinality({k \in cases : k.target = Target(h)})]
  /\ Goto(h, "threshold")
  /\ UNCHANGED <<caseRows, discord, job, counted, escalates, toClose>>

CountWarns(h) ==
  /\ pc[h] = "warns"
  /\ tally' = [tally EXCEPT ![h] = Cardinality(ActiveWarns(Target(h)))]
  /\ Goto(h, "threshold")
  /\ UNCHANGED <<caseRows, discord, job, counted, escalates, toClose>>

\* findByWarnCount matches the count exactly.
FindThreshold(h) ==
  /\ pc[h] = "threshold"
  /\ IF tally[h] \in DOMAIN Threshold
       THEN /\ escalates' = [escalates EXCEPT ![h] = TRUE]
            /\ Goto(h, "act")
       ELSE /\ UNCHANGED escalates
            /\ Goto(h, "done")
  /\ UNCHANGED <<caseRows, discord, job, counted, tally, toClose>>

-----------------------------------------------------------------------------
(* /mod unban.                                                             *)

OpenBans(u) == {k.number : k \in {k \in cases : /\ k.kind = "ban"
                                                /\ k.target = u
                                                /\ k.number \notin closed}}

\* guild.bans.fetch: who is not banned needs no unban.
FetchBan(h) ==
  /\ pc[h] = "find"
  /\ Goto(h, IF Target(h) \in banned THEN "findcase" ELSE "done")
  /\ UNCHANGED <<caseRows, discord, job, counted, tally, escalates, toClose>>

\* The most recent active ban case of the user, if he has one.
FindCase(h) ==
  /\ pc[h] = "findcase"
  /\ \/ OpenBans(Target(h)) = {} /\ UNCHANGED toClose
     \/ \E n \in OpenBans(Target(h)) :
          /\ \A k \in OpenBans(Target(h)) : k <= n
          /\ toClose' = [toClose EXCEPT ![h] = n]
  /\ Goto(h, "close")
  /\ UNCHANGED <<caseRows, discord, job, counted, tally, escalates>>

CloseCase(h) ==
  /\ pc[h] = "close"
  /\ closed' = closed \cup ({toClose[h]} \ {0})
  /\ Goto(h, "lift")
  /\ UNCHANGED <<cases, discord, job, counted, tally, escalates, toClose>>

LiftBan(h) ==
  /\ pc[h] = "lift"
  /\ Target(h) \in banned
  /\ banned' = banned \ {Target(h)}
  /\ applied' = applied \cup {[by |-> h, kind |-> "unban", target |-> Target(h),
                               threshold |-> 0]}
  /\ Goto(h, "count")
  /\ UNCHANGED <<caseRows, members, job, counted, tally, escalates, toClose>>

LiftFails(h) ==
  /\ pc[h] = "lift"
  /\ CanFail \/ Target(h) \notin banned
  /\ Goto(h, "done")
  /\ UNCHANGED <<caseRows, discord, job, counted, tally, escalates, toClose>>

-----------------------------------------------------------------------------
Next ==
  \/ \E h \in Handlers :
       \/ Start(h) \/ Act(h) \/ ActFails(h) \/ CountCases(h) \/ InsertCase(h)
       \/ NumberTaken(h) \/ DatabaseFails(h) \/ Log(h) \/ CountWarns(h)
       \/ FindThreshold(h) \/ FetchBan(h) \/ FindCase(h) \/ CloseCase(h)
       \/ LiftBan(h) \/ LiftFails(h)
  \/ \E u \in Users : Leave(u) \/ Rejoin(u)

Spec == Init /\ [][Next]_vars

-----------------------------------------------------------------------------
Case == [number : Nat \ {0}, kind : Kinds, target : Users, by : Handlers,
         escalation : BOOLEAN]

\* The values of the variables.
TypeOK ==
  /\ cases \subseteq Case
  /\ closed \subseteq Nat \ {0}
  /\ members \subseteq Users
  /\ banned \subseteq Users
  /\ applied \subseteq [by : Handlers, kind : Kinds, target : Users,
                        threshold : {0} \cup DOMAIN Threshold]
  /\ job \in [Handlers -> Jobs \cup {NoJob}]
  /\ pc \in [Handlers -> {"idle", "act", "count", "insert", "log", "warns",
                          "threshold", "find", "findcase", "close", "lift", "done"}]
  /\ counted \in [Handlers -> Nat]
  /\ tally \in [Handlers -> Nat]
  /\ escalates \in [Handlers -> BOOLEAN]
  /\ toClose \in [Handlers -> Nat]

\* However many handlers count and insert at once, the cases of the guild are
\* numbered 1, 2, 3 ... without a gap and without a repetition, so /mod cases
\* and /mod reason find the case that was announced (modCaseRepository.ts:20).
CaseNumbersDense ==
  /\ Numbers = 1 .. Cardinality(cases)
  /\ \A k1, k2 \in cases : k1.number = k2.number => k1 = k2

WasApplied(k) ==
  \E a \in applied : a.by = k.by /\ a.kind = k.kind /\ a.target = k.target

\* Slash commands, the anti-spam and the thresholds never record a sanction
\* that Discord has not carried out (timeout.ts:80-84, WarnThresholdService.ts:50-64).
NoPhantomCase ==
  \A k \in cases :
    k.kind # "warn" /\ (job[k.by].via # "menu" \/ k.escalation) => WasApplied(k)

\* ban-user.ts:66: a context menu records its case first, "guaranteed record
\* even if Discord action fails".
MenuActionsRecorded ==
  \A a \in applied :
    job[a.by].via = "menu" =>
      \E k \in cases : k.by = a.by /\ k.kind = a.kind /\ k.target = a.target

\* Cases and sanctions tell the same story, each path's first step being the
\* one that may stand alone when the second fails.
CasesMatchSanctions == NoPhantomCase /\ MenuActionsRecorded

\* A threshold is never applied to somebody with fewer warns, whoever warns
\* him at the same time and whatever other cases he has.
NeverEscalatedEarly ==
  \A a \in applied :
    Cardinality(ActiveWarns(a.target)) >= a.threshold

Quiet == \A h \in Handlers : pc[h] \in {"idle", "done"}

\* README.md:78: "Cada acción genera un ModCase auditado".
EveryActionAudited ==
  Quiet => \A a \in applied :
    \E k \in cases : k.by = a.by /\ k.kind = a.kind /\ k.target = a.target

\* README.md:78: "Escalado automático por thresholds de warns".
ThresholdsEnforced ==
  Quiet => \A u \in Users, n \in DOMAIN Threshold :
    Cardinality(ActiveWarns(u)) >= n =>
      \E a \in applied : a.target = u /\ a.threshold = n
=============================================================================
