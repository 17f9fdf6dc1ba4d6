------------------------ MODULE MessageCreateProofs ------------------------
(***************************************************************************)
(* Theorems about the handling of messages, for every number of messages,  *)
(* every limit and window, every amount of XP and every fault.             *)
(***************************************************************************)
EXTENDS MessageCreate, TLAPS, FiniteSetTheorems

-----------------------------------------------------------------------------
(* Levels.                                                                 *)

\* A set of numbers that is not empty has a least one.
LEMMA LeastNumber ==
  ASSUME NEW T, T \subseteq Nat, T # {}
  PROVE  \E n \in T : \A m \in T : n <= m
<1>1. PICK n \in T : \A m \in T : ~(<<m, n>> \in OpToRel(<, Nat))
  BY NatLessThanWellFounded, WFMin
<1>2. \A m \in T : ~(m < n)
  BY <1>1 DEF OpToRel
<1> QED BY <1>2

LEMMA Squares ==
  ASSUME NEW a \in Nat, NEW b \in Nat, a <= b
  PROVE  XpPerLevel * a * a <= XpPerLevel * b * b
<1> PICK k \in Nat : k = XpPerLevel BY MessageCreateAssumption
<1>1. a * a <= b * b OBVIOUS
<1>2. k * (a * a) <= k * (b * b)
  <2> PICK s \in Nat : s = a * a OBVIOUS
  <2> PICK t \in Nat : t = b * b OBVIOUS
  <2>1. s <= t BY <1>1
  <2>2. k * s <= k * t BY <2>1
  <2> QED BY <2>2
<1>3. k * a * a = k * (a * a) /\ k * b * b = k * (b * b) OBVIOUS
<1> QED BY <1>2, <1>3

LEMMA LevelExists ==
  ASSUME NEW x \in Nat
  PROVE  /\ LevelOf(x) \in Nat
         /\ XpPerLevel * LevelOf(x) * LevelOf(x) <= x
         /\ x < XpPerLevel * (LevelOf(x) + 1) * (LevelOf(x) + 1)
<1> PICK k \in Nat \ {0} : k = XpPerLevel BY MessageCreateAssumption
<1> DEFINE S == {n \in Nat : x < k * (n + 1) * (n + 1)}
<1>1. \A n \in Nat : n <= k * n * n
  <2> TAKE n \in Nat
  <2>1. n <= n * n
    <3>1. CASE n = 0 BY <3>1
    <3>2. CASE n >= 1 BY <3>2
    <3> QED BY <3>1, <3>2
  <2> PICK s \in Nat : s = n * n OBVIOUS
  <2>2. s <= k * s OBVIOUS
  <2>3. k * n * n = k * s OBVIOUS
  <2> QED BY <2>1, <2>2, <2>3
<1>2. x \in S
  <2>1. x + 1 <= k * (x + 1) * (x + 1) BY <1>1
  <2> QED BY <2>1
<1>3. PICK n \in S : \A m \in S : n <= m BY <1>2, LeastNumber
<1>4. n \in Nat /\ x < k * (n + 1) * (n + 1) OBVIOUS
<1>5. k * n * n <= x
  <2>1. CASE n = 0 BY <2>1
  <2>2. CASE n # 0
    <3>1. n - 1 \in Nat /\ n - 1 \notin S
      <4> HIDE DEF S
      <4> QED BY <1>3, <1>4, <2>2
    <3>2. ~(x < k * ((n - 1) + 1) * ((n - 1) + 1)) BY <3>1
    <3>3. (n - 1) + 1 = n BY <1>4
    <3>4. k * n * n \in Nat BY <1>4
    <3> QED BY <3>2, <3>3, <3>4
  <2> QED BY <2>1, <2>2
<1>6. n \in 0..x
  <2>1. n <= k * n * n /\ k * n * n \in Nat BY <1>1, <1>4
  <2> QED BY <1>4, <1>5, <2>1
<1> HIDE DEF S
<1>7. \E l \in 0..x : XpPerLevel * l * l <= x /\ x < XpPerLevel * (l + 1) * (l + 1)
  BY <1>4, <1>5, <1>6
<1>8. /\ LevelOf(x) \in 0..x
      /\ XpPerLevel * LevelOf(x) * LevelOf(x) <= x
      /\ x < XpPerLevel * (LevelOf(x) + 1) * (LevelOf(x) + 1)
  BY <1>7 DEF LevelOf
<1> QED BY <1>8

\* More XP is never a lower level.
LEMMA LevelGrows ==
  ASSUME NEW x \in Nat, NEW y \in Nat, x <= y
  PROVE  LevelOf(x) <= LevelOf(y)
<1> PICK a \in Nat : a = LevelOf(x) BY LevelExists
<1> PICK b \in Nat : b = LevelOf(y) BY LevelExists
<1> SUFFICES ASSUME b + 1 <= a PROVE FALSE OBVIOUS
<1>1. XpPerLevel * (b + 1) * (b + 1) <= XpPerLevel * a * a BY Squares
<1>2. XpPerLevel * a * a <= x BY LevelExists
<1>3. y < XpPerLevel * (b + 1) * (b + 1) BY LevelExists
<1>4. XpPerLevel * (b + 1) * (b + 1) \in Nat /\ XpPerLevel * a * a \in Nat
  <2>1. XpPerLevel \in Nat BY MessageCreateAssumption
  <2> QED BY <2>1
<1> QED BY <1>1, <1>2, <1>3, <1>4

-----------------------------------------------------------------------------
(* Types.                                                                  *)

Task == [pc : Stages, kind : Kinds, at : 0..MaxTime, answered : BOOLEAN,
         found : SUBSET PatternNames, verdict : PatternNames \cup {None},
         sweep : SUBSET Messages, action : Actions, xp : Nat, nivel : Nat]

LEMMA TaskFields ==
  ASSUME NEW t \in Task
  PROVE  /\ \A l \in Stages : [t EXCEPT !.pc = l] \in Task
         /\ \A k \in Kinds : [t EXCEPT !.kind = k] \in Task
         /\ \A a \in 0..MaxTime : [t EXCEPT !.at = a] \in Task
         /\ \A ok \in BOOLEAN : [t EXCEPT !.answered = ok] \in Task
         /\ \A found \in SUBSET PatternNames : [t EXCEPT !.found = found] \in Task
         /\ \A v \in PatternNames \cup {None} : [t EXCEPT !.verdict = v] \in Task
         /\ \A w \in SUBSET Messages : [t EXCEPT !.sweep = w] \in Task
         /\ \A a \in Actions : [t EXCEPT !.action = a] \in Task
         /\ \A n \in Nat : [t EXCEPT !.xp = n] \in Task /\ [t EXCEPT !.nivel = n] \in Task
BY DEF Task

LEMMA TypesInit == Init => TypeOK
<1> SUFFICES ASSUME Init PROVE TypeOK OBVIOUS
<1>1. Unsent \in Task
  <2>1. (CHOOSE k \in Kinds : TRUE) \in Kinds BY AntiSpamAssumption
  <2> QED
    BY <2>1, MessageCreateAssumption DEF Unsent, Task, Stages, Actions, Sanctions
<1>2. task \in [Messages -> Task] BY <1>1 DEF Init
<1>3. xp \in Nat /\ nivel \in Nat
  BY MessageCreateAssumption, LevelExists DEF Init
<1>4. now \in 0..MaxTime /\ faults \in 0..MaxFaults /\ members = {}
  BY MessageCreateAssumption DEF Init, AntiSpamInit
<1> QED BY <1>2, <1>3, <1>4 DEF Init, TypeOK, Task

LEMMA FirstOfType ==
  ASSUME NEW found \in SUBSET PatternNames
  PROVE  /\ FirstOf(found) \in PatternNames \cup {None}
         /\ FirstOf(found) = None => found = {}
<1>1. CASE found = {} BY <1>1 DEF FirstOf
<1>2. CASE found # {}
  <2> DEFINE S == {i \in DOMAIN Patterns : Patterns[i] \in found}
  <2>1. S \subseteq Nat /\ S # {} BY <1>2 DEF PatternNames, Patterns
  <2>2. PICK i \in S : \A j \in S : i <= j BY <2>1, LeastNumber
  <2>3. \A j \in 1..(i - 1) : Patterns[j] \notin found
    <3> TAKE j \in 1..(i - 1)
    <3>1. i \in 1..9 BY DEF Patterns
    <3>2. j \in 1..9 /\ ~(i <= j) BY <3>1
    <3>3. j \in DOMAIN Patterns BY <3>2 DEF Patterns
    <3>4. j \notin S BY <2>2, <3>2
    <3> QED BY <3>3, <3>4
  <2>4. Patterns[CHOOSE l \in DOMAIN Patterns :
                  Patterns[l] \in found /\ \A j \in 1..(l - 1) : Patterns[j] \notin found]
          \in found
    BY <2>2, <2>3
  <2>5. FirstOf(found) \in found BY <1>2, <2>4 DEF FirstOf
  <2> QED BY <2>5, AntiSpamAssumption
<1> QED BY <1>1, <1>2

LEMMA FoundTypes ==
  ASSUME NEW k \in Kinds, NEW m, NEW at
  PROVE  /\ FoundAtOnce(k) \in SUBSET PatternNames
         /\ Enabled \cap {"caps"} \cap k.traits \in SUBSET PatternNames
         /\ FoundInWindows(m, k, at) \in SUBSET PatternNames
BY AntiSpamAssumption DEF FoundAtOnce, FoundInWindows, KeptIn

LEMMA RecordedIs ==
  ASSUME NEW m \in Messages, NEW k \in Kinds, now \in Nat
  PROVE  \A x \in Recorded(m, k) :
           \/ x \in members
           \/ \E p \in KeptIn(k) :
                x = [pattern |-> p, channel |-> ChannelOf(p, k), message |-> m, score |-> now]
BY DEF Recorded

\* A verdict is what leads to sanctions, and what leads to XP has none.
Verdicts == \A m \in Messages :
  /\ task[m].pc \in {"mark", "count", "record", "delete", "sanction", "case", "notify"}
       => task[m].verdict # None
  /\ task[m].pc \in {"unsent", "checks", "remember", "judge", "xp", "earn", "roles", "repost", "drop"}
       => task[m].verdict = None

LEMMA TypesStep == TypeOK /\ Verdicts /\ [Next]_vars => TypeOK'
<1> SUFFICES ASSUME TypeOK, Verdicts, [Next]_vars PROVE TypeOK' OBVIOUS
<1>0. task \in [Messages -> Task] /\ now \in Nat BY MessageCreateAssumption DEF TypeOK, Task
<1> DEFINE Rest ==
      /\ now \in 0..MaxTime /\ faults \in 0..MaxFaults
      /\ members \subseteq Members
      /\ history \subseteq Messages /\ timeouts \subseteq Messages /\ cases \subseteq Messages
      /\ visible \subseteq Messages /\ swept \subseteq Messages /\ reposted \subseteq Messages
      /\ xp \in Nat /\ nivel \in Nat /\ memberRoles \subseteq LevelRoles /\ earned \subseteq Messages
<1> USE DEF punishment, images, experience, valkey, Well, Fault, Goto, At
<1>r. Rest BY DEF TypeOK
<1>f. faults < MaxFaults => faults + 1 \in 0..MaxFaults BY MessageCreateAssumption DEF TypeOK
<1>w. ASSUME NEW m \in Messages, NEW r \in Task, task' = [task EXCEPT ![m] = r], Rest'
      PROVE  TypeOK'
  <2>1. task' \in [Messages -> Task] BY <1>0, <1>w
  <2> QED BY <1>w, <2>1 DEF TypeOK, Task
<1>g. ASSUME NEW m \in Messages, NEW l \in Stages, Goto(m, l), Rest' PROVE TypeOK'
  <2>1. [task[m] EXCEPT !.pc = l] \in Task BY <1>0 DEF Task
  <2> QED BY <1>g, <1>w, <2>1
<1>1. ASSUME NEW m \in Messages, NEW k \in Kinds, Arrive(m, k) PROVE TypeOK'
  <2>1. PICK l \in {"xp", "checks"} : task' = [task EXCEPT ![m].kind = k, ![m].pc = l]
    BY <1>1 DEF Arrive
  <2>2. [task[m] EXCEPT !.kind = k, !.pc = l] \in Task
    <3>1. [task[m] EXCEPT !.kind = k] \in Task BY <1>0, TaskFields
    <3>2. l \in Stages BY DEF Stages
    <3> QED BY <3>1, <3>2, TaskFields
  <2>3. task' = [task EXCEPT ![m] = [task[m] EXCEPT !.kind = k, !.pc = l]] BY <1>0, <2>1
  <2>4. Rest' BY <1>1, <1>r, <1>f DEF Arrive
  <2> QED BY <1>w, <2>2, <2>3, <2>4
<1>2. ASSUME NEW m \in Messages, StartChecks(m) PROVE TypeOK'
  <2> PICK k \in Kinds : k = task[m].kind BY <1>0 DEF Task
  <2>1. PICK found \in SUBSET PatternNames, ok \in BOOLEAN :
          task' = [task EXCEPT ![m].pc = "remember", ![m].at = now,
                                ![m].found = found, ![m].answered = ok]
    BY <1>2, FoundTypes DEF StartChecks
  <2>2. [task[m] EXCEPT !.pc = "remember", !.at = now, !.found = found, !.answered = ok] \in Task
    <3>0. "remember" \in Stages BY DEF Stages
    <3>1. [task[m] EXCEPT !.pc = "remember"] \in Task BY <1>0, <3>0, TaskFields
    <3>2. [task[m] EXCEPT !.pc = "remember", !.at = now] \in Task BY <3>1, <1>r, TaskFields
    <3>3. [task[m] EXCEPT !.pc = "remember", !.at = now, !.found = found] \in Task BY <3>2, <1>r, TaskFields
    <3> QED BY <3>3, <1>0, <1>r, TaskFields
  <2>3. task' = [task EXCEPT ![m] = [task[m] EXCEPT !.pc = "remember", !.at = now,
                                            !.found = found, !.answered = ok]]
    BY <1>0, <2>1
  <2>4. Recorded(m, k) \subseteq Members
    <3> SUFFICES ASSUME NEW x \in Recorded(m, k) PROVE x \in Members OBVIOUS
    <3>1. CASE x \in members BY <1>r, <3>1
    <3>2. ASSUME NEW p \in KeptIn(k),
                 x = [pattern |-> p, channel |-> ChannelOf(p, k), message |-> m, score |-> now]
          PROVE  x \in Members
      <4>1. p \in Windowed BY DEF KeptIn
      <4>2. ChannelOf(p, k) \in {j.channel : j \in Kinds} \cup {None} BY DEF ChannelOf
      <4> QED BY <1>0, <3>2, <4>1, <4>2 DEF Members
    <3> QED BY <1>0, <3>1, <3>2, RecordedIs
  <2>5. Rest' BY <1>2, <1>r, <1>f, <2>4 DEF StartChecks
  <2> QED BY <1>w, <2>2, <2>3, <2>5
<1>3. ASSUME NEW m \in Messages, Remember(m) \/ Mark(m) \/ CreateCase(m) \/ Notify(m) \/ NoImage(m)
      PROVE  TypeOK'
  <2>1. \E l \in Stages : Goto(m, l)
    BY <1>3 DEF Remember, Mark, CreateCase, Notify, NoImage, Stages
  <2>2. Rest' BY <1>3, <1>r, <1>f DEF Remember, Mark, CreateCase, Notify, NoImage
  <2> QED BY <1>g, <2>1, <2>2
<1>4. ASSUME NEW m \in Messages, Judge(m) PROVE TypeOK'
  <2> PICK k \in Kinds : k = task[m].kind BY <1>0 DEF Task
  <2>1. PICK found \in SUBSET PatternNames, ok \in BOOLEAN :
          task' = [task EXCEPT
                ![m].pc = IF FirstOf(found) = None THEN "xp" ELSE "mark",
                ![m].found = found, ![m].verdict = FirstOf(found), ![m].answered = @ /\ ok,
                ![m].sweep = IF FirstOf(found) \in Windowed
                             THEN InWindow(FirstOf(found), k, task[m].at) ELSE {m}]
    <3>1. task[m].found \in SUBSET PatternNames BY <1>0 DEF Task
    <3> QED BY <1>4, <3>1, FoundTypes DEF Judge
  <2> PICK v \in PatternNames \cup {None} : v = FirstOf(found) BY FirstOfType
  <2> PICK l \in Stages : l = IF v = None THEN "xp" ELSE "mark" BY DEF Stages
  <2> PICK w \in SUBSET Messages :
        w = IF v \in Windowed THEN InWindow(v, k, task[m].at) ELSE {m}
    BY <1>r DEF InWindow, Members
  <2> PICK a \in BOOLEAN : a = (task[m].answered /\ ok) OBVIOUS
  <2>2. [task[m] EXCEPT !.pc = l, !.found = found, !.verdict = v, !.answered = a, !.sweep = w]
          \in Task
    <3>1. [task[m] EXCEPT !.pc = l] \in Task BY <1>0, <1>r, TaskFields
    <3>2. [task[m] EXCEPT !.pc = l, !.found = found] \in Task BY <3>1, <1>r, TaskFields
    <3>3. [task[m] EXCEPT !.pc = l, !.found = found, !.verdict = v] \in Task BY <3>2, <1>r, TaskFields
    <3>4. [task[m] EXCEPT !.pc = l, !.found = found, !.verdict = v, !.answered = a] \in Task BY <3>3, <1>r, TaskFields
    <3> QED BY <3>4, <1>0, <1>r, TaskFields
  <2>3. task' = [task EXCEPT ![m] = [task[m] EXCEPT !.pc = l, !.found = found, !.verdict = v,
                                            !.answered = a, !.sweep = w]]
    BY <1>0, <2>1
  <2>4. Rest' BY <1>4, <1>r, <1>f DEF Judge
  <2> QED BY <1>w, <2>2, <2>3, <2>4
<1>a. \A v \in PatternNames : ActionFor[v] \in Actions /\ Escalated(ActionFor[v]) \in Actions
  BY MessageCreateAssumption DEF Escalated, Actions, Sanctions
<1>5. ASSUME NEW m \in Messages, CountHistory(m) PROVE TypeOK'
  <2>1. task[m].verdict \in PatternNames BY <1>0, <1>5 DEF Task, Verdicts, CountHistory
  <2>2. PICK l \in Stages, a \in Actions : task' = [task EXCEPT ![m].pc = l, ![m].action = a]
    BY <1>5, <1>a, <2>1 DEF CountHistory, Stages
  <2>3. [task[m] EXCEPT !.pc = l, !.action = a] \in Task
    <3>1. [task[m] EXCEPT !.pc = l] \in Task BY <1>0, <1>r, TaskFields
    <3> QED BY <3>1, <1>0, <1>r, TaskFields
  <2>4. task' = [task EXCEPT ![m] = [task[m] EXCEPT !.pc = l, !.action = a]] BY <1>0, <2>2
  <2>5. Rest' BY <1>5, <1>r, <1>f DEF CountHistory
  <2> QED BY <1>w, <2>3, <2>4, <2>5
<1>6. ASSUME NEW m \in Messages, RecordHistory(m) PROVE TypeOK'
  <2>1. task[m].verdict \in PatternNames BY <1>0, <1>6 DEF Task, Verdicts, RecordHistory
  <2>2. Rest' BY <1>6, <1>r, <1>f DEF RecordHistory
  <2>3. CASE Goto(m, "delete") BY <1>g, <2>2, <2>3 DEF Stages
  <2>4. CASE task' = [task EXCEPT ![m].pc = "delete", ![m].action = ActionFor[task[m].verdict]]
    <3>1. [task[m] EXCEPT !.pc = "delete", !.action = ActionFor[task[m].verdict]] \in Task
      <4>1. [task[m] EXCEPT !.pc = "delete"] \in Task BY <1>0, TaskFields DEF Stages
      <4> QED BY <4>1, <1>a, <2>1, TaskFields
    <3>2. task' = [task EXCEPT ![m] =
                     [task[m] EXCEPT !.pc = "delete", !.action = ActionFor[task[m].verdict]]]
      BY <1>0, <2>4
    <3> QED BY <1>w, <2>2, <3>1, <3>2
  <2> QED BY <1>6, <2>3, <2>4 DEF RecordHistory
<1>7. ASSUME NEW m \in Messages, Delete(m) \/ Sanction(m) PROVE TypeOK'
  <2>1. \E l \in Stages : Goto(m, l) BY <1>7 DEF Delete, Sanction, Stages
  <2>2. task[m].sweep \subseteq Messages BY <1>0 DEF Task
  <2>3. Rest' BY <1>7, <1>r, <1>f, <2>2 DEF Delete, Sanction
  <2> QED BY <1>g, <2>1, <2>3
<1>8. ASSUME NEW m \in Messages, ReadXp(m) PROVE TypeOK'
  <2>1. PICK l \in Stages : task' = [task EXCEPT ![m].pc = l, ![m].xp = xp, ![m].nivel = nivel]
    BY <1>8 DEF ReadXp, Stages
  <2>2. [task[m] EXCEPT !.pc = l, !.xp = xp, !.nivel = nivel] \in Task
    <3>1. [task[m] EXCEPT !.pc = l] \in Task BY <1>0, <1>r, TaskFields
    <3>2. [task[m] EXCEPT !.pc = l, !.xp = xp] \in Task BY <3>1, <1>r, TaskFields
    <3> QED BY <3>2, <1>0, <1>r, TaskFields
  <2>3. task' = [task EXCEPT ![m] = [task[m] EXCEPT !.pc = l, !.xp = xp, !.nivel = nivel]]
    BY <1>0, <2>1
  <2>4. Rest' BY <1>8, <1>r DEF ReadXp
  <2> QED BY <1>w, <2>2, <2>3, <2>4
<1>9. ASSUME NEW m \in Messages, Earn(m) PROVE TypeOK'
  <2>1. \E l \in Stages : Goto(m, l) BY <1>9 DEF Earn, Stages
  <2>2. xp + XpPerMessage \in Nat /\ task[m].xp + XpPerMessage \in Nat
    BY <1>0, <1>r, MessageCreateAssumption DEF Task
  <2>3. NewLevel(m) \in Nat BY <2>2, LevelExists DEF NewLevel
  <2>4. Rest'
    BY <1>9, <1>r, <1>f, <2>2, <2>3 DEF Earn, XpIncremented
  <2> QED BY <1>g, <2>1, <2>4
<1>10. ASSUME NEW m \in Messages, GiveRoles(m) \/ Repost(m) \/ Drop(m) PROVE TypeOK'
  <2>1. \E l \in Stages : Goto(m, l) BY <1>10 DEF GiveRoles, Repost, Drop, Stages
  <2>2. Rest' BY <1>10, <1>r, <1>f DEF GiveRoles, Repost, Drop
  <2> QED BY <1>g, <2>1, <2>2
<1>11. CASE Tick
  <2>1. Rest' BY <1>11, <1>r, <1>0, MessageCreateAssumption DEF Tick
  <2>2. task' = task BY <1>11 DEF Tick
  <2> QED BY <1>0, <2>1, <2>2 DEF TypeOK, Task
<1>12. CASE UNCHANGED vars BY <1>12 DEF vars, TypeOK
<1> QED
  BY <1>1, <1>2, <1>3, <1>4, <1>5, <1>6, <1>7, <1>8, <1>9, <1>10, <1>11, <1>12 DEF Next, Handle

\* A step of one message leaves the tasks of the others alone.
LEMMA OthersStay ==
  ASSUME TypeOK, NEW m \in Messages, Handle(m) \/ \E k \in Kinds : Arrive(m, k)
  PROVE  \A n \in Messages \ {m} : task'[n] = task[n]
<1> USE DEF TypeOK
<1>1. ASSUME NEW k \in Kinds, Arrive(m, k) PROVE \A n \in Messages \ {m} : task'[n] = task[n]
  BY <1>1 DEF Arrive
<1>2. ASSUME Remember(m) \/ Mark(m) \/ CreateCase(m) \/ Notify(m) \/ NoImage(m) \/ Delete(m)
               \/ Sanction(m) \/ Earn(m) \/ GiveRoles(m) \/ Repost(m) \/ Drop(m)
      PROVE  \A n \in Messages \ {m} : task'[n] = task[n]
  <2>1. PICK l : Goto(m, l)
    BY <1>2 DEF Remember, Mark, CreateCase, Notify, NoImage, Delete, Sanction, Earn, GiveRoles,
                Repost, Drop
  <2> QED BY <2>1 DEF Goto
<1>3. StartChecks(m) => \A n \in Messages \ {m} : task'[n] = task[n] BY DEF StartChecks
<1>4. Judge(m) => \A n \in Messages \ {m} : task'[n] = task[n] BY DEF Judge
<1>5. CountHistory(m) => \A n \in Messages \ {m} : task'[n] = task[n] BY DEF CountHistory
<1>6. RecordHistory(m) => \A n \in Messages \ {m} : task'[n] = task[n]
  BY DEF RecordHistory, Goto
<1>7. ReadXp(m) => \A n \in Messages \ {m} : task'[n] = task[n] BY DEF ReadXp
<1> QED BY <1>1, <1>2, <1>3, <1>4, <1>5, <1>6, <1>7 DEF Handle

\* What a step does to the task of its own message, by fields: what the check
\* of the message said, and what was read for its XP.
SameCheck(m) ==
  /\ task'[m].kind = task[m].kind /\ task'[m].at = task[m].at
  /\ task'[m].answered = task[m].answered /\ task'[m].verdict = task[m].verdict
SameXp(m) == task'[m].xp = task[m].xp /\ task'[m].nivel = task[m].nivel

LEMMA GotoStep ==
  ASSUME TypeOK, NEW m \in Messages, NEW l, Goto(m, l)
  PROVE  /\ task'[m].pc = l /\ task'[m].action = task[m].action
         /\ SameCheck(m) /\ SameXp(m)
<1>1. task \in [Messages -> Task] /\ task[m] \in Task BY DEF TypeOK, Task
<1>2. task'[m] = [task[m] EXCEPT !.pc = l] BY <1>1 DEF Goto
<1> QED BY <1>1, <1>2 DEF Task, SameCheck, SameXp

LEMMA ArriveStep ==
  ASSUME TypeOK, NEW m \in Messages, NEW k \in Kinds, Arrive(m, k)
  PROVE  /\ task[m].pc = "unsent" /\ task'[m].pc \in {"xp", "checks"}
         /\ task'[m].at = task[m].at /\ task'[m].answered = task[m].answered
         /\ task'[m].verdict = task[m].verdict /\ task'[m].action = task[m].action
         /\ SameXp(m)
<1>1. task \in [Messages -> Task] /\ task[m] \in Task BY DEF TypeOK, Task
<1>2. PICK l \in {"xp", "checks"} : task' = [task EXCEPT ![m].kind = k, ![m].pc = l]
  BY DEF Arrive
<1>3. task'[m] = [task[m] EXCEPT !.kind = k, !.pc = l] BY <1>1, <1>2
<1>4. task[m].pc = "unsent" BY DEF Arrive, At
<1> QED BY <1>1, <1>3, <1>4 DEF Task, SameXp

LEMMA StartStep ==
  ASSUME TypeOK, NEW m \in Messages, StartChecks(m)
  PROVE  /\ task[m].pc = "checks" /\ task'[m].pc = "remember"
         /\ task'[m].at = now /\ task'[m].kind = task[m].kind
         /\ task'[m].verdict = task[m].verdict /\ task'[m].action = task[m].action
         /\ SameXp(m)
<1>1. task \in [Messages -> Task] /\ task[m] \in Task BY DEF TypeOK, Task
<1>2. PICK found, ok : task' = [task EXCEPT ![m].pc = "remember", ![m].at = now,
                                            ![m].found = found, ![m].answered = ok]
  BY DEF StartChecks
<1>3. task'[m] = [task[m] EXCEPT !.pc = "remember", !.at = now,
                                 !.found = found, !.answered = ok]
  BY <1>1, <1>2
<1>4. task[m].pc = "checks" BY DEF StartChecks, At
<1> QED BY <1>1, <1>3, <1>4 DEF Task, SameXp

\* The message that is judged goes on with a verdict or without one.
LEMMA JudgeStep ==
  ASSUME TypeOK, NEW m \in Messages, Judge(m)
  PROVE  \E found \in SUBSET PatternNames, ok \in BOOLEAN :
           /\ task[m].pc = "judge"
           /\ task'[m].pc = IF FirstOf(found) = None THEN "xp" ELSE "mark"
           /\ task'[m].verdict = FirstOf(found)
           /\ task'[m].answered = (task[m].answered /\ ok)
           /\ task'[m].kind = task[m].kind /\ task'[m].at = task[m].at
           /\ task'[m].action = task[m].action /\ SameXp(m)
           /\ ok => FoundInWindows(m, task[m].kind, task[m].at) \subseteq found
<1>0. task \in [Messages -> Task] /\ task[m] \in Task BY DEF TypeOK, Task
<1>1. task[m].found \in SUBSET PatternNames /\ task[m].kind \in Kinds BY <1>0 DEF Task
<1>2. FoundInWindows(m, task[m].kind, task[m].at) \in SUBSET PatternNames BY <1>1, FoundTypes
<1> DEFINE all == task[m].found \cup FoundInWindows(m, task[m].kind, task[m].at)
           sweep(found) == IF FirstOf(found) \in Windowed
                           THEN InWindow(FirstOf(found), task[m].kind, task[m].at) ELSE {m}
<1> HIDE DEF all
<1>3. \E found \in {all, task[m].found}, ok \in BOOLEAN :
        /\ task'[m] = [task[m] EXCEPT !.pc = IF FirstOf(found) = None THEN "xp" ELSE "mark",
                          !.found = found, !.verdict = FirstOf(found),
                          !.answered = task[m].answered /\ ok, !.sweep = sweep(found)]
        /\ ok => found = all
  BY <1>0 DEF Judge, all
<1> HIDE DEF sweep
<1>4. all \in SUBSET PatternNames /\ FoundInWindows(m, task[m].kind, task[m].at) \subseteq all
  BY <1>1, <1>2 DEF all
<1>5. PICK found \in {all, task[m].found}, ok \in BOOLEAN :
        /\ task'[m] = [task[m] EXCEPT !.pc = IF FirstOf(found) = None THEN "xp" ELSE "mark",
                          !.found = found, !.verdict = FirstOf(found),
                          !.answered = task[m].answered /\ ok, !.sweep = sweep(found)]
        /\ ok => found = all
  BY <1>3
<1>6. /\ task'[m].pc = IF FirstOf(found) = None THEN "xp" ELSE "mark"
      /\ task'[m].verdict = FirstOf(found)
      /\ task'[m].answered = (task[m].answered /\ ok)
      /\ task'[m].kind = task[m].kind /\ task'[m].at = task[m].at
      /\ task'[m].action = task[m].action /\ SameXp(m)
  BY <1>0, <1>5 DEF Task, SameXp
<1>7. found \in SUBSET PatternNames BY <1>1, <1>4
<1>8. task[m].pc = "judge" BY DEF Judge, At
<1> QED BY <1>4, <1>5, <1>6, <1>7, <1>8

LEMMA CountStep ==
  ASSUME TypeOK, NEW m \in Messages, CountHistory(m)
  PROVE  /\ task[m].pc = "count" /\ SameCheck(m) /\ SameXp(m)
         /\ \/ task'[m].pc = "record" /\ Escalates(m)
            \/ /\ task'[m].pc \in {"record", "delete"}
               /\ task'[m].action = ActionFor[task[m].verdict]
<1>1. task \in [Messages -> Task] /\ task[m] \in Task BY DEF TypeOK, Task
<1> DEFINE configured == ActionFor[task[m].verdict]
           due == IF Escalates(m) THEN Escalated(configured) ELSE configured
<1>a. \/ task' = [task EXCEPT ![m].pc = "record", ![m].action = due]
      \/ task' = [task EXCEPT ![m].pc = "delete", ![m].action = configured]
  BY DEF CountHistory
<1>b. due = configured \/ Escalates(m) OBVIOUS
<1> HIDE DEF due
<1>2. ASSUME NEW l, NEW a, task' = [task EXCEPT ![m].pc = l, ![m].action = a]
      PROVE  /\ SameCheck(m) /\ SameXp(m)
             /\ task'[m].pc = l /\ task'[m].action = a
  <2>1. task'[m] = [task[m] EXCEPT !.pc = l, !.action = a] BY <1>1, <1>2
  <2> QED BY <1>1, <2>1 DEF Task, SameCheck, SameXp
<1>3. task[m].pc = "count" BY DEF CountHistory, At
<1>4. CASE task' = [task EXCEPT ![m].pc = "record", ![m].action = due]
  <2>1. /\ SameCheck(m) /\ SameXp(m)
        /\ task'[m].pc = "record" /\ task'[m].action = due
    BY <1>2, <1>4
  <2> QED BY <1>b, <1>3, <2>1
<1>5. CASE task' = [task EXCEPT ![m].pc = "delete", ![m].action = configured]
  <2>1. /\ SameCheck(m) /\ SameXp(m)
        /\ task'[m].pc = "delete" /\ task'[m].action = configured
    BY <1>2, <1>5
  <2> QED BY <1>3, <2>1
<1> QED BY <1>a, <1>4, <1>5

LEMMA RecordStep ==
  ASSUME TypeOK, NEW m \in Messages, RecordHistory(m)
  PROVE  /\ task[m].pc = "record" /\ task'[m].pc = "delete" /\ SameCheck(m) /\ SameXp(m)
         /\ task'[m].action \in {task[m].action, ActionFor[task[m].verdict]}
<1>1. task \in [Messages -> Task] /\ task[m] \in Task BY DEF TypeOK, Task
<1>2. task[m].pc = "record" BY DEF RecordHistory, At
<1>3. CASE Goto(m, "delete") BY <1>2, <1>3, GotoStep
<1>4. CASE task' = [task EXCEPT ![m].pc = "delete", ![m].action = ActionFor[task[m].verdict]]
  <2>1. task'[m] = [task[m] EXCEPT !.pc = "delete", !.action = ActionFor[task[m].verdict]]
    BY <1>1, <1>4
  <2> QED BY <1>1, <1>2, <2>1 DEF Task, SameCheck, SameXp
<1> QED BY <1>3, <1>4 DEF RecordHistory

LEMMA ReadStep ==
  ASSUME TypeOK, NEW m \in Messages, ReadXp(m)
  PROVE  /\ task[m].pc = "xp" /\ task'[m].pc \in {"done", "repost", "earn"}
         /\ SameCheck(m) /\ task'[m].action = task[m].action
         /\ task'[m].xp = xp /\ task'[m].nivel = nivel
<1>1. task \in [Messages -> Task] /\ task[m] \in Task BY DEF TypeOK, Task
<1>2. PICK l \in {"done", "repost", "earn"} :
        task' = [task EXCEPT ![m].pc = l, ![m].xp = xp, ![m].nivel = nivel]
  BY DEF ReadXp
<1>3. task'[m] = [task[m] EXCEPT !.pc = l, !.xp = xp, !.nivel = nivel] BY <1>1, <1>2
<1>4. task[m].pc = "xp" BY DEF ReadXp, At
<1> QED BY <1>1, <1>3, <1>4 DEF Task, SameCheck

\* The steps that only go on.
Walks(m) ==
  \/ Remember(m) \/ Mark(m) \/ Delete(m) \/ Sanction(m) \/ CreateCase(m) \/ Notify(m)
  \/ Earn(m) \/ GiveRoles(m) \/ Repost(m) \/ NoImage(m) \/ Drop(m)

LEMMA WalkStep ==
  ASSUME TypeOK, NEW m \in Messages, Walks(m)
  PROVE  /\ <<task[m].pc, task'[m].pc>> \in
              {<<"remember", "judge">>, <<"mark", "count">>, <<"delete", "sanction">>,
               <<"sanction", "case">>, <<"sanction", "notify">>, <<"case", "notify">>,
               <<"notify", "done">>, <<"earn", "roles">>, <<"earn", "repost">>,
               <<"roles", "repost">>, <<"repost", "done">>, <<"repost", "drop">>,
               <<"drop", "done">>}
         /\ SameCheck(m) /\ SameXp(m) /\ task'[m].action = task[m].action
<1>1. PICK l : Goto(m, l) /\ <<task[m].pc, l>> \in
              {<<"remember", "judge">>, <<"mark", "count">>, <<"delete", "sanction">>,
               <<"sanction", "case">>, <<"sanction", "notify">>, <<"case", "notify">>,
               <<"notify", "done">>, <<"earn", "roles">>, <<"earn", "repost">>,
               <<"roles", "repost">>, <<"repost", "done">>, <<"repost", "drop">>,
               <<"drop", "done">>}
  BY DEF Walks, Remember, Mark, CreateCase, Notify, NoImage, Delete, Sanction, Earn, GiveRoles,
         Repost, Drop, At
<1> QED BY <1>1, GotoStep

LEMMA VerdictsStep == TypeOK /\ Verdicts /\ [Next]_vars => Verdicts'
<1> SUFFICES ASSUME TypeOK, Verdicts, [Next]_vars PROVE Verdicts' OBVIOUS
<1> DEFINE Decided(pc, verdict) ==
      /\ pc \in {"mark", "count", "record", "delete", "sanction", "case", "notify"}
           => verdict # None
      /\ pc \in {"unsent", "checks", "remember", "judge", "xp", "earn", "roles", "repost", "drop"}
           => verdict = None
<1>1. ASSUME NEW m \in Messages, Handle(m) \/ \E k \in Kinds : Arrive(m, k),
             Decided(task'[m].pc, task'[m].verdict)
      PROVE  Verdicts'
  BY <1>1, OthersStay DEF Verdicts
<1>v. \A m \in Messages : Decided(task[m].pc, task[m].verdict) BY DEF Verdicts
<1>2. ASSUME NEW m \in Messages, NEW k \in Kinds, Arrive(m, k) PROVE Verdicts'
  <2>1. Decided(task'[m].pc, task'[m].verdict) BY <1>2, <1>v, ArriveStep
  <2> QED BY <1>1, <1>2, <2>1
<1>3. ASSUME NEW m \in Messages, Handle(m) PROVE Verdicts'
  <2>1. Judge(m) => Decided(task'[m].pc, task'[m].verdict) BY JudgeStep
  <2>2. StartChecks(m) => Decided(task'[m].pc, task'[m].verdict) BY <1>v, StartStep
  <2>3. CountHistory(m) => Decided(task'[m].pc, task'[m].verdict) BY <1>v, CountStep DEF SameCheck
  <2>4. RecordHistory(m) => Decided(task'[m].pc, task'[m].verdict)
    BY <1>v, RecordStep DEF SameCheck
  <2>5. ReadXp(m) => Decided(task'[m].pc, task'[m].verdict) BY <1>v, ReadStep DEF SameCheck
  <2>6. Walks(m) => Decided(task'[m].pc, task'[m].verdict) BY <1>v, WalkStep DEF SameCheck
  <2>7. Decided(task'[m].pc, task'[m].verdict)
    BY <1>3, <2>1, <2>2, <2>3, <2>4, <2>5, <2>6 DEF Handle, Walks
  <2> QED BY <1>1, <1>3, <2>7
<1>4. CASE Tick BY <1>4 DEF Tick, Verdicts
<1>5. CASE UNCHANGED vars BY <1>5 DEF vars, Verdicts
<1> QED BY <1>2, <1>3, <1>4, <1>5 DEF Next

\* The state is well typed, and a message is sanctioned with a verdict only.
THEOREM MessagesTyped == Spec => [](TypeOK /\ Verdicts)
<1>1. Init => TypeOK BY TypesInit
<1>2. Init => Verdicts BY DEF Init, Verdicts, Unsent
<1>3. TypeOK /\ Verdicts /\ [Next]_vars => (TypeOK /\ Verdicts)' BY TypesStep, VerdictsStep
<1> QED BY <1>1, <1>2, <1>3, PTL DEF Spec

\* Every step but the writing of a row leaves the history alone; every step
\* but the payment leaves the XP alone; and so on.
LEMMA WhoWrites ==
  ASSUME NEW m \in Messages, Handle(m) \/ \E k \in Kinds : Arrive(m, k)
  PROVE  /\ RecordHistory(m) \/ history' = history
         /\ Earn(m) \/ (xp' = xp /\ nivel' = nivel /\ earned' = earned)
         /\ GiveRoles(m) \/ memberRoles' = memberRoles
         /\ startXp' = startXp
         /\ StartChecks(m) \/ members' = members
         /\ now' = now
BY DEF Handle, Arrive, StartChecks, Remember, Judge, Mark, CountHistory, RecordHistory, Delete,
       Sanction, CreateCase, Notify, ReadXp, Earn, GiveRoles, Repost, NoImage, Drop,
       punishment, images, experience, valkey

-----------------------------------------------------------------------------
(* Escalation.                                                             *)

Early == {"unsent", "checks", "remember", "judge"}

\* The row of a message is the last thing its counting leads to: a message
\* that counts is not among those it counts, and the rows are never taken
\* back, so what was counted is still there besides its own.
HistInv ==
  /\ EscalatedAfterEnough
  /\ \A m \in Messages :
       task[m].pc \in Early \cup {"mark", "count", "record"} => m \notin history

\* EscalatedAfterEnough: however many messages are counted at once, one is
\* sanctioned more severely than configured only when EscalationCount others
\* have a row.
THEOREM EscalationEarned == Spec => []EscalatedAfterEnough
<1> DEFINE Raised(m) ==
      /\ task[m].pc \in {"record", "delete", "sanction", "case", "notify", "done"}
      /\ task[m].verdict # None /\ task[m].action # ActionFor[task[m].verdict]
<1>1. Init => HistInv BY DEF Init, HistInv, EscalatedAfterEnough, Unsent
<1>2. TypeOK /\ Verdicts /\ HistInv /\ [Next]_vars => HistInv'
  <2> SUFFICES ASSUME TypeOK, Verdicts, HistInv, [Next]_vars PROVE HistInv' OBVIOUS
  <2>f. IsFiniteSet(history)
    BY AntiSpamAssumption, FS_Subset DEF TypeOK
  <2>n. \A m \in Messages : Cardinality(history \ {m}) \in Nat
    BY <2>f, FS_Subset, FS_CardinalityType
  <2>g. ASSUME history' = history \/ \E m \in Messages : history' = history \cup {m}
        PROVE  \A m \in Messages : /\ Cardinality((history \ {m})') \in Nat
                                   /\ Cardinality(history \ {m}) <= Cardinality((history \ {m})')
    <3> SUFFICES ASSUME NEW m \in Messages
                 PROVE  /\ Cardinality((history \ {m})') \in Nat
                        /\ Cardinality(history \ {m}) <= Cardinality((history \ {m})')
      OBVIOUS
    <3>1. IsFiniteSet(history') BY <2>f, <2>g, FS_AddElement
    <3>2. IsFiniteSet(history' \ {m}) /\ history \ {m} \subseteq history' \ {m}
      BY <2>g, <3>1, FS_Subset
    <3> QED BY <3>2, FS_Subset, FS_CardinalityType
  <2>1. ASSUME NEW m \in Messages, Handle(m) \/ \E k \in Kinds : Arrive(m, k)
        PROVE  HistInv'
    <3>h. history' = history \/ (RecordHistory(m) /\ history' = history \cup {m})
      <4>1. RecordHistory(m) => history' = history \cup {m} \/ history' = history
        BY DEF RecordHistory
      <4> QED BY <2>1, <4>1, WhoWrites
    <3>o. \A n \in Messages \ {m} : task'[n] = task[n] BY <2>1, OthersStay
    <3>i. /\ EscalationCount \in Nat
          /\ \A n \in Messages : Raised(n) => Cardinality(history \ {n}) >= EscalationCount
      BY MessageCreateAssumption DEF HistInv, EscalatedAfterEnough
    <3>1. ASSUME NEW n \in Messages,
                 task'[n].pc \in Early \cup {"mark", "count", "record"}
          PROVE  n \notin history'
      <4>1. CASE n # m BY <3>h, <3>o, <3>1, <4>1 DEF HistInv
      <4>2. CASE n = m
        <5>1. \/ \E k \in Kinds : Arrive(m, k)
              \/ StartChecks(m) \/ Judge(m) \/ CountHistory(m) \/ RecordHistory(m) \/ ReadXp(m)
              \/ Walks(m)
          BY <2>1 DEF Handle, Walks
        <5>2. task[m].pc \in Early \cup {"mark", "count", "record"}
          BY <3>1, <4>2, <5>1, ArriveStep, StartStep, JudgeStep, CountStep, RecordStep, ReadStep,
             WalkStep DEF Early
        <5>3. ~RecordHistory(m) BY <3>1, <4>2, RecordStep DEF Early
        <5> QED BY <4>2, <5>2, <5>3, <3>h DEF HistInv
      <4> QED BY <4>1, <4>2
    <3>2. ASSUME NEW n \in Messages, Raised(n)'
          PROVE  Cardinality((history \ {n})') >= EscalationCount
      <4>1. CASE n # m
        <5>1. Raised(n) BY <3>o, <3>2, <4>1
        <5>2. Cardinality(history \ {n}) >= EscalationCount BY <3>i, <5>1
        <5>3. /\ Cardinality((history \ {n})') \in Nat
              /\ Cardinality(history \ {n}) <= Cardinality((history \ {n})')
          BY <2>g, <3>h
        <5> QED BY <2>n, <3>i, <5>2, <5>3
      <4>2. CASE n = m
        <5>1. Raised(m) => Cardinality((history \ {m})') >= EscalationCount
          <6>1. Raised(m) => Cardinality(history \ {m}) >= EscalationCount BY <3>i
          <6>2. /\ Cardinality((history \ {m})') \in Nat
                /\ Cardinality(history \ {m}) <= Cardinality((history \ {m})')
            BY <2>g, <3>h
          <6> QED BY <2>n, <3>i, <6>1, <6>2
        <5>2. ~ \E k \in Kinds : Arrive(m, k) BY <3>2, <4>2, ArriveStep
        <5>3. ~StartChecks(m) /\ ~Judge(m) BY <3>2, <4>2, StartStep, JudgeStep
        <5>4. ReadXp(m) => FALSE
          BY <3>2, <4>2, ReadStep DEF SameCheck, Verdicts
        <5>5. CountHistory(m) => Cardinality((history \ {m})') >= EscalationCount
          <6>1. ASSUME CountHistory(m) PROVE Cardinality((history \ {m})') >= EscalationCount
            <7>1. Escalates(m) BY <3>2, <4>2, <6>1, CountStep DEF SameCheck
            <7>2. history' = history BY <6>1 DEF CountHistory, punishment
            <7>3. history \ {m} = history
              BY <6>1, CountStep DEF HistInv
            <7> QED BY <7>1, <7>2, <7>3 DEF Escalates
          <6> QED BY <6>1
        <5>6. RecordHistory(m) => Raised(m) BY <3>2, <4>2, RecordStep DEF SameCheck
        <5>7. Walks(m) => Raised(m)
          BY <3>2, <4>2, WalkStep DEF SameCheck, Verdicts
        <5> QED BY <2>1, <4>2, <5>1, <5>2, <5>3, <5>4, <5>5, <5>6, <5>7 DEF Handle, Walks
      <4> QED BY <4>1, <4>2
    <3> QED BY <3>1, <3>2 DEF HistInv, EscalatedAfterEnough
  <2>2. CASE Tick
    BY <2>2 DEF Tick, HistInv, EscalatedAfterEnough, punishment
  <2>3. CASE UNCHANGED vars
    BY <2>3 DEF vars, HistInv, EscalatedAfterEnough, punishment
  <2> QED BY <2>1, <2>2, <2>3 DEF Next
<1>3. HistInv => EscalatedAfterEnough BY DEF HistInv
<1> QED BY <1>1, <1>2, <1>3, MessagesTyped, PTL DEF Spec

-----------------------------------------------------------------------------
(* XP and levels.                                                          *)

\* A message that has still to be paid has not been paid.
XpInv ==
  /\ XpCounted
  /\ startXp \in Nat
  /\ \A m \in Messages : task[m].pc \in Early \cup {"xp", "earn"} => m \notin earned

\* XpCounted: no payment is lost or made twice, however many messages read
\* the XP before any of them pays.
THEOREM XpNeverLost == Spec => []XpCounted
<1>1. Init => XpInv
  <2> SUFFICES ASSUME Init PROVE XpInv OBVIOUS
  <2>1. startXp \in Nat /\ xp = startXp /\ earned = {} BY MessageCreateAssumption DEF Init
  <2>2. XpCounted BY <2>1, FS_EmptySet, MessageCreateAssumption DEF XpCounted
  <2> QED BY <2>1, <2>2 DEF XpInv
<1>2. TypeOK /\ XpInv /\ [Next]_vars => XpInv'
  <2> SUFFICES ASSUME TypeOK, XpInv, [Next]_vars PROVE XpInv' OBVIOUS
  <2>1. ASSUME NEW m \in Messages, Handle(m) \/ \E k \in Kinds : Arrive(m, k)
        PROVE  XpInv'
    <3>o. \A n \in Messages \ {m} : task'[n] = task[n] BY <2>1, OthersStay
    <3>s. startXp' = startXp /\ startXp' \in Nat BY <2>1, WhoWrites DEF XpInv
    <3>1. CASE xp' = xp /\ earned' = earned
      <4>1. ASSUME task'[m].pc \in Early \cup {"xp", "earn"} PROVE m \notin earned
        <5>1. \/ \E k \in Kinds : Arrive(m, k)
              \/ StartChecks(m) \/ Judge(m) \/ CountHistory(m) \/ RecordHistory(m) \/ ReadXp(m)
              \/ Walks(m)
          BY <2>1 DEF Handle, Walks
        <5>2. task[m].pc \in Early \cup {"xp", "earn"}
          BY <4>1, <5>1, ArriveStep, StartStep, JudgeStep, CountStep, RecordStep, ReadStep,
             WalkStep DEF Early
        <5> QED BY <5>2 DEF XpInv
      <4> QED BY <3>o, <3>s, <3>1, <4>1 DEF XpInv, XpCounted
    <3>2. ASSUME Earn(m), xp' = xp + XpPerMessage, earned' = earned \cup {m} PROVE XpInv'
      <4>1. task[m].pc = "earn" /\ m \notin earned BY <3>2 DEF Earn, At, XpInv
      <4>2. IsFiniteSet(earned) BY AntiSpamAssumption, FS_Subset DEF TypeOK
      <4>3. Cardinality(earned') = Cardinality(earned) + 1 /\ Cardinality(earned) \in Nat
        BY <3>2, <4>1, <4>2, FS_AddElement, FS_CardinalityType
      <4>4. XpCounted'
        <5> PICK c \in Nat : c = Cardinality(earned) BY <4>3
        <5> PICK k \in Nat : k = XpPerMessage BY MessageCreateAssumption
        <5>1. k * (c + 1) = k * c + k OBVIOUS
        <5>2. xp = startXp + k * c /\ startXp \in Nat BY DEF XpInv, XpCounted
        <5>3. k * c \in Nat OBVIOUS
        <5>4. xp' = startXp + k * (c + 1) BY <3>2, <5>1, <5>2, <5>3
        <5> QED BY <3>s, <4>3, <5>4 DEF XpCounted
      <4>5. task'[m].pc \in {"roles", "repost"}
        BY <3>2, <4>1, WalkStep DEF Walks
      <4> QED BY <3>o, <3>s, <3>2, <4>4, <4>5 DEF XpInv, Early
    <3>3. \/ xp' = xp /\ earned' = earned
          \/ Earn(m) /\ xp' = xp + XpPerMessage /\ earned' = earned \cup {m}
      <4>1. Earn(m) => \/ xp' = xp /\ earned' = earned
                       \/ xp' = xp + XpPerMessage /\ earned' = earned \cup {m}
        BY DEF Earn, XpIncremented
      <4> QED BY <2>1, <4>1, WhoWrites
    <3> QED BY <3>1, <3>2, <3>3
  <2>2. CASE Tick BY <2>2 DEF Tick, XpInv, XpCounted, experience
  <2>3. CASE UNCHANGED vars BY <2>3 DEF vars, XpInv, XpCounted, experience
  <2> QED BY <2>1, <2>2, <2>3 DEF Next
<1>3. XpInv => XpCounted BY DEF XpInv
<1> QED BY <1>1, <1>2, <1>3, MessagesTyped, PTL DEF Spec

\* The XP a message has read was there, and still is: the row only grows.
LevelInv ==
  /\ LevelEarned
  /\ \A m \in Messages :
       /\ task[m].xp <= xp
       /\ task[m].pc = "roles" => task[m].xp + XpPerMessage <= xp

\* LevelEarned: levels and roles that are computed from XP that others have
\* meanwhile raised are never above what the row pays for.
THEOREM LevelsPaidFor == Spec => []LevelEarned
<1>p. XpPerMessage \in Nat \ {0} /\ LevelRoles \subseteq Nat BY MessageCreateAssumption
<1>1. Init => LevelInv
  <2> SUFFICES ASSUME Init PROVE LevelInv OBVIOUS
  <2>1. startXp \in Nat /\ xp = startXp /\ nivel = LevelOf(xp)
    BY MessageCreateAssumption DEF Init
  <2>2. nivel <= LevelOf(xp) BY <2>1, LevelExists
  <2>3. \A m \in Messages : task[m].pc = "unsent" /\ task[m].xp = 0 BY DEF Init, Unsent
  <2>4. \A l \in memberRoles : l <= LevelOf(xp) BY DEF Init
  <2> QED BY <2>1, <2>2, <2>3, <2>4 DEF LevelInv, LevelEarned
<1>2. TypeOK /\ LevelInv /\ [Next]_vars => LevelInv'
  <2> SUFFICES ASSUME TypeOK, LevelInv, [Next]_vars PROVE LevelInv' OBVIOUS
  <2>x. xp \in Nat /\ nivel \in Nat /\ memberRoles \subseteq Nat
    BY <1>p DEF TypeOK
  <2>t. \A m \in Messages : task[m].xp \in Nat BY DEF TypeOK
  <2>1. ASSUME NEW m \in Messages, Handle(m) \/ \E k \in Kinds : Arrive(m, k)
        PROVE  LevelInv'
    <3>o. \A n \in Messages \ {m} : task'[n] = task[n] BY <2>1, OthersStay
    <3>1. ASSUME Earn(m) PROVE LevelInv'
      <4>1. \/ xp' = xp /\ nivel' = nivel /\ task'[m].pc # "roles"
            \/ xp' = xp + XpPerMessage /\ nivel' = LevelOf(task[m].xp + XpPerMessage)
        <5>1. \/ xp' = xp /\ nivel' = nivel /\ Goto(m, "repost")
              \/ xp' = xp + XpPerMessage /\ nivel' = LevelOf(task[m].xp + XpPerMessage)
          BY <3>1 DEF Earn, XpIncremented, NewLevel
        <5> QED BY <5>1, GotoStep
      <4>2. task'[m].xp = task[m].xp BY <3>1, WalkStep DEF Walks, SameXp
      <4>3. memberRoles' = memberRoles BY <3>1 DEF Earn
      <4>4. CASE xp' = xp /\ nivel' = nivel /\ task'[m].pc # "roles"
        BY <3>o, <4>2, <4>3, <4>4 DEF LevelInv, LevelEarned
      <4>5. CASE xp' = xp + XpPerMessage /\ nivel' = LevelOf(task[m].xp + XpPerMessage)
        <5>1. task[m].xp + XpPerMessage <= xp' /\ xp <= xp' /\ xp' \in Nat
          BY <1>p, <2>x, <2>t, <4>5 DEF LevelInv
        <5>2. nivel' <= LevelOf(xp')
          BY <1>p, <2>t, <4>5, <5>1, LevelGrows
        <5>3. LevelOf(xp) <= LevelOf(xp') /\ LevelOf(xp) \in Nat /\ LevelOf(xp') \in Nat
          BY <2>x, <5>1, LevelGrows, LevelExists
        <5>4. \A l \in memberRoles' : l <= LevelOf(xp')
          <6> SUFFICES ASSUME NEW l \in memberRoles' PROVE l <= LevelOf(xp') OBVIOUS
          <6>1. l \in Nat /\ l <= LevelOf(xp) BY <2>x, <4>3 DEF LevelInv, LevelEarned
          <6> QED BY <5>3, <6>1
        <5>5. \A n \in Messages :
                /\ task'[n].xp <= xp'
                /\ task'[n].pc = "roles" => task'[n].xp + XpPerMessage <= xp'
          <6>1. \A n \in Messages \ {m} :
                  /\ task'[n].xp <= xp'
                  /\ task'[n].pc = "roles" => task'[n].xp + XpPerMessage <= xp'
            BY <1>p, <2>t, <2>x, <3>o, <5>1 DEF LevelInv
          <6>2. task'[m].xp <= xp' /\ task'[m].xp + XpPerMessage <= xp'
            BY <1>p, <2>t, <2>x, <4>2, <5>1
          <6> QED BY <6>1, <6>2
        <5> QED BY <5>2, <5>4, <5>5 DEF LevelInv, LevelEarned
      <4> QED BY <4>1, <4>4, <4>5
    <3>2. ASSUME xp' = xp /\ nivel' = nivel, ~Earn(m) PROVE LevelInv'
      <4>1. \/ \E k \in Kinds : Arrive(m, k)
            \/ StartChecks(m) \/ Judge(m) \/ CountHistory(m) \/ RecordHistory(m) \/ ReadXp(m)
            \/ Walks(m)
        BY <2>1 DEF Handle, Walks
      <4>2. task'[m].xp \in {xp, task[m].xp}
        BY <4>1, ArriveStep, StartStep, JudgeStep, CountStep, RecordStep, ReadStep, WalkStep
        DEF SameXp
      <4>3. task'[m].pc # "roles"
        <5>1. Walks(m) => task'[m].pc # "roles"
          <6>1. task[m].pc = "earn" /\ Walks(m) => Earn(m)
            BY DEF Walks, Remember, Mark, CreateCase, Notify, NoImage, Delete, Sanction,
                   GiveRoles, Repost, Drop, At
          <6> QED BY <3>2, <6>1, WalkStep
        <5> QED
          BY <4>1, <5>1, ArriveStep, StartStep, JudgeStep, CountStep, RecordStep, ReadStep
      <4>4. \A n \in Messages :
              /\ task'[n].xp <= xp'
              /\ task'[n].pc = "roles" => task'[n].xp + XpPerMessage <= xp'
        BY <2>x, <3>o, <3>2, <4>2, <4>3 DEF LevelInv
      <4>5. \A l \in memberRoles' : l <= LevelOf(xp)
        <5>1. ASSUME GiveRoles(m), NEW l \in LevelRoles, l <= NewLevel(m) PROVE l <= LevelOf(xp)
          <6>1. task[m].xp + XpPerMessage <= xp BY <5>1 DEF GiveRoles, At, LevelInv
          <6>2. NewLevel(m) <= LevelOf(xp)
            BY <1>p, <2>t, <2>x, <6>1, LevelGrows DEF NewLevel
          <6>3. NewLevel(m) \in Nat /\ LevelOf(xp) \in Nat /\ l \in Nat
            BY <1>p, <2>t, <2>x, LevelExists DEF NewLevel
          <6> QED BY <5>1, <6>2, <6>3
        <5>2. GiveRoles(m) =>
                memberRoles' \subseteq memberRoles \cup {l \in LevelRoles : l <= NewLevel(m)}
          BY DEF GiveRoles
        <5>3. CASE memberRoles' = memberRoles BY <5>3 DEF LevelInv, LevelEarned
        <5>4. CASE GiveRoles(m) BY <5>1, <5>2, <5>4 DEF LevelInv, LevelEarned
        <5> QED BY <2>1, <5>3, <5>4, WhoWrites
      <4> QED BY <3>2, <4>4, <4>5 DEF LevelInv, LevelEarned
    <3> QED BY <2>1, <3>1, <3>2, WhoWrites
  <2>2. CASE Tick BY <2>2 DEF Tick, LevelInv, LevelEarned, experience
  <2>3. CASE UNCHANGED vars BY <2>3 DEF vars, LevelInv, LevelEarned, experience
  <2> QED BY <2>1, <2>2, <2>3 DEF Next
<1>3. LevelInv => LevelEarned BY DEF LevelInv
<1> QED BY <1>1, <1>2, <1>3, MessagesTyped, PTL DEF Spec

-----------------------------------------------------------------------------
(* Images.                                                                 *)

\* What is about to be deleted has been posted again.
ImageInv ==
  /\ ImageKept
  /\ \A m \in Messages : task[m].pc = "drop" => m \in reposted

\* ImageKept: no message disappears but by a sweep or after its copy was
\* sent, whatever fails in between.
THEOREM ImagesStay == Spec => []ImageKept
<1>1. Init => ImageInv BY DEF Init, ImageInv, ImageKept, Unsent
<1>2. TypeOK /\ ImageInv /\ [Next]_vars => ImageInv'
  <2> SUFFICES ASSUME TypeOK, ImageInv, [Next]_vars PROVE ImageInv' OBVIOUS
  <2>1. ASSUME NEW m \in Messages, Handle(m) \/ \E k \in Kinds : Arrive(m, k)
        PROVE  ImageInv'
    <3>o. \A n \in Messages \ {m} : task'[n] = task[n] BY <2>1, OthersStay
    <3>1. /\ reposted \subseteq reposted'
          /\ \A n \in Messages \ {m} :
               n \in visible \cup reposted \cup swept => n \in visible' \cup reposted' \cup swept'
          /\ m \in visible \cup reposted \cup swept \/ (\E k \in Kinds : Arrive(m, k))
               => m \in visible' \cup reposted' \cup swept'
          /\ task'[m].pc = "drop" => m \in reposted'
      <4>1. ASSUME NEW k \in Kinds, Arrive(m, k)
            PROVE  /\ reposted' = reposted /\ swept' = swept /\ visible' = visible \cup {m}
                   /\ task'[m].pc # "drop"
        BY <4>1, ArriveStep DEF Arrive, punishment
      <4>2. ASSUME Delete(m)
            PROVE  /\ reposted' = reposted /\ visible \cup swept \subseteq visible' \cup swept'
                   /\ task'[m].pc # "drop" /\ task[m].pc # "unsent"
        <5>1. task'[m].pc # "drop" /\ task[m].pc # "unsent"
          BY <4>2, WalkStep DEF Walks, Delete, At
        <5> QED BY <4>2, <5>1 DEF Delete, images
      <4>3. ASSUME Repost(m)
            PROVE  /\ visible' = visible /\ swept' = swept /\ reposted \subseteq reposted'
                   /\ task'[m].pc = "drop" => m \in reposted'
                   /\ task[m].pc # "unsent"
        <5>1. \/ Goto(m, "drop") /\ reposted' = reposted \cup {m}
              \/ Goto(m, "done") /\ reposted' = reposted
          BY <4>3 DEF Repost
        <5> QED BY <4>3, <5>1, GotoStep DEF Repost, punishment, At
      <4>4. ASSUME Drop(m)
            PROVE  /\ visible \subseteq visible' \cup {m} /\ swept' = swept
                   /\ reposted' = reposted /\ m \in reposted
                   /\ task'[m].pc # "drop" /\ task[m].pc # "unsent"
        BY <4>4, GotoStep DEF Drop, At, ImageInv, punishment
      <4>5. ASSUME Handle(m), ~Delete(m), ~Repost(m), ~Drop(m)
            PROVE  /\ visible' = visible /\ swept' = swept /\ reposted' = reposted
                   /\ task'[m].pc # "drop" /\ task[m].pc # "unsent"
        <5>1. visible' = visible /\ swept' = swept /\ reposted' = reposted
          BY <4>5 DEF Handle, StartChecks, Remember, Judge, Mark, CountHistory, RecordHistory,
                      Sanction, CreateCase, Notify, ReadXp, Earn, GiveRoles, NoImage,
                      punishment, images
        <5>2. Walks(m) => task'[m].pc # "drop" /\ task[m].pc # "unsent"
          <6>1. Walks(m) => \/ Remember(m) \/ Mark(m) \/ Sanction(m) \/ CreateCase(m)
                            \/ Notify(m) \/ Earn(m) \/ GiveRoles(m) \/ NoImage(m)
            BY <4>5 DEF Walks
          <6>2. Walks(m) => \E l : l # "drop" /\ Goto(m, l) /\ task[m].pc # "unsent"
            BY <6>1 DEF Remember, Mark, Sanction, CreateCase, Notify, Earn, GiveRoles, NoImage, At
          <6> QED BY <6>2, GotoStep
        <5> QED
          BY <4>5, <5>1, <5>2, StartStep, JudgeStep, CountStep, RecordStep, ReadStep
          DEF Handle, Walks
      <4> QED BY <2>1, <4>1, <4>2, <4>3, <4>4, <4>5
    <3>2. task[m].pc = "unsent" => \E k \in Kinds : Arrive(m, k)
      BY <2>1 DEF Handle, StartChecks, Remember, Judge, Mark, CountHistory, RecordHistory, Delete,
                  Sanction, CreateCase, Notify, ReadXp, Earn, GiveRoles, Repost, NoImage, Drop, At
    <3> QED BY <3>o, <3>1, <3>2 DEF ImageInv, ImageKept
  <2>2. CASE Tick BY <2>2 DEF Tick, ImageInv, ImageKept, images, punishment
  <2>3. CASE UNCHANGED vars BY <2>3 DEF vars, ImageInv, ImageKept, images, punishment
  <2> QED BY <2>1, <2>2, <2>3 DEF Next
<1>3. ImageInv => ImageKept BY DEF ImageInv
<1> QED BY <1>1, <1>2, <1>3, MessagesTyped, PTL DEF Spec

-----------------------------------------------------------------------------
(* Floods.                                                                 *)

\* An entry of a sorted set is of a message whose check has begun, at the
\* time it began, under the keys of what the message is.
Entries ==
  /\ \A m \in Messages : task[m].at <= now
  /\ \A x \in members :
       /\ task[x.message].pc \notin {"unsent", "checks"}
       /\ x.score = task[x.message].at
       /\ x.pattern \in KeptIn(task[x.message].kind)
       /\ x.channel = ChannelOf(x.pattern, task[x.message].kind)

Quiet(m) == Judged(m) /\ task[m].answered /\ task[m].verdict = None

\* The entries in the window that ends at t which the last message of that
\* time to be judged has seen, if that message was found to be no spam.
Seen(p, c, t) ==
  {m \in Messages : \E x \in members :
     /\ x.pattern = p /\ x.channel = c /\ x.message = m
     /\ x.score \in (t - Window[p])..t
     /\ x.score = t => Quiet(m)}

Channels == {k.channel : k \in Kinds} \cup {None}

\* What the message that is judged last has let pass is below the limit.
FloodInv ==
  \A p \in Windowed \cap Enabled, c \in Channels, t \in 0..MaxTime :
    (\E m \in Seen(p, c, t) : task[m].at = t) => Cardinality(Seen(p, c, t)) < Limit[p]

LEMMA EntriesStep == TypeOK /\ Entries /\ [Next]_vars => Entries'
<1> SUFFICES ASSUME TypeOK, Entries, [Next]_vars PROVE Entries' OBVIOUS
<1>n. now \in Nat /\ \A m \in Messages : task[m].at \in Nat
  BY MessageCreateAssumption DEF TypeOK
<1>x. \A x \in members : x.message \in Messages BY DEF TypeOK, Members
<1>1. ASSUME NEW m \in Messages, NEW k \in Kinds, Arrive(m, k) PROVE Entries'
  <2>1. members' = members /\ now' = now BY <1>1 DEF Arrive, valkey
  <2>2. \A x \in members : x.message # m BY <1>1, ArriveStep DEF Entries
  <2>3. \A n \in Messages \ {m} : task'[n] = task[n] BY <1>1, OthersStay
  <2>4. task'[m].at = task[m].at BY <1>1, ArriveStep
  <2> QED BY <1>x, <2>1, <2>2, <2>3, <2>4 DEF Entries
<1>2. ASSUME NEW m \in Messages, StartChecks(m) PROVE Entries'
  <2>1. now' = now /\ (members' = members \/ members' = Recorded(m, task[m].kind))
    BY <1>2 DEF StartChecks
  <2>2. \A x \in members : x.message # m BY <1>2, StartStep DEF Entries
  <2>3. \A n \in Messages \ {m} : task'[n] = task[n] BY <1>2, OthersStay DEF Handle
  <2>4. task'[m].at = now /\ task'[m].pc = "remember" /\ task'[m].kind = task[m].kind
    BY <1>2, StartStep
  <2>k. task[m].kind \in Kinds BY DEF TypeOK
  <2>5. ASSUME NEW x \in members'
        PROVE  /\ task'[x.message].pc \notin {"unsent", "checks"}
               /\ x.score = task'[x.message].at
               /\ x.pattern \in KeptIn(task'[x.message].kind)
               /\ x.channel = ChannelOf(x.pattern, task'[x.message].kind)
    <3>1. CASE x \in members BY <1>x, <2>2, <2>3, <3>1 DEF Entries
    <3>2. CASE x \notin members
      <4>1. PICK p \in KeptIn(task[m].kind) :
              x = [pattern |-> p, channel |-> ChannelOf(p, task[m].kind), message |-> m,
                   score |-> now]
        BY <1>n, <2>1, <2>5, <2>k, <3>2, RecordedIs
      <4> QED BY <2>4, <4>1
    <3> QED BY <3>1, <3>2
  <2>6. \A n \in Messages : task'[n].at <= now' BY <1>n, <2>1, <2>3, <2>4 DEF Entries
  <2> QED BY <2>5, <2>6 DEF Entries, KeptIn, Counts, ChannelOf
<1>3. ASSUME NEW m \in Messages, Handle(m), ~StartChecks(m) PROVE Entries'
  <2>1. members' = members /\ now' = now BY <1>3, WhoWrites
  <2>3. \A n \in Messages \ {m} : task'[n] = task[n] BY <1>3, OthersStay
  <2>4. /\ task'[m].at = task[m].at /\ task'[m].kind = task[m].kind
        /\ task'[m].pc \notin {"unsent", "checks"}
    BY <1>3, JudgeStep, CountStep, RecordStep, ReadStep, WalkStep DEF SameCheck, Handle, Walks
  <2> QED BY <1>x, <2>1, <2>3, <2>4 DEF Entries
<1>4. CASE Tick
  <2>1. now' = now + 1 /\ members' = members /\ task' = task BY <1>4 DEF Tick, valkey
  <2>2. \A m \in Messages : task'[m].at <= now' BY <1>n, <2>1 DEF Entries
  <2> QED BY <2>1, <2>2 DEF Entries
<1>5. CASE UNCHANGED vars BY <1>5 DEF vars, Entries, valkey
<1> QED BY <1>1, <1>2, <1>3, <1>4, <1>5 DEF Next

LEMMA FloodStep == TypeOK /\ Entries /\ FloodInv /\ [Next]_vars => FloodInv'
<1> SUFFICES ASSUME TypeOK, Entries, FloodInv, [Next]_vars,
                    NEW p \in Windowed \cap Enabled, NEW c \in Channels, NEW t \in 0..MaxTime,
                    NEW last \in Seen(p, c, t)', task'[last].at = t
             PROVE  Cardinality(Seen(p, c, t)') < Limit[p]
  BY DEF FloodInv
<1>n. /\ now \in Nat /\ t \in Nat /\ \A m \in Messages : task[m].at \in Nat
      /\ Limit[p] \in Nat
  BY MessageCreateAssumption, AntiSpamAssumption DEF TypeOK
<1>x. \A x \in members : x.message \in Messages BY DEF TypeOK, Members
<1>f. IsFiniteSet(Messages) BY AntiSpamAssumption
<1>s. Seen(p, c, t) \subseteq Messages /\ Seen(p, c, t)' \subseteq Messages BY DEF Seen
\* It is enough that nothing has come to be seen.
<1>w. ASSUME Seen(p, c, t)' \subseteq Seen(p, c, t), task[last].at = t
      PROVE  Cardinality(Seen(p, c, t)') < Limit[p]
  <2>1. Cardinality(Seen(p, c, t)) < Limit[p] BY <1>w DEF FloodInv
  <2>2. IsFiniteSet(Seen(p, c, t)) BY <1>f, <1>s, FS_Subset
  <2>3. /\ Cardinality(Seen(p, c, t)') <= Cardinality(Seen(p, c, t))
        /\ Cardinality(Seen(p, c, t)') \in Nat /\ Cardinality(Seen(p, c, t)) \in Nat
    BY <1>w, <2>2, FS_Subset, FS_CardinalityType
  <2> QED BY <1>n, <2>1, <2>3
<1>1. ASSUME NEW m \in Messages, Handle(m) \/ \E k \in Kinds : Arrive(m, k)
      PROVE  Cardinality(Seen(p, c, t)') < Limit[p]
  <2>o. \A n \in Messages \ {m} : task'[n] = task[n] BY <1>1, OthersStay
  <2>q. \A n \in Messages \ {m} : Quiet(n)' <=> Quiet(n) BY <2>o DEF Quiet, Judged
  \* The entries of the others are in no other light than before.
  <2>k. ASSUME NEW n \in Seen(p, c, t)', n # m,
               \A x \in members' : x.message = n => x \in members
        PROVE  n \in Seen(p, c, t)
    BY <1>s, <2>q, <2>k DEF Seen
  <2>1. CASE \E k \in Kinds : Arrive(m, k)
    <3>1. members' = members /\ \A x \in members : x.message # m
      BY <2>1, ArriveStep DEF Arrive, valkey, Entries
    <3>2. \A n \in Seen(p, c, t)' : n # m BY <3>1 DEF Seen
    <3>3. Seen(p, c, t)' \subseteq Seen(p, c, t) BY <2>k, <3>1, <3>2
    <3>4. task[last].at = t BY <1>s, <2>o, <3>2
    <3> QED BY <1>w, <3>3, <3>4
  <2>2. CASE StartChecks(m)
    <3>k. task[m].kind \in Kinds BY DEF TypeOK
    <3>1. members' = members \/ members' = Recorded(m, task[m].kind)
      BY <2>2 DEF StartChecks
    <3>2. \A x \in members' : x \in members \/ (x.message = m /\ x.score = now)
      BY <1>n, <3>1, <3>k, RecordedIs
    <3>3. \A x \in members : x.message # m BY <2>2, StartStep DEF Entries
    <3>4. task'[m].at = now /\ ~Quiet(m)' BY <2>2, StartStep DEF Quiet, Judged
    <3>5. task'[last].at <= now BY <1>s, <2>o, <3>4, <1>n DEF Entries
    <3>6. m \notin Seen(p, c, t)'
      <4> SUFFICES ASSUME m \in Seen(p, c, t)' PROVE FALSE OBVIOUS
      <4>1. PICK x \in members' : /\ x.message = m
                                  /\ x.score \in (t - Window[p])..t
                                  /\ x.score = t => Quiet(m)'
        BY DEF Seen
      <4>2. x.score = now BY <3>2, <3>3, <4>1
      <4>3. now <= t BY <4>1, <4>2
      <4>4. now # t BY <3>4, <4>1, <4>2
      <4> QED BY <1>n, <3>5, <4>3, <4>4
    <3>7. Seen(p, c, t)' \subseteq Seen(p, c, t) BY <2>k, <3>2, <3>6
    <3>8. task[last].at = t BY <1>s, <2>o, <3>6
    <3> QED BY <1>w, <3>7, <3>8
  <2>3. ASSUME Handle(m), ~StartChecks(m), Seen(p, c, t)' \subseteq Seen(p, c, t)
        PROVE  Cardinality(Seen(p, c, t)') < Limit[p]
    <3>1. task'[m].at = task[m].at
      BY <2>3, JudgeStep, CountStep, RecordStep, ReadStep, WalkStep DEF SameCheck, Handle, Walks
    <3> QED BY <1>w, <1>s, <2>3, <2>o, <3>1
  <2>4. CASE Handle(m) /\ ~StartChecks(m) /\ ~Judge(m)
    <3>1. members' = members BY <2>4, WhoWrites
    <3>2. Quiet(m)' <=> Quiet(m)
      BY <2>4, CountStep, RecordStep, ReadStep, WalkStep
      DEF SameCheck, Handle, Walks, Quiet, Judged
    <3>3. Seen(p, c, t)' \subseteq Seen(p, c, t) BY <2>q, <3>1, <3>2 DEF Seen
    <3> QED BY <2>3, <2>4, <3>3
  <2>5. CASE Judge(m)
    <3>0. members' = members /\ Handle(m) /\ ~StartChecks(m)
      BY <2>5, JudgeStep, StartStep DEF Judge, valkey, Handle
    <3> PICK k \in Kinds : k = task[m].kind BY DEF TypeOK
    <3> PICK at \in Nat : at = task[m].at BY <1>n
    <3>1. CASE Quiet(m)' /\ at = t /\ p \in KeptIn(k) /\ c = ChannelOf(p, k)
      <4>1. PICK found \in SUBSET PatternNames, ok \in BOOLEAN :
              /\ task'[m].verdict = FirstOf(found)
              /\ task'[m].answered = (task[m].answered /\ ok)
              /\ ok => FoundInWindows(m, k, at) \subseteq found
        BY <2>5, JudgeStep
      <4>2. found = {} /\ ok BY <3>1, <4>1, FirstOfType DEF Quiet
      <4>3. ~(Cardinality(InWindow(p, k, at)) >= Limit[p])
        BY <3>1, <4>1, <4>2 DEF FoundInWindows
      <4>4. InWindow(p, k, at) \subseteq Messages BY <1>x DEF InWindow
      <4>5. IsFiniteSet(InWindow(p, k, at)) BY <1>f, <4>4, FS_Subset
      <4>6. Seen(p, c, t)' \subseteq InWindow(p, k, at)
        BY <3>0, <3>1 DEF Seen, InWindow
      <4>7. /\ Cardinality(Seen(p, c, t)') <= Cardinality(InWindow(p, k, at))
            /\ Cardinality(Seen(p, c, t)') \in Nat
            /\ Cardinality(InWindow(p, k, at)) \in Nat
        BY <4>5, <4>6, FS_Subset, FS_CardinalityType
      <4> QED BY <1>n, <4>3, <4>7
    <3>2. CASE ~(Quiet(m)' /\ at = t /\ p \in KeptIn(k) /\ c = ChannelOf(p, k))
      <4>1. \A n \in Seen(p, c, t)' : n # m => n \in Seen(p, c, t)
        BY <2>k, <3>0
      <4>2. m \in Seen(p, c, t)' => m \in Seen(p, c, t)
        <5> SUFFICES ASSUME m \in Seen(p, c, t)' PROVE m \in Seen(p, c, t) OBVIOUS
        <5>1. PICK x \in members : /\ x.pattern = p /\ x.channel = c /\ x.message = m
                                   /\ x.score \in (t - Window[p])..t
                                   /\ x.score = t => Quiet(m)'
          BY <3>0 DEF Seen
        <5>2. x.score = at /\ p \in KeptIn(k) /\ c = ChannelOf(p, k) BY <5>1 DEF Entries
        <5>3. x.score # t BY <3>2, <5>1, <5>2
        <5> QED BY <5>1, <5>3 DEF Seen
      <4> QED BY <2>3, <3>0, <4>1, <4>2
    <3> QED BY <3>1, <3>2
  <2> QED BY <1>1, <2>1, <2>2, <2>4, <2>5
<1>2. CASE Tick \/ UNCHANGED vars
  <2>1. members' = members /\ task' = task BY <1>2 DEF Tick, vars, valkey
  <2>2. Seen(p, c, t)' = Seen(p, c, t) BY <2>1 DEF Seen, Quiet, Judged
  <2> QED BY <1>w, <2>1, <2>2
<1> QED BY <1>1, <1>2 DEF Next

\* FloodCaught: of enough messages within one window one is found to be
\* spam, in whatever order the checks of the messages write and read.
THEOREM FloodsCaught == Spec => []FloodCaught
<1>1. Init => Entries /\ FloodInv
  <2> SUFFICES ASSUME Init PROVE Entries /\ FloodInv OBVIOUS
  <2>1. members = {} /\ \A m \in Messages : task[m].at = 0 /\ now = 0
    BY DEF Init, AntiSpamInit, Unsent
  <2>2. \A m \in Messages : task[m].at <= now BY <2>1
  <2> QED BY <2>1, <2>2 DEF Entries, FloodInv, Seen
<1>2. TypeOK /\ Entries /\ FloodInv /\ [Next]_vars => (Entries /\ FloodInv)'
  BY EntriesStep, FloodStep
<1>3. TypeOK /\ Entries /\ FloodInv => FloodCaught
  <2> SUFFICES ASSUME TypeOK, Entries, FloodInv,
                      NEW p \in Windowed \cap Enabled,
                      NEW flood \in SUBSET {m \in Messages : Judged(m)},
                      Cardinality(flood) >= Limit[p],
                      \A m \in flood :
                        /\ \E x \in members : x.pattern = p /\ x.message = m
                        /\ task[m].answered
                        /\ \A n \in flood : ChannelOf(p, task[n].kind) = ChannelOf(p, task[m].kind)
                        /\ \A x \in members : x.score - task[m].at < Window[p],
                      \A m \in flood : task[m].verdict = None
               PROVE  FALSE
    BY DEF FloodCaught
  <2>n. /\ \A m \in Messages : task[m].at \in 0..MaxTime /\ task[m].kind \in Kinds
        /\ MaxTime \in Nat
        /\ Limit[p] \in Nat \ {0} /\ Window[p] \in Nat
    BY MessageCreateAssumption, AntiSpamAssumption
    DEF TypeOK, Windowed, PatternNames, Patterns, Counted
  <2>m. flood \subseteq Messages /\ IsFiniteSet(flood)
    BY AntiSpamAssumption, FS_Subset
  <2>1. flood # {} BY <2>n, FS_EmptySet
  <2>2. PICK last \in flood : \A m \in flood : task[m].at <= task[last].at
    <3> DEFINE T == {MaxTime - task[m].at : m \in flood}
    <3>1. T \subseteq Nat /\ T # {} BY <2>n, <2>m, <2>1
    <3>2. PICK d \in T : \A e \in T : d <= e BY <3>1, LeastNumber
    <3>3. PICK last \in flood : d = MaxTime - task[last].at OBVIOUS
    <3>4. \A m \in flood : MaxTime - task[last].at <= MaxTime - task[m].at BY <3>2, <3>3
    <3> QED BY <2>n, <2>m, <3>4
  <2> PICK t \in 0..MaxTime : t = task[last].at BY <2>n, <2>m
  <2> PICK c \in Channels : c = ChannelOf(p, task[last].kind)
    BY <2>n, <2>m DEF Channels, ChannelOf
  <2>3. flood \subseteq Seen(p, c, t)
    <3> SUFFICES ASSUME NEW m \in flood PROVE m \in Seen(p, c, t) OBVIOUS
    <3>1. PICK x \in members : x.pattern = p /\ x.message = m OBVIOUS
    <3>2. x.score = task[m].at /\ x.channel = c BY <3>1, <2>m DEF Entries
    <3>3. PICK y \in members : y.pattern = p /\ y.message = last OBVIOUS
    <3>4. y.score = t BY <3>3 DEF Entries
    <3>5. t - task[m].at < Window[p] BY <3>4
    <3>6. x.score \in (t - Window[p])..t
      <4> PICK a \in Nat : a = task[m].at BY <2>n, <2>m
      <4> PICK w \in Nat : w = Window[p] BY <2>n
      <4>1. a <= t /\ t - a < w BY <2>2, <3>5
      <4>2. a \in (t - w)..t BY <4>1
      <4> QED BY <3>2, <4>2
    <3>7. Quiet(m) BY DEF Quiet
    <3> QED BY <2>m, <3>1, <3>2, <3>6, <3>7 DEF Seen
  <2>4. Seen(p, c, t) \subseteq Messages BY DEF Seen
  <2>5. IsFiniteSet(Seen(p, c, t)) BY <2>4, AntiSpamAssumption, FS_Subset
  <2>6. /\ Cardinality(flood) <= Cardinality(Seen(p, c, t))
        /\ Cardinality(flood) \in Nat /\ Cardinality(Seen(p, c, t)) \in Nat
    BY <2>3, <2>5, <2>m, FS_Subset, FS_CardinalityType
  <2>7. Cardinality(Seen(p, c, t)) < Limit[p] BY <2>3 DEF FloodInv
  <2> QED BY <2>6, <2>7, <2>n
<1> QED BY <1>1, <1>2, <1>3, MessagesTyped, PTL DEF Spec
=============================================================================
