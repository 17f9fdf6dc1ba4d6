---------------------------- MODULE MemberProofs ----------------------------
(***************************************************************************)
(* Theorems about what may befall a member of a guild: the moderation, for *)
(* every set of users, handlers and jobs and every table of thresholds;    *)
(* the verification and the configuration it reads, for every number of    *)
(* forms, clicks, setters and faults.  The two share no state.             *)
(***************************************************************************)
EXTENDS Moderation, Verification, TLAPS, FiniteSetTheorems

-----------------------------------------------------------------------------
(* The moderation.                                                         *)

\* A handler past its start has a job; the one that escalates has found a
\* threshold.
ControlOK(h) ==
  /\ pc[h] # "idle" => job[h] \in Jobs
  /\ escalates[h] => tally[h] \in DOMAIN Threshold
  /\ pc[h] \in {"warns", "threshold"} => ~escalates[h]

TypeInv == TypeOK /\ \A h \in Handlers : ControlOK(h)

LEMMA JobFields ==
  ASSUME NEW j \in Jobs
  PROVE  j.via \in {"slash", "menu", "auto"} /\ j.kind \in Kinds /\ j.target \in Users
BY ModerationAssumption DEF LegalJobs

\* The sanction in hand is one of the kinds of case.
LEMMA SanctionKind ==
  ASSUME TypeInv, NEW h \in Handlers, pc[h] # "idle"
  PROVE  Sanction(h) \in Kinds /\ Target(h) \in Users
<1>1. job[h] \in Jobs BY DEF TypeInv, ControlOK
<1>2. job[h].kind \in Kinds /\ job[h].target \in Users BY <1>1, JobFields
<1>3. CASE escalates[h]
  <2>1. tally[h] \in DOMAIN Threshold BY <1>3 DEF TypeInv, ControlOK
  <2>2. Threshold[tally[h]] \in Sanctions BY <2>1, ModerationAssumption
  <2> QED BY <1>2, <1>3, <2>2 DEF Sanction, Target, Kinds
<1>4. CASE ~escalates[h] BY <1>2, <1>4 DEF Sanction, Target
<1> QED BY <1>3, <1>4

\* The labels a handler may stand at.
Labels == {"idle", "act", "count", "insert", "log", "warns",
           "threshold", "find", "findcase", "close", "lift", "done"}

LEMMA NextLabels ==
  /\ \A j \in Jobs : FirstStep(j) \in {"find", "count", "act"}
  /\ \A h \in Handlers : AfterInsert(h) \in {"act", "log"}
  /\ \A h \in Handlers : AfterAct(h) \in {"log", "count"}
  /\ \A h \in Handlers : AfterLog(h) \in {"warns", "done"}
BY DEF FirstStep, AfterInsert, AfterAct, AfterLog

-----------------------------------------------------------------------------
(* The numbers of the cases.                                               *)

\* A count that is about to be used was right when it was read, and cases are
\* never deleted.
CountBehind(h) == pc[h] = "insert" => counted[h] <= Cardinality(cases)

NumberInv ==
  /\ IsFiniteSet(cases)
  /\ DOMAIN pc = Handlers
  /\ counted \in [Handlers -> Nat]
  /\ \A h \in Handlers : CountBehind(h)
  /\ CaseNumbersDense

LEMMA NumberInit == Init => NumberInv
<1> SUFFICES ASSUME Init PROVE NumberInv OBVIOUS
<1>1. IsFiniteSet(cases) /\ Cardinality(cases) = 0 BY FS_EmptySet DEF Init
<1>2. Numbers = {} BY DEF Init, Numbers
<1>3. 1 .. Cardinality(cases) = {} BY <1>1
<1> QED BY <1>1, <1>2, <1>3 DEF Init, NumberInv, CountBehind, CaseNumbersDense

\* A step that records nothing and lets nobody reach "insert".
LEMMA NumberIdle ==
  ASSUME NumberInv, UNCHANGED <<cases, counted>>, DOMAIN pc' = DOMAIN pc,
         \A h \in Handlers : pc'[h] = "insert" => pc[h] = "insert"
  PROVE  NumberInv'
<1>1. (\A h \in Handlers : CountBehind(h))' BY DEF NumberInv, CountBehind
<1>2. CaseNumbersDense' BY DEF NumberInv, CaseNumbersDense, Numbers
<1> QED BY <1>1, <1>2 DEF NumberInv

LEMMA NumberRelabel ==
  ASSUME NumberInv, UNCHANGED <<cases, counted>>, NEW h \in Handlers,
         \E l \in Labels \ {"insert"} : pc' = [pc EXCEPT ![h] = l]
  PROVE  NumberInv'
<1>1. PICK l \in Labels : l # "insert" /\ pc' = [pc EXCEPT ![h] = l] OBVIOUS
<1>2. DOMAIN pc' = DOMAIN pc BY <1>1
<1>3. \A g \in Handlers : pc'[g] = "insert" => pc[g] = "insert"
  BY <1>1 DEF NumberInv
<1> QED BY <1>2, <1>3, NumberIdle

LEMMA NumberCount ==
  ASSUME NumberInv, NEW h \in Handlers, CountCases(h)
  PROVE  NumberInv'
<1>1. Cardinality(cases) \in Nat BY FS_CardinalityType DEF NumberInv
<1>2. cases' = cases BY DEF CountCases, caseRows
<1>3. counted' \in [Handlers -> Nat] /\ counted'[h] = Cardinality(cases)
  BY <1>1 DEF CountCases, NumberInv
<1>4. ASSUME NEW g \in Handlers PROVE CountBehind(g)'
  <2>1. CASE g = h BY <1>1, <1>2, <1>3, <2>1 DEF CountBehind
  <2>2. CASE g # h BY <1>2, <2>2 DEF CountBehind, CountCases, Goto, NumberInv
  <2> QED BY <2>1, <2>2
<1>5. CaseNumbersDense' BY <1>2 DEF NumberInv, CaseNumbersDense, Numbers
<1>6. DOMAIN pc' = Handlers BY DEF CountCases, Goto, NumberInv
<1> QED BY <1>2, <1>3, <1>4, <1>5, <1>6 DEF NumberInv

\* The heart of the matter: a count that lags behind names a number in use, so
\* what the table accepts is the next number.
LEMMA NumberInsert ==
  ASSUME NumberInv, NEW h \in Handlers, InsertCase(h)
  PROVE  NumberInv'
<1> DEFINE n == Cardinality(cases)
           new == NewCase(h)
<1>1. n \in Nat /\ counted[h] \in Nat /\ counted[h] <= n
  BY FS_CardinalityType DEF NumberInv, CountBehind, InsertCase
<1>2. Numbers = 1 .. n BY DEF NumberInv, CaseNumbersDense
<1>3. counted[h] = n
  <2>1. counted[h] + 1 \notin 1 .. n BY <1>2 DEF InsertCase
  <2> QED BY <1>1, <2>1
<1>4. new.number = n + 1 BY <1>3 DEF NewCase
<1>5. new \notin cases
  <2>1. new.number \notin Numbers BY <1>1, <1>2, <1>4
  <2> QED BY <2>1 DEF Numbers
<1>6. cases' = cases \cup {new} BY DEF InsertCase
<1>7. IsFiniteSet(cases') /\ Cardinality(cases') = n + 1
  BY <1>5, <1>6, FS_AddElement DEF NumberInv
<1>8. Numbers' = Numbers \cup {n + 1}
  <2> HIDE DEF new
  <2> QED BY <1>4, <1>6 DEF Numbers
<1>9. CaseNumbersDense'
  <2>1. Numbers' = 1 .. Cardinality(cases') BY <1>1, <1>2, <1>7, <1>8
  <2>2. ASSUME NEW k1 \in cases', NEW k2 \in cases', k1.number = k2.number
        PROVE  k1 = k2
    <3> HIDE DEF new, n
    <3>1. \A k \in cases : k.number # n + 1 BY <1>1, <1>2 DEF Numbers
    <3>2. \A k, l \in cases : k.number = l.number => k = l
      BY DEF NumberInv, CaseNumbersDense
    <3> QED BY <1>4, <1>6, <2>2, <3>1, <3>2
  <2> QED BY <2>1, <2>2 DEF CaseNumbersDense
<1>10. ASSUME NEW g \in Handlers PROVE CountBehind(g)'
  <2>1. counted'[g] = counted[g] /\ counted[g] \in Nat
    BY DEF InsertCase, NumberInv
  <2>2. CASE g = h
    <3>1. pc'[h] # "insert" BY NextLabels DEF InsertCase, Goto, NumberInv
    <3> QED BY <2>2, <3>1 DEF CountBehind
  <2>3. CASE g # h
    <3>1. pc'[g] = pc[g] BY <2>3 DEF InsertCase, Goto
    <3>2. pc[g] = "insert" => counted[g] <= n BY DEF NumberInv, CountBehind
    <3> QED BY <1>1, <1>7, <2>1, <3>1, <3>2 DEF CountBehind
  <2> QED BY <2>2, <2>3
<1>11. DOMAIN pc' = Handlers BY DEF InsertCase, Goto, NumberInv
<1>12. counted' \in [Handlers -> Nat] BY DEF InsertCase, NumberInv
<1> QED BY <1>7, <1>9, <1>10, <1>11, <1>12 DEF NumberInv

LEMMA NumberStep == NumberInv /\ [Next]_vars => NumberInv'
<1> SUFFICES ASSUME NumberInv, [Next]_vars PROVE NumberInv' OBVIOUS
<1> USE DEF Goto
<1>1. CASE UNCHANGED vars
  BY <1>1, NumberIdle DEF vars
<1>2. ASSUME NEW u \in Users, Leave(u) \/ Rejoin(u) PROVE NumberInv'
  BY <1>2, NumberIdle DEF Leave, Rejoin, caseRows
<1>3. ASSUME NEW h \in Handlers, Start(h) PROVE NumberInv'
  <2>1. PICK j \in Jobs : pc' = [pc EXCEPT ![h] = FirstStep(j)]
    BY <1>3 DEF Start
  <2>2. pc'[h] # "insert" BY <2>1, NextLabels DEF NumberInv
  <2> QED BY <1>3, <2>1, <2>2, NumberIdle DEF Start, caseRows
<1>4. ASSUME NEW h \in Handlers, Act(h) PROVE NumberInv'
  <2>1. pc'[h] # "insert" BY <1>4, NextLabels DEF Act, NumberInv
  <2> QED BY <1>4, <2>1, NumberIdle DEF Act, caseRows
<1>5. ASSUME NEW h \in Handlers, Log(h) PROVE NumberInv'
  <2>1. pc'[h] # "insert" BY <1>5, NextLabels DEF Log, NumberInv
  <2> QED BY <1>5, <2>1, NumberIdle DEF Log, caseRows
<1>6. ASSUME NEW h \in Handlers, CountCases(h) PROVE NumberInv'
  BY <1>6, NumberCount
<1>7. ASSUME NEW h \in Handlers, InsertCase(h) PROVE NumberInv'
  BY <1>7, NumberInsert
<1>8. ASSUME NEW h \in Handlers,
             ActFails(h) \/ NumberTaken(h) \/ DatabaseFails(h) \/ LiftFails(h)
      PROVE  NumberInv'
  <2>1. /\ UNCHANGED <<cases, counted>>
        /\ \E l \in Labels \ {"insert"} : pc' = [pc EXCEPT ![h] = l]
    BY <1>8 DEF ActFails, NumberTaken, DatabaseFails, LiftFails, caseRows, Labels
  <2> QED BY <2>1, NumberRelabel
<1>9. ASSUME NEW h \in Handlers, CountWarns(h) \/ FindThreshold(h) PROVE NumberInv'
  <2>1. /\ UNCHANGED <<cases, counted>>
        /\ \E l \in Labels \ {"insert"} : pc' = [pc EXCEPT ![h] = l]
    BY <1>9 DEF CountWarns, FindThreshold, caseRows, Labels
  <2> QED BY <2>1, NumberRelabel
<1>10. ASSUME NEW h \in Handlers, FetchBan(h) \/ FindCase(h) PROVE NumberInv'
  <2>1. /\ UNCHANGED <<cases, counted>>
        /\ \E l \in Labels \ {"insert"} : pc' = [pc EXCEPT ![h] = l]
    BY <1>10 DEF FetchBan, FindCase, caseRows, Labels
  <2> QED BY <2>1, NumberRelabel
<1>11. ASSUME NEW h \in Handlers, CloseCase(h) PROVE NumberInv'
  BY <1>11, NumberIdle DEF CloseCase
<1>12. ASSUME NEW h \in Handlers, LiftBan(h) PROVE NumberInv'
  BY <1>12, NumberIdle DEF LiftBan, caseRows
<1> QED
  BY <1>1, <1>2, <1>3, <1>4, <1>5, <1>6, <1>7, <1>8, <1>9, <1>10, <1>11, <1>12
  DEF Next

\* However many commands race for a number, the cases of a guild are numbered
\* 1, 2, 3 ... without gap or repetition (modCaseRepository.ts:20-38).
THEOREM CasesNumbered == Spec => []CaseNumbersDense
<1>1. NumberInv => CaseNumbersDense BY DEF NumberInv
<1> QED BY <1>1, NumberInit, NumberStep, PTL DEF Spec

-----------------------------------------------------------------------------
(* Types.                                                                  *)

\* A step that moves h and touches neither jobs, warns nor escalations.
LEMMA TypeRelabel ==
  ASSUME TypeInv, NEW h \in Handlers, pc[h] # "idle",
         UNCHANGED <<job, tally, escalates>>,
         NEW l \in Labels \ {"idle", "threshold"}, l = "warns" => ~escalates[h],
         pc' = [pc EXCEPT ![h] = l]
  PROVE  pc' \in [Handlers -> Labels] /\ \A g \in Handlers : ControlOK(g)'
BY DEF TypeInv, TypeOK, ControlOK, Labels

LEMMA TypeInit == Init => TypeInv
BY DEF Init, TypeInv, TypeOK, ControlOK

LEMMA TypeStart ==
  ASSUME TypeInv, NEW h \in Handlers, Start(h)
  PROVE  TypeInv'
<1>1. PICK j \in Jobs : /\ job' = [job EXCEPT ![h] = j]
                        /\ pc' = [pc EXCEPT ![h] = FirstStep(j)]
  BY DEF Start, Goto
<1>2. FirstStep(j) \in {"find", "count", "act"} BY NextLabels
<1>3. TypeOK'
  BY <1>1, <1>2 DEF TypeInv, TypeOK, Start, caseRows, discord, Case
<1>4. \A g \in Handlers : ControlOK(g)'
  BY <1>1, <1>2 DEF TypeInv, TypeOK, ControlOK, Start
<1> QED BY <1>3, <1>4 DEF TypeInv

LEMMA TypeAct ==
  ASSUME TypeInv, NEW h \in Handlers, Act(h)
  PROVE  TypeInv'
<1>1. pc[h] = "act" BY DEF Act
<1>2. Sanction(h) \in Kinds /\ Target(h) \in Users BY <1>1, SanctionKind
<1>3. AfterAct(h) \in {"log", "count"} BY NextLabels
<1>4. pc' \in [Handlers -> Labels] /\ \A g \in Handlers : ControlOK(g)'
  BY <1>1, <1>3, TypeRelabel DEF Act, Goto, Labels
<1>5. applied' \subseteq [by : Handlers, kind : Kinds, target : Users,
                          threshold : {0} \cup DOMAIN Threshold]
  <2>1. (IF escalates[h] THEN tally[h] ELSE 0) \in {0} \cup DOMAIN Threshold
    BY DEF TypeInv, ControlOK
  <2> QED BY <1>2, <2>1 DEF Act, CarryOut, TypeInv, TypeOK
<1>6. members' \subseteq Users /\ banned' \subseteq Users
  BY <1>2 DEF Act, CarryOut, TypeInv, TypeOK
<1>7. UNCHANGED <<cases, closed, job, counted, tally, escalates, toClose>>
  BY DEF Act, caseRows
<1> QED BY <1>4, <1>5, <1>6, <1>7 DEF TypeInv, TypeOK, Labels, Case

\* The steps that move a handler and change nothing else.
LEMMA TypeMove ==
  ASSUME TypeInv, NEW h \in Handlers, pc[h] # "idle",
         UNCHANGED <<caseRows, discord, job, counted, tally, escalates, toClose>>,
         NEW l \in Labels \ {"idle", "threshold"}, l = "warns" => ~escalates[h],
         Goto(h, l)
  PROVE  TypeInv'
<1>1. pc' \in [Handlers -> Labels] /\ \A g \in Handlers : ControlOK(g)'
  BY TypeRelabel DEF Goto
<1> QED BY <1>1 DEF TypeInv, TypeOK, Labels, caseRows, discord, Case

LEMMA TypeInsert ==
  ASSUME TypeInv, NEW h \in Handlers, InsertCase(h)
  PROVE  TypeInv'
<1>1. pc[h] = "insert" BY DEF InsertCase
<1>2. Sanction(h) \in Kinds /\ Target(h) \in Users BY <1>1, SanctionKind
<1>3. AfterInsert(h) \in {"act", "log"} BY NextLabels
<1>4. pc' \in [Handlers -> Labels] /\ \A g \in Handlers : ControlOK(g)'
  BY <1>1, <1>3, TypeRelabel DEF InsertCase, Goto, Labels
<1>5. NewCase(h) \in Case
  <2>1. counted[h] + 1 \in Nat \ {0} BY DEF TypeInv, TypeOK
  <2>2. escalates[h] \in BOOLEAN BY DEF TypeInv, TypeOK
  <2> QED BY <1>2, <2>1, <2>2 DEF NewCase, Case
<1>6. cases' \subseteq Case
  BY <1>5 DEF InsertCase, TypeInv, TypeOK
<1> QED BY <1>4, <1>6 DEF TypeInv, TypeOK, Labels, InsertCase, discord, Case

LEMMA TypeCountCases ==
  ASSUME TypeInv, NumberInv, NEW h \in Handlers, CountCases(h)
  PROVE  TypeInv'
<1>1. pc' \in [Handlers -> Labels] /\ \A g \in Handlers : ControlOK(g)'
  BY TypeRelabel DEF CountCases, Goto, Labels
<1>2. counted' \in [Handlers -> Nat]
  BY FS_CardinalityType DEF CountCases, NumberInv
<1> QED BY <1>1, <1>2 DEF TypeInv, TypeOK, Labels, CountCases, caseRows, discord, Case

LEMMA TypeCountWarns ==
  ASSUME TypeInv, NumberInv, NEW h \in Handlers, CountWarns(h)
  PROVE  TypeInv'
<1> DEFINE n == Cardinality(ActiveWarns(Target(h)))
<1>1. n \in Nat
  <2>1. ActiveWarns(Target(h)) \subseteq cases BY DEF ActiveWarns
  <2>2. IsFiniteSet(ActiveWarns(Target(h))) BY <2>1, FS_Subset DEF NumberInv
  <2> QED BY <2>2, FS_CardinalityType
<1>2. tally' = [tally EXCEPT ![h] = n] BY DEF CountWarns
<1>3. ~escalates[h] /\ pc[h] = "warns" BY DEF CountWarns, TypeInv, ControlOK
<1> HIDE DEF n
<1>4. TypeOK'
  BY <1>1, <1>2 DEF TypeInv, TypeOK, CountWarns, Goto, caseRows, discord, Case
<1>5. \A g \in Handlers : ControlOK(g)'
  BY <1>2, <1>3 DEF TypeInv, TypeOK, ControlOK, CountWarns, Goto
<1> QED BY <1>4, <1>5 DEF TypeInv

LEMMA TypeFindThreshold ==
  ASSUME TypeInv, NEW h \in Handlers, FindThreshold(h)
  PROVE  TypeInv'
<1>1. TypeOK'
  BY DEF TypeInv, TypeOK, FindThreshold, Goto, caseRows, discord, Case
<1>2. \A g \in Handlers : ControlOK(g)'
  BY DEF TypeInv, TypeOK, ControlOK, FindThreshold, Goto
<1> QED BY <1>1, <1>2 DEF TypeInv

LEMMA TypeUnban ==
  ASSUME TypeInv, NEW h \in Handlers, FindCase(h) \/ CloseCase(h) \/ LiftBan(h)
  PROVE  TypeInv'
<1>1. /\ pc[h] # "idle"
      /\ UNCHANGED <<job, tally, escalates>>
      /\ \E l \in {"close", "lift", "count"} : pc' = [pc EXCEPT ![h] = l]
  BY DEF FindCase, CloseCase, LiftBan, Goto
<1>2. pc' \in [Handlers -> Labels] /\ \A g \in Handlers : ControlOK(g)'
  <2>1. PICK l \in {"close", "lift", "count"} : pc' = [pc EXCEPT ![h] = l] BY <1>1
  <2> QED BY <1>1, <2>1, TypeRelabel DEF Labels
<1>3. Target(h) \in Users BY <1>1, SanctionKind
<1>4. CASE FindCase(h)
  <2>1. OpenBans(Target(h)) \subseteq Nat BY DEF OpenBans, TypeInv, TypeOK, Case
  <2>2. toClose' \in [Handlers -> Nat] BY <1>4, <2>1 DEF FindCase, TypeInv, TypeOK
  <2>3. UNCHANGED <<caseRows, discord, job, counted, tally, escalates>>
    BY <1>4 DEF FindCase
  <2> QED BY <1>2, <2>2, <2>3 DEF TypeInv, TypeOK, caseRows, discord, Labels, Case
<1>5. CASE CloseCase(h)
  <2>1. closed' \subseteq Nat \ {0} BY <1>5 DEF CloseCase, TypeInv, TypeOK
  <2>2. UNCHANGED <<cases, discord, job, counted, tally, escalates, toClose>>
    BY <1>5 DEF CloseCase
  <2> QED BY <1>2, <2>1, <2>2 DEF TypeInv, TypeOK, discord, Labels, Case
<1>6. CASE LiftBan(h)
  <2>1. applied' \subseteq [by : Handlers, kind : Kinds, target : Users,
                            threshold : {0} \cup DOMAIN Threshold]
    BY <1>3, <1>6 DEF LiftBan, TypeInv, TypeOK, Kinds
  <2> QED BY <1>2, <1>6, <2>1 DEF TypeInv, TypeOK, LiftBan, caseRows, Labels, Case
<1> QED BY <1>4, <1>5, <1>6

LEMMA TypeStep == TypeInv /\ NumberInv /\ [Next]_vars => TypeInv'
<1> SUFFICES ASSUME TypeInv, NumberInv, [Next]_vars PROVE TypeInv' OBVIOUS
<1>1. CASE UNCHANGED vars
  BY <1>1 DEF vars, TypeInv, TypeOK, ControlOK, Case
<1>2. ASSUME NEW u \in Users, Leave(u) \/ Rejoin(u) PROVE TypeInv'
  BY <1>2 DEF Leave, Rejoin, TypeInv, TypeOK, ControlOK, caseRows, Case
<1>3. ASSUME NEW h \in Handlers, Log(h) PROVE TypeInv'
  <2>1. AfterLog(h) \in {"warns", "done"} /\ (AfterLog(h) = "warns" => ~escalates[h])
    BY DEF AfterLog
  <2> QED BY <1>3, <2>1, TypeMove DEF Log, Labels
<1>4. ASSUME NEW h \in Handlers,
             ActFails(h) \/ NumberTaken(h) \/ DatabaseFails(h) \/ LiftFails(h)
      PROVE  TypeInv'
  <2>1. /\ pc[h] # "idle"
        /\ Goto(h, "done")
        /\ UNCHANGED <<caseRows, discord, job, counted, tally, escalates, toClose>>
    BY <1>4 DEF ActFails, NumberTaken, DatabaseFails, LiftFails
  <2> QED BY <2>1, TypeMove DEF Labels
<1>5. ASSUME NEW h \in Handlers, FetchBan(h) PROVE TypeInv'
  <2>1. PICK l \in {"findcase", "done"} : Goto(h, l) BY <1>5 DEF FetchBan
  <2> QED BY <1>5, <2>1, TypeMove DEF FetchBan, Labels
<1> QED
  BY <1>1, <1>2, <1>3, <1>4, <1>5, TypeStart, TypeAct, TypeInsert, TypeCountCases,
     TypeCountWarns, TypeFindThreshold, TypeUnban DEF Next

\* The variables keep their types, the handlers their control structure.
THEOREM ModerationTyped == Spec => []TypeOK
<1>1. TypeInv => TypeOK BY DEF TypeInv
<1> QED BY <1>1, TypeInit, TypeStep, NumberInit, NumberStep, PTL DEF Spec

-----------------------------------------------------------------------------
(* Cases and sanctions.                                                    *)

Sanctioned(h, kind) ==
  \E a \in applied : a.by = h /\ a.kind = kind /\ a.target = Target(h)

Recorded(h, kind) ==
  \E k \in cases : k.by = h /\ k.kind = kind /\ k.target = Target(h)

\* What the first of a handler's two steps has left when the second is due.
HalfDone(h) ==
  /\ pc[h] \in {"count", "insert"} /\ Sanction(h) # "warn"
       /\ (job[h].via # "menu" \/ escalates[h])
       => Sanctioned(h, Sanction(h))
  /\ pc[h] = "act" /\ job[h].via = "menu" => Recorded(h, job[h].kind)

\* Only /mod warn looks at the thresholds; a handler begins without one.
Escalation(h) ==
  /\ pc[h] \in {"warns", "threshold"} \/ escalates[h]
       => job[h].via = "slash" /\ job[h].kind = "warn"
  /\ pc[h] = "idle" => ~escalates[h]
  /\ pc[h] \in {"find", "findcase", "close", "lift"} => job[h].kind = "unban"

\* Whoever has left a trace has begun, and keeps his job.
Begun ==
  /\ \A k \in cases : pc[k.by] # "idle"
  /\ \A a \in applied : pc[a.by] # "idle"

StoryInv ==
  /\ \A h \in Handlers : HalfDone(h) /\ Escalation(h)
  /\ Begun
  /\ CasesMatchSanctions

LEMMA StoryInit == Init => StoryInv
BY DEF Init, StoryInv, HalfDone, Escalation, Begun, CasesMatchSanctions,
       NoPhantomCase, MenuActionsRecorded

\* A step that keeps every job in hand and removes no trace leaves the others'
\* halves as they were.
LEMMA StoryOthers ==
  ASSUME TypeInv, StoryInv, NEW g \in Handlers, UNCHANGED <<tally[g], escalates[g]>>,
         job'[g] = job[g], pc'[g] = pc[g],
         cases \subseteq cases', applied \subseteq applied'
  PROVE  HalfDone(g)' /\ Escalation(g)'
BY DEF StoryInv, HalfDone, Escalation, Sanctioned, Recorded, Sanction, Target

\* A step of h that leaves no trace.
LEMMA StoryMove ==
  ASSUME TypeInv, StoryInv, NEW h \in Handlers, pc[h] # "idle",
         UNCHANGED <<cases, applied, job>>,
         \A g \in Handlers \ {h} :
            pc'[g] = pc[g] /\ tally'[g] = tally[g] /\ escalates'[g] = escalates[g],
         pc'[h] # "idle", HalfDone(h)', Escalation(h)'
  PROVE  StoryInv'
<1>1. ASSUME NEW g \in Handlers PROVE HalfDone(g)' /\ Escalation(g)'
  <2>1. CASE g = h BY <2>1
  <2>2. CASE g # h BY <2>2, StoryOthers
  <2> QED BY <2>1, <2>2
<1>2. Begun'
  <2>1. \A k \in cases : k.by \in Handlers BY DEF TypeInv, TypeOK, Case
  <2>2. \A a \in applied : a.by \in Handlers BY DEF TypeInv, TypeOK
  <2> QED BY <2>1, <2>2 DEF StoryInv, Begun
<1>3. CasesMatchSanctions'
  BY DEF StoryInv, CasesMatchSanctions, NoPhantomCase, MenuActionsRecorded, WasApplied
<1> QED BY <1>1, <1>2, <1>3 DEF StoryInv

LEMMA StoryStart ==
  ASSUME TypeInv, StoryInv, NEW h \in Handlers, Start(h)
  PROVE  StoryInv'
<1>1. PICK j \in Jobs : /\ job' = [job EXCEPT ![h] = j]
                        /\ pc' = [pc EXCEPT ![h] = FirstStep(j)]
  BY DEF Start, Goto
<1>2. UNCHANGED <<cases, applied, tally, escalates>> /\ pc[h] = "idle"
  BY DEF Start, caseRows, discord
<1>3. job'[h] = j /\ pc'[h] = FirstStep(j) /\ ~escalates'[h]
  BY <1>1, <1>2 DEF TypeInv, TypeOK, StoryInv, Escalation
<1>4. j \in LegalJobs BY ModerationAssumption
<1>5. HalfDone(h)'
  <2>1. pc'[h] = "act" => ~RecordsFirst(j) BY <1>3 DEF FirstStep
  <2>2. pc'[h] # "insert" BY <1>3 DEF FirstStep
  <2>3. pc'[h] = "count" => RecordsFirst(j) BY <1>3 DEF FirstStep
  <2> QED BY <1>3, <2>1, <2>2, <2>3 DEF HalfDone, RecordsFirst, Sanction
<1>6. Escalation(h)' BY <1>3 DEF Escalation, FirstStep
<1>7. ASSUME NEW g \in Handlers, g # h
      PROVE  job'[g] = job[g] /\ pc'[g] = pc[g] /\ HalfDone(g)' /\ Escalation(g)'
  <2>1. job'[g] = job[g] /\ pc'[g] = pc[g]
    BY <1>1, <1>7 DEF TypeInv, TypeOK
  <2> QED BY <1>2, <2>1, StoryOthers
<1>8. /\ \A k \in cases : k.by \in Handlers /\ k.by # h
      /\ \A a \in applied : a.by \in Handlers /\ a.by # h
  BY <1>2 DEF StoryInv, Begun, TypeInv, TypeOK, Case
<1>9. Begun' BY <1>2, <1>7, <1>8 DEF Begun, StoryInv
<1>10. CasesMatchSanctions'
  <2>1. NoPhantomCase'
    BY <1>2, <1>7, <1>8 DEF StoryInv, CasesMatchSanctions, NoPhantomCase, WasApplied
  <2>2. MenuActionsRecorded'
    BY <1>2, <1>7, <1>8 DEF StoryInv, CasesMatchSanctions, MenuActionsRecorded
  <2> QED BY <2>1, <2>2 DEF CasesMatchSanctions
<1> QED BY <1>5, <1>6, <1>7, <1>9, <1>10 DEF StoryInv

LEMMA StoryAct ==
  ASSUME TypeInv, StoryInv, NEW h \in Handlers, Act(h)
  PROVE  StoryInv'
<1> DEFINE done == [by |-> h, kind |-> Sanction(h), target |-> Target(h),
                    threshold |-> IF escalates[h] THEN tally[h] ELSE 0]
<1>1. applied' = applied \cup {done} BY DEF Act, CarryOut
<1>2. UNCHANGED <<cases, job, tally, escalates>> /\ pc[h] = "act"
  BY DEF Act, caseRows
<1>3. pc'[h] = AfterAct(h) /\ \A g \in Handlers \ {h} : pc'[g] = pc[g]
  BY DEF Act, Goto, TypeInv, TypeOK
<1>4. AfterAct(h) \in {"log", "count"} BY NextLabels
<1>5. Sanction(h)' = Sanction(h) /\ Target(h)' = Target(h)
  BY <1>2 DEF Sanction, Target
<1>6. HalfDone(h)' /\ Escalation(h)'
  <2>1. done.by = h /\ done.kind = Sanction(h) /\ done.target = Target(h)
    OBVIOUS
  <2> HIDE DEF done
  <2>2. Sanctioned(h, Sanction(h))' BY <1>1, <1>5, <2>1 DEF Sanctioned
  <2> QED BY <1>2, <1>3, <1>4, <2>2 DEF HalfDone, Escalation, StoryInv
<1>7. ASSUME NEW g \in Handlers PROVE HalfDone(g)' /\ Escalation(g)'
  BY <1>1, <1>2, <1>3, <1>6, StoryOthers
<1>8. Begun'
  <2>1. \A k \in cases : k.by \in Handlers BY DEF TypeInv, TypeOK, Case
  <2>2. \A a \in applied : a.by \in Handlers BY DEF TypeInv, TypeOK
  <2>3. done.by = h OBVIOUS
  <2> HIDE DEF done
  <2> QED BY <1>1, <1>2, <1>3, <1>4, <2>1, <2>2, <2>3 DEF StoryInv, Begun
<1>9. NoPhantomCase'
  BY <1>1, <1>2 DEF StoryInv, CasesMatchSanctions, NoPhantomCase, WasApplied
<1>10. MenuActionsRecorded'
  <2>1. job[h].via = "menu" => Recorded(h, Sanction(h))
    BY <1>2 DEF StoryInv, HalfDone, Escalation, Sanction
  <2>2. ASSUME NEW a \in applied', job[a.by].via = "menu"
        PROVE  \E k \in cases : k.by = a.by /\ k.kind = a.kind /\ k.target = a.target
    <3>1. CASE a \in applied
      BY <2>2, <3>1 DEF StoryInv, CasesMatchSanctions, MenuActionsRecorded
    <3>2. CASE a = done BY <2>1, <2>2, <3>2 DEF Recorded
    <3> QED BY <1>1, <3>1, <3>2
  <2> QED BY <1>2, <2>2 DEF MenuActionsRecorded
<1> QED BY <1>7, <1>8, <1>9, <1>10 DEF StoryInv, CasesMatchSanctions

LEMMA StoryInsert ==
  ASSUME TypeInv, StoryInv, NEW h \in Handlers, InsertCase(h)
  PROVE  StoryInv'
<1> DEFINE new == NewCase(h)
<1>1. cases' = cases \cup {new} BY DEF InsertCase
<1>2. UNCHANGED <<applied, job, tally, escalates>> /\ pc[h] = "insert"
  BY DEF InsertCase, discord
<1>3. pc'[h] = AfterInsert(h) /\ \A g \in Handlers \ {h} : pc'[g] = pc[g]
  BY DEF InsertCase, Goto, TypeInv, TypeOK
<1>4. AfterInsert(h) \in {"act", "log"} BY NextLabels
<1>5. /\ new.by = h /\ new.kind = Sanction(h) /\ new.target = Target(h)
      /\ new.escalation = escalates[h]
  BY DEF NewCase
<1> HIDE DEF new
<1>6. Sanction(h)' = Sanction(h) /\ Target(h)' = Target(h)
  BY <1>2 DEF Sanction, Target
<1>7. HalfDone(h)' /\ Escalation(h)'
  <2>1. job[h].via = "menu" => Sanction(h) = job[h].kind
    BY DEF StoryInv, Escalation, Sanction
  <2>2. Recorded(h, Sanction(h))' BY <1>1, <1>5, <1>6 DEF Recorded
  <2>3. job[h].via = "menu" => Recorded(h, job[h].kind)'
    BY <1>2, <1>6, <2>1, <2>2
  <2> QED BY <1>2, <1>3, <1>4, <2>3 DEF HalfDone, Escalation, StoryInv
<1>8. ASSUME NEW g \in Handlers PROVE HalfDone(g)' /\ Escalation(g)'
  BY <1>1, <1>2, <1>3, <1>7, StoryOthers
<1>9. Begun'
  <2>1. \A k \in cases : k.by \in Handlers BY DEF TypeInv, TypeOK, Case
  <2>2. \A a \in applied : a.by \in Handlers BY DEF TypeInv, TypeOK
  <2> QED BY <1>1, <1>2, <1>3, <1>4, <1>5, <2>1, <2>2 DEF StoryInv, Begun
<1>10. NoPhantomCase'
  <2>1. ASSUME NEW k \in cases',
               k.kind # "warn" /\ (job[k.by].via # "menu" \/ k.escalation)
        PROVE  WasApplied(k)
    <3>1. CASE k \in cases
      BY <2>1, <3>1 DEF StoryInv, CasesMatchSanctions, NoPhantomCase
    <3>2. CASE k = new
      BY <1>2, <1>5, <2>1, <3>2 DEF StoryInv, HalfDone, Sanctioned, WasApplied
    <3> QED BY <1>1, <3>1, <3>2
  <2> QED BY <1>2, <2>1 DEF NoPhantomCase, WasApplied
<1>11. MenuActionsRecorded'
  BY <1>1, <1>2 DEF StoryInv, CasesMatchSanctions, MenuActionsRecorded
<1> QED BY <1>8, <1>9, <1>10, <1>11 DEF StoryInv, CasesMatchSanctions

LEMMA StoryLift ==
  ASSUME TypeInv, StoryInv, NEW h \in Handlers, LiftBan(h)
  PROVE  StoryInv'
<1> DEFINE done == [by |-> h, kind |-> "unban", target |-> Target(h), threshold |-> 0]
<1>1. applied' = applied \cup {done} BY DEF LiftBan
<1>2. UNCHANGED <<cases, job, tally, escalates>> /\ pc[h] = "lift"
  BY DEF LiftBan, caseRows
<1>3. pc'[h] = "count" /\ \A g \in Handlers \ {h} : pc'[g] = pc[g]
  BY DEF LiftBan, Goto, TypeInv, TypeOK
<1>4. job[h].kind = "unban" /\ ~escalates[h] BY <1>2 DEF StoryInv, Escalation
<1>5. job[h].via # "menu"
  <2>1. job[h] \in LegalJobs
    BY <1>2, ModerationAssumption DEF TypeInv, ControlOK
  <2>2. job[h].via = "menu" => job[h].kind \in Sanctions \cup {"warn"}
    BY <2>1 DEF LegalJobs
  <2> QED BY <1>4, <2>2 DEF Sanctions
<1>6. Sanctioned(h, "unban")'
  <2>1. done.by = h /\ done.kind = "unban" /\ done.target = Target(h) OBVIOUS
  <2>2. Target(h)' = Target(h) BY <1>2 DEF Target
  <2> HIDE DEF done
  <2> QED BY <1>1, <2>1, <2>2 DEF Sanctioned
<1>7. HalfDone(h)' /\ Escalation(h)'
  BY <1>2, <1>3, <1>4, <1>6 DEF HalfDone, Escalation, Sanction
<1>8. ASSUME NEW g \in Handlers PROVE HalfDone(g)' /\ Escalation(g)'
  BY <1>1, <1>2, <1>3, <1>7, StoryOthers
<1>9. done.by = h OBVIOUS
<1> HIDE DEF done
<1>10. Begun'
  <2>1. \A k \in cases : k.by \in Handlers BY DEF TypeInv, TypeOK, Case
  <2>2. \A a \in applied : a.by \in Handlers BY DEF TypeInv, TypeOK
  <2> QED BY <1>1, <1>2, <1>3, <1>9, <2>1, <2>2 DEF StoryInv, Begun
<1>11. NoPhantomCase'
  BY <1>1, <1>2 DEF StoryInv, CasesMatchSanctions, NoPhantomCase, WasApplied
<1>12. MenuActionsRecorded'
  BY <1>1, <1>2, <1>5, <1>9 DEF StoryInv, CasesMatchSanctions, MenuActionsRecorded
<1> QED BY <1>8, <1>10, <1>11, <1>12 DEF StoryInv, CasesMatchSanctions

LEMMA StoryStep == TypeInv /\ StoryInv /\ [Next]_vars => StoryInv'
<1> SUFFICES ASSUME TypeInv, StoryInv, [Next]_vars PROVE StoryInv' OBVIOUS
<1>1. CASE UNCHANGED vars
  BY <1>1 DEF vars, StoryInv, HalfDone, Escalation, Begun, Sanctioned, Recorded,
              Sanction, Target, CasesMatchSanctions, NoPhantomCase,
              MenuActionsRecorded, WasApplied
<1>2. ASSUME NEW u \in Users, Leave(u) \/ Rejoin(u) PROVE StoryInv'
  BY <1>2 DEF Leave, Rejoin, caseRows, StoryInv, HalfDone, Escalation, Begun,
              Sanctioned, Recorded, Sanction, Target, CasesMatchSanctions,
              NoPhantomCase, MenuActionsRecorded, WasApplied
<1>3. ASSUME NEW h \in Handlers,
             \/ ActFails(h) \/ NumberTaken(h) \/ DatabaseFails(h) \/ LiftFails(h)
      PROVE  StoryInv'
  <2>1. /\ pc[h] # "idle" /\ UNCHANGED <<cases, applied, job, tally, escalates>>
        /\ pc' = [pc EXCEPT ![h] = "done"]
    BY <1>3 DEF ActFails, NumberTaken, DatabaseFails, LiftFails, Goto, caseRows, discord
  <2>2. HalfDone(h)' /\ Escalation(h)'
    BY <2>1 DEF TypeInv, TypeOK, StoryInv, HalfDone, Escalation
  <2> QED BY <2>1, <2>2, StoryMove DEF TypeInv, TypeOK
<1>4. ASSUME NEW h \in Handlers, CountCases(h) PROVE StoryInv'
  <2>1. /\ pc[h] = "count" /\ UNCHANGED <<cases, applied, job, tally, escalates>>
        /\ pc' = [pc EXCEPT ![h] = "insert"]
    BY <1>4 DEF CountCases, Goto, caseRows, discord
  <2>2. HalfDone(h)' /\ Escalation(h)'
    BY <2>1 DEF TypeInv, TypeOK, StoryInv, HalfDone, Escalation, Sanction, Target,
                Sanctioned
  <2> QED BY <2>1, <2>2, StoryMove DEF TypeInv, TypeOK
<1>5. ASSUME NEW h \in Handlers, Log(h) PROVE StoryInv'
  <2>1. /\ pc[h] = "log" /\ UNCHANGED <<cases, applied, job, tally, escalates>>
        /\ pc' = [pc EXCEPT ![h] = AfterLog(h)]
    BY <1>5 DEF Log, Goto, caseRows, discord
  <2>2. HalfDone(h)' /\ Escalation(h)'
    BY <2>1 DEF TypeInv, TypeOK, StoryInv, HalfDone, Escalation, AfterLog
  <2>3. AfterLog(h) # "idle" BY NextLabels
  <2> QED BY <2>1, <2>2, <2>3, StoryMove DEF TypeInv, TypeOK
<1>6. ASSUME NEW h \in Handlers, CountWarns(h) PROVE StoryInv'
  <2>1. /\ pc[h] = "warns" /\ UNCHANGED <<cases, applied, job, escalates>>
        /\ pc' = [pc EXCEPT ![h] = "threshold"]
        /\ \A g \in Handlers \ {h} : tally'[g] = tally[g]
    BY <1>6 DEF CountWarns, Goto, caseRows, discord, TypeInv, TypeOK
  <2>2. HalfDone(h)' /\ Escalation(h)'
    BY <2>1 DEF TypeInv, TypeOK, StoryInv, HalfDone, Escalation
  <2> QED BY <2>1, <2>2, StoryMove DEF TypeInv, TypeOK
<1>7. ASSUME NEW h \in Handlers, FindThreshold(h) PROVE StoryInv'
  <2>1. /\ pc[h] = "threshold" /\ UNCHANGED <<cases, applied, job, tally>>
        /\ \E l \in {"act", "done"} : pc' = [pc EXCEPT ![h] = l]
        /\ \A g \in Handlers \ {h} : escalates'[g] = escalates[g]
    BY <1>7 DEF FindThreshold, Goto, caseRows, discord, TypeInv, TypeOK
  <2>2. job[h].via = "slash" /\ job[h].kind = "warn"
    BY <2>1 DEF StoryInv, Escalation
  <2>3. HalfDone(h)' /\ Escalation(h)'
    BY <2>1, <2>2 DEF TypeInv, TypeOK, HalfDone, Escalation
  <2> QED BY <2>1, <2>3, StoryMove DEF TypeInv, TypeOK
<1>8. ASSUME NEW h \in Handlers, FetchBan(h) \/ FindCase(h) \/ CloseCase(h)
      PROVE  StoryInv'
  <2>1. /\ pc[h] \in {"find", "findcase", "close"}
        /\ UNCHANGED <<cases, applied, job, tally, escalates>>
        /\ \E l \in {"findcase", "close", "lift", "done"} : pc' = [pc EXCEPT ![h] = l]
    BY <1>8 DEF FetchBan, FindCase, CloseCase, Goto, caseRows, discord
  <2>2. HalfDone(h)' /\ Escalation(h)'
    BY <2>1 DEF TypeInv, TypeOK, StoryInv, HalfDone, Escalation
  <2> QED BY <2>1, <2>2, StoryMove DEF TypeInv, TypeOK
<1> QED
  BY <1>1, <1>2, <1>3, <1>4, <1>5, <1>6, <1>7, <1>8, StoryStart, StoryAct,
     StoryInsert, StoryLift DEF Next

\* Whatever fails between a handler's two steps, only the second is missing:
\* slash commands, the anti-spam and the thresholds record no sanction Discord
\* has not carried out (timeout.ts:80-84, WarnThresholdService.ts:50-64), the
\* context menus carry out none that is not recorded (ban-user.ts:66).
THEOREM CasesAndSanctions == Spec => []CasesMatchSanctions
<1>1. StoryInv => CasesMatchSanctions BY DEF StoryInv
<1> QED
  BY <1>1, TypeInit, TypeStep, NumberInit, NumberStep, StoryInit, StoryStep, PTL
  DEF Spec

-----------------------------------------------------------------------------
(* Thresholds.                                                             *)

\* /mod unban closes ban cases only.
ClosesBan(h) ==
  toClose[h] # 0 => \E k \in cases : k.kind = "ban" /\ k.number = toClose[h]

\* The tally a handler goes by counts warns that are still active.
TallyHolds(h) ==
  pc[h] = "threshold" \/ escalates[h]
    => Cardinality(ActiveWarns(Target(h))) >= tally[h]

WarnInv ==
  /\ \A h \in Handlers : ClosesBan(h) /\ TallyHolds(h)
  /\ NeverEscalatedEarly

LEMMA WarnInit == Init => WarnInv
BY DEF Init, WarnInv, ClosesBan, TallyHolds, NeverEscalatedEarly

LEMMA WarnsCounted ==
  ASSUME NumberInv, NEW u
  PROVE  IsFiniteSet(ActiveWarns(u)) /\ Cardinality(ActiveWarns(u)) \in Nat
<1>1. ActiveWarns(u) \subseteq cases BY DEF ActiveWarns
<1>2. IsFiniteSet(ActiveWarns(u)) BY <1>1, FS_Subset DEF NumberInv
<1> QED BY <1>2, FS_CardinalityType

\* No step takes an active warn away.
LEMMA WarnsGrow ==
  ASSUME NumberInv, NumberInv', NEW u, cases \subseteq cases',
         \A k \in cases : k.kind = "warn" /\ k.number \in closed' => k.number \in closed
  PROVE  /\ Cardinality(ActiveWarns(u)') >= Cardinality(ActiveWarns(u))
         /\ Cardinality(ActiveWarns(u)) \in Nat /\ Cardinality(ActiveWarns(u)') \in Nat
<1>1. ActiveWarns(u) \subseteq ActiveWarns(u)' BY DEF ActiveWarns
<1>2. IsFiniteSet(ActiveWarns(u)') /\ Cardinality(ActiveWarns(u)') \in Nat
  <2>1. ActiveWarns(u)' \subseteq cases' BY DEF ActiveWarns
  <2>2. IsFiniteSet(ActiveWarns(u)') BY <2>1, FS_Subset DEF NumberInv
  <2> QED BY <2>2, FS_CardinalityType
<1> QED BY <1>1, <1>2, FS_Subset, WarnsCounted

\* What a step has to show of the handler it moves, and of nobody else.
LEMMA WarnMove ==
  ASSUME TypeInv, NumberInv, NumberInv', WarnInv, NEW h \in Handlers, pc[h] # "idle",
         cases \subseteq cases', UNCHANGED <<applied, job>>,
         \A k \in cases :
            k.kind = "warn" /\ k.number \in closed' => k.number \in closed,
         \A g \in Handlers \ {h} :
            pc'[g] = pc[g] /\ tally'[g] = tally[g] /\ escalates'[g] = escalates[g]
              /\ toClose'[g] = toClose[g],
         ClosesBan(h)', TallyHolds(h)'
  PROVE  WarnInv'
<1>1. ASSUME NEW g \in Handlers, g # h PROVE ClosesBan(g)' /\ TallyHolds(g)'
  <2>1. ClosesBan(g)' BY <1>1 DEF WarnInv, ClosesBan
  <2>2. TallyHolds(g)'
    <3> PICK u : u = Target(g) OBVIOUS
    <3> DEFINE n == Cardinality(ActiveWarns(u))
               m == Cardinality(ActiveWarns(u)')
    <3>1. Target(g)' = u BY DEF Target
    <3>2. m >= n /\ n \in Nat /\ m \in Nat BY WarnsGrow
    <3>4. tally[g] \in Nat BY DEF TypeInv, TypeOK
    <3>5. pc[g] = "threshold" \/ escalates[g] => n >= tally[g]
      BY DEF WarnInv, TallyHolds
    <3>6. TallyHolds(g)' <=>
            (pc'[g] = "threshold" \/ escalates'[g] => m >= tally'[g])
      BY <3>1 DEF TallyHolds, ActiveWarns
    <3> HIDE DEF n, m
    <3> QED BY <1>1, <3>2, <3>4, <3>5, <3>6
  <2> QED BY <2>1, <2>2
<1>2. NeverEscalatedEarly'
  <2> SUFFICES ASSUME NEW a \in applied
               PROVE  Cardinality(ActiveWarns(a.target)') >= a.threshold
    BY DEF NeverEscalatedEarly, ActiveWarns
  <2> PICK u : u = a.target OBVIOUS
  <2> DEFINE n == Cardinality(ActiveWarns(u))
             m == Cardinality(ActiveWarns(u)')
  <2>1. m >= n /\ n \in Nat /\ m \in Nat BY WarnsGrow
  <2>2. n >= a.threshold BY DEF WarnInv, NeverEscalatedEarly
  <2>3. a.threshold \in Nat BY ModerationAssumption DEF TypeInv, TypeOK
  <2> HIDE DEF n, m
  <2>4. m >= a.threshold BY <2>1, <2>2, <2>3
  <2> QED BY <2>4 DEF m, ActiveWarns
<1> QED BY <1>1, <1>2 DEF WarnInv

LEMMA WarnInsert ==
  ASSUME TypeInv, NumberInv, NumberInv', WarnInv, NEW h \in Handlers, InsertCase(h)
  PROVE  WarnInv'
<1>1. cases \subseteq cases' BY DEF InsertCase
<1>2. UNCHANGED <<closed, applied, job, tally, escalates, toClose>> /\ pc[h] = "insert"
  BY DEF InsertCase, discord
<1>3. pc'[h] # "threshold" /\ \A g \in Handlers \ {h} : pc'[g] = pc[g]
  BY NextLabels DEF InsertCase, Goto, TypeInv, TypeOK
<1>4. ClosesBan(h)' BY <1>1, <1>2 DEF WarnInv, ClosesBan
<1>5. TallyHolds(h)'
  <2> PICK u : u = Target(h) OBVIOUS
  <2> DEFINE n == Cardinality(ActiveWarns(u))
             m == Cardinality(ActiveWarns(u)')
  <2>1. Target(h)' = u BY <1>2 DEF Target
  <2>2. m >= n /\ n \in Nat /\ m \in Nat BY <1>1, <1>2, WarnsGrow
  <2>3. tally[h] \in Nat BY DEF TypeInv, TypeOK
  <2>4. escalates[h] => n >= tally[h] BY DEF WarnInv, TallyHolds
  <2>5. TallyHolds(h)' <=> (escalates'[h] => m >= tally'[h])
    BY <1>3, <2>1 DEF TallyHolds, ActiveWarns
  <2> HIDE DEF n, m
  <2> QED BY <1>2, <2>2, <2>3, <2>4, <2>5
<1> QED BY <1>1, <1>2, <1>3, <1>4, <1>5, WarnMove

\* What is closed is the number of a ban case, and no warn has the same.
LEMMA WarnClose ==
  ASSUME TypeInv, NumberInv, NumberInv', StoryInv, WarnInv, NEW h \in Handlers,
         CloseCase(h)
  PROVE  WarnInv'
<1>1. UNCHANGED <<cases, applied, job, tally, escalates, toClose>> /\ pc[h] = "close"
  BY DEF CloseCase, discord
<1>2. pc' = [pc EXCEPT ![h] = "lift"] BY DEF CloseCase, Goto
<1>3. ASSUME NEW k \in cases, k.kind = "warn", k.number \in closed'
      PROVE  k.number \in closed
  <2>1. SUFFICES ASSUME k.number = toClose[h], toClose[h] # 0 PROVE FALSE
    BY <1>3 DEF CloseCase
  <2>2. PICK b \in cases : b.kind = "ban" /\ b.number = k.number
    BY <2>1 DEF WarnInv, ClosesBan
  <2>3. b = k BY <2>2 DEF NumberInv, CaseNumbersDense
  <2> QED BY <1>3, <2>2, <2>3
<1>4. ~escalates[h]
  BY <1>1 DEF StoryInv, Escalation
<1>5. ClosesBan(h)' /\ TallyHolds(h)'
  BY <1>1, <1>2, <1>4 DEF WarnInv, ClosesBan, TallyHolds, TypeInv, TypeOK
<1> QED BY <1>1, <1>2, <1>3, <1>5, WarnMove DEF TypeInv, TypeOK

\* The sanction of a threshold falls on somebody who has the warns for it.
LEMMA WarnAct ==
  ASSUME TypeInv, NumberInv, WarnInv, NEW h \in Handlers,
         UNCHANGED <<cases, closed, job, tally, escalates, toClose>>,
         \A g \in Handlers : pc'[g] = "threshold" => pc[g] = "threshold",
         NEW t, t = IF escalates[h] THEN tally[h] ELSE 0,
         NEW kind, applied' = applied \cup
            {[by |-> h, kind |-> kind, target |-> Target(h), threshold |-> t]}
  PROVE  WarnInv'
<1>1. ASSUME NEW g \in Handlers PROVE ClosesBan(g)' /\ TallyHolds(g)'
  BY DEF WarnInv, ClosesBan, TallyHolds, ActiveWarns, Target
<1>2. NeverEscalatedEarly'
  <2>1. ASSUME NEW a \in applied'
        PROVE  Cardinality(ActiveWarns(a.target)) >= a.threshold
    <3>1. CASE a \in applied BY <3>1 DEF WarnInv, NeverEscalatedEarly
    <3>2. CASE a = [by |-> h, kind |-> kind, target |-> Target(h), threshold |-> t]
      <4> PICK u : u = Target(h) OBVIOUS
      <4> DEFINE n == Cardinality(ActiveWarns(u))
      <4>1. a.target = u /\ a.threshold = t BY <3>2
      <4>2. n \in Nat BY WarnsCounted
      <4>3. escalates[h] => n >= tally[h] BY DEF WarnInv, TallyHolds
      <4>4. escalates[h] \in BOOLEAN BY DEF TypeInv, TypeOK
      <4> HIDE DEF n
      <4>5. n >= t BY <4>2, <4>3, <4>4
      <4> QED BY <4>1, <4>5 DEF n
    <3> QED BY <3>1, <3>2
  <2> QED BY <2>1 DEF NeverEscalatedEarly, ActiveWarns
<1> QED BY <1>1, <1>2 DEF WarnInv

LEMMA WarnCount ==
  ASSUME TypeInv, NumberInv, NumberInv', WarnInv, NEW h \in Handlers, CountWarns(h)
  PROVE  WarnInv'
<1>1. pc[h] = "warns" /\ UNCHANGED <<cases, closed, applied, job, escalates, toClose>>
  BY DEF CountWarns, caseRows, discord
<1>2. /\ \A g \in Handlers \ {h} : pc'[g] = pc[g] /\ tally'[g] = tally[g]
      /\ tally'[h] = Cardinality(ActiveWarns(Target(h)))
  BY DEF CountWarns, Goto, TypeInv, TypeOK
<1>3. ClosesBan(h)' BY <1>1 DEF WarnInv, ClosesBan
<1>4. TallyHolds(h)'
  <2> DEFINE n == Cardinality(ActiveWarns(Target(h)))
  <2>1. Cardinality(ActiveWarns(Target(h)))' = n
    BY <1>1 DEF ActiveWarns, Target
  <2>2. n \in Nat /\ tally'[h] = n BY <1>2, WarnsCounted
  <2> HIDE DEF n
  <2> QED BY <2>1, <2>2 DEF TallyHolds
<1> QED BY <1>1, <1>2, <1>3, <1>4, WarnMove

LEMMA WarnFind ==
  ASSUME TypeInv, NumberInv, NumberInv', StoryInv, WarnInv, NEW h \in Handlers,
         FindCase(h)
  PROVE  WarnInv'
<1>1. /\ pc[h] = "findcase" /\ pc' = [pc EXCEPT ![h] = "close"]
      /\ UNCHANGED <<cases, closed, applied, job, tally, escalates>>
  BY DEF FindCase, Goto, caseRows, discord
<1>2. ~escalates[h] BY <1>1 DEF StoryInv, Escalation
<1>3. TallyHolds(h)' BY <1>1, <1>2 DEF TallyHolds, TypeInv, TypeOK
<1>4. ClosesBan(h)'
  <2>1. CASE toClose' = toClose BY <1>1, <2>1 DEF WarnInv, ClosesBan
  <2>2. CASE \E n \in OpenBans(Target(h)) : toClose' = [toClose EXCEPT ![h] = n]
    BY <1>1, <2>2 DEF ClosesBan, OpenBans, TypeInv, TypeOK
  <2> QED BY <2>1, <2>2 DEF FindCase
<1>5. \A g \in Handlers \ {h} : pc'[g] = pc[g] /\ toClose'[g] = toClose[g]
  BY DEF FindCase, Goto, TypeInv, TypeOK
<1> QED BY <1>1, <1>3, <1>4, <1>5, WarnMove

LEMMA WarnStep ==
  ASSUME TypeInv, NumberInv, NumberInv', StoryInv, WarnInv, [Next]_vars
  PROVE  WarnInv'
<1> USE DEF WarnInv, ClosesBan, TallyHolds, ActiveWarns, Target
<1>1. CASE UNCHANGED vars
  BY <1>1 DEF vars, NeverEscalatedEarly
<1>2. ASSUME NEW u \in Users, Leave(u) \/ Rejoin(u) PROVE WarnInv'
  BY <1>2 DEF Leave, Rejoin, caseRows, NeverEscalatedEarly
<1>3. ASSUME NEW h \in Handlers, Start(h) PROVE WarnInv'
  <2>1. PICK j \in Jobs : /\ job' = [job EXCEPT ![h] = j]
                          /\ pc' = [pc EXCEPT ![h] = FirstStep(j)]
    BY <1>3 DEF Start, Goto
  <2>2. /\ UNCHANGED <<cases, closed, applied, tally, escalates, toClose>>
        /\ ~escalates[h]
    BY <1>3 DEF Start, caseRows, discord, StoryInv, Escalation
  <2>3. FirstStep(j) # "threshold" BY NextLabels
  <2>4. ASSUME NEW g \in Handlers PROVE ClosesBan(g)' /\ TallyHolds(g)'
    BY <2>1, <2>2, <2>3 DEF TypeInv, TypeOK
  <2> QED BY <2>2, <2>4 DEF NeverEscalatedEarly
<1>4. ASSUME NEW h \in Handlers,
             \/ ActFails(h) \/ NumberTaken(h) \/ DatabaseFails(h) \/ LiftFails(h)
             \/ CountCases(h) \/ Log(h) \/ FetchBan(h)
      PROVE  WarnInv'
  <2>1. /\ UNCHANGED <<cases, closed, applied, job, tally, escalates, toClose>>
        /\ \A g \in Handlers : pc'[g] = "threshold" => pc[g] = "threshold"
    BY <1>4, NextLabels
       DEF ActFails, NumberTaken, DatabaseFails, LiftFails, CountCases, Log,
           FetchBan, Goto, caseRows, discord, TypeInv, TypeOK
  <2> QED BY <2>1 DEF NeverEscalatedEarly
<1>5. ASSUME NEW h \in Handlers, Act(h) PROVE WarnInv'
  <2>1. \A g \in Handlers : pc'[g] = "threshold" => pc[g] = "threshold"
    BY <1>5, NextLabels DEF Act, Goto, TypeInv, TypeOK
  <2> QED BY <1>5, <2>1, WarnAct DEF Act, CarryOut, caseRows
<1>6. ASSUME NEW h \in Handlers, LiftBan(h) PROVE WarnInv'
  <2>1. \A g \in Handlers : pc'[g] = "threshold" => pc[g] = "threshold"
    BY <1>6 DEF LiftBan, Goto, TypeInv, TypeOK
  <2>2. ~escalates[h] BY <1>6 DEF LiftBan, StoryInv, Escalation
  <2> QED BY <1>6, <2>1, <2>2, WarnAct DEF LiftBan, caseRows
<1>7. ASSUME NEW h \in Handlers, FindThreshold(h) PROVE WarnInv'
  <2>1. /\ UNCHANGED <<cases, closed, applied, job, tally, toClose>>
        /\ pc[h] = "threshold"
        /\ \A g \in Handlers \ {h} : pc'[g] = pc[g] /\ escalates'[g] = escalates[g]
    BY <1>7 DEF FindThreshold, Goto, caseRows, discord, TypeInv, TypeOK
  <2> QED BY <2>1 DEF NeverEscalatedEarly
<1> QED
  BY <1>1, <1>2, <1>3, <1>4, <1>5, <1>6, <1>7, WarnInsert, WarnClose, WarnCount,
     WarnFind DEF Next

\* A threshold never falls on somebody with fewer warns than it asks for,
\* whoever warns him at the same time and whatever bans are lifted meanwhile:
\* a warn is never closed, and /mod unban closes ban cases only
\* (WarnThresholdService.ts:36-64, modCaseRepository.ts:20).
THEOREM NoEarlyEscalation == Spec => []NeverEscalatedEarly
<1>1. WarnInv => NeverEscalatedEarly BY DEF WarnInv
<1>2. TypeInv /\ NumberInv /\ StoryInv /\ WarnInv /\ [Next]_vars
        => (TypeInv /\ NumberInv /\ StoryInv /\ WarnInv)'
  BY TypeStep, NumberStep, StoryStep, WarnStep
<1> QED BY <1>1, <1>2, TypeInit, NumberInit, StoryInit, WarnInit, PTL DEF Spec

-----------------------------------------------------------------------------
(* The configuration.  A copy is as new as the newest invalidation, or a   *)
(* later invalidation is known to have missed it.                          *)

ReadStages == {"idle", "asked", "spare", "query", "found", "unset", "done", "failed"}
\* The stages in which a read has a copy it may still store.
Carrying == {"asked", "spare", "found", "unset"}
\* The stages in which it has a row.
HasRow == {"found", "unset", "done"}

Missed(version) == \E v \in exposed : v > version
Fresh(version) == version = NoValue \/ version >= invalidated \/ Missed(version)

ConfigTyped ==
  /\ rows \in Seq(BOOLEAN) /\ Len(rows) \in Nat
  /\ memory \in Nat /\ cached \in Nat /\ spare \in Nat
  /\ useFallback \in BOOLEAN
  /\ reads \in [Calls -> [stage : ReadStages, version : Nat]]
  /\ writes \in [Writers -> [stage : {"idle", "written", "refused"}, version : Nat]]
  /\ invalidated \in Nat
  /\ exposed \subseteq Nat

ConfigInv ==
  /\ ConfigTyped
  /\ invalidated <= Len(rows) /\ Len(rows) # 0
  /\ \A w \in Writers : writes[w].version <= Len(rows)
  /\ ~useFallback => spare = NoValue
  /\ Fresh(memory) /\ Fresh(cached) /\ Fresh(spare)
  /\ \A c \in Calls :
       /\ Stage(c) \in Carrying => Fresh(Version(c))
       /\ Stage(c) \in HasRow => Version(c) # NoValue

\* What a step does to the reads: those that come to an answer come to a fresh
\* one, the others keep what they have or begin again.
Answering ==
  \A c \in Calls : Stage(c)' = "done" => reads'[c] = reads[c] \/ Fresh(Version(c)')

LEMMA ConfigInitially == ConfigInit => ConfigInv
<1> SUFFICES ASSUME ConfigInit PROVE ConfigInv OBVIOUS
<1>1. /\ rows \in Seq(BOOLEAN) /\ Len(rows) = 1
      /\ memory = 0 /\ cached = 0 /\ spare = 0 /\ useFallback = FALSE
      /\ invalidated = 0 /\ exposed = {}
  BY DEF ConfigInit, NoValue
<1>2. /\ reads \in [Calls -> [stage : ReadStages, version : Nat]]
      /\ \A c \in Calls : Stage(c) = "idle"
  BY DEF ConfigInit, NoRead, ReadStages, NoValue, Stage
<1>3. /\ writes \in [Writers -> [stage : {"idle", "written", "refused"}, version : Nat]]
      /\ \A w \in Writers : writes[w].version = 0
  BY DEF ConfigInit, NoWrite, NoRead, NoValue
<1>4. ConfigTyped
  <2>1. exposed \subseteq Nat /\ Len(rows) \in Nat /\ 0 \in Nat BY <1>1
  <2> QED BY <1>1, <1>2, <1>3, <2>1 DEF ConfigTyped
<1>5. Fresh(memory) /\ Fresh(cached) /\ Fresh(spare) BY <1>1 DEF Fresh, NoValue
<1> QED BY <1>1, <1>2, <1>3, <1>4, <1>5 DEF ConfigInv, Carrying, HasRow, NoValue

\* A step that writes no row and sends no invalidation.
LEMMA Copying ==
  ASSUME ConfigInv, UNCHANGED <<rows, ghosts>>,
         memory' \in Nat, cached' \in Nat, spare' \in Nat, useFallback' \in BOOLEAN,
         Fresh(memory'), Fresh(cached'), Fresh(spare'),
         ~useFallback' => spare' = NoValue,
         \/ writes' = writes
         \/ /\ writes' \in [Writers -> [stage : {"idle", "written", "refused"}, version : Nat]]
            /\ \A w \in Writers : writes'[w].version <= writes[w].version,
         reads' \in [Calls -> [stage : ReadStages, version : Nat]],
         \A c \in Calls :
            /\ Stage(c)' \in Carrying => reads'[c] = reads[c] \/ Fresh(Version(c)')
            /\ Stage(c)' \in HasRow => reads'[c] = reads[c] \/ Version(c)' # NoValue
  PROVE  ConfigInv'
<1>1. ConfigTyped' BY DEF ConfigInv, ConfigTyped, ghosts
<1>2. \A v : Fresh(v)' <=> Fresh(v) BY DEF Fresh, Missed, ghosts
<1>3. Fresh(memory)' /\ Fresh(cached)' /\ Fresh(spare)'
  BY DEF Fresh, Missed, ghosts
<1>4. ASSUME NEW c \in Calls, Stage(c)' \in Carrying PROVE Fresh(Version(c))'
  <2>1. CASE reads'[c] = reads[c]
    BY <1>4, <2>1 DEF ConfigInv, Stage, Version, Fresh, Missed, ghosts
  <2>2. CASE Fresh(Version(c)')
    BY <2>2 DEF Fresh, Missed, ghosts
  <2> QED BY <1>4, <2>1, <2>2
<1>5. /\ invalidated' <= Len(rows') /\ Len(rows') # 0
      /\ \A w \in Writers : writes'[w].version <= Len(rows')
  BY DEF ConfigInv, ConfigTyped, ghosts
<1>6. \A c \in Calls : Stage(c)' \in HasRow => Version(c)' # NoValue
  BY DEF ConfigInv, Stage, Version
<1> QED BY <1>1, <1>3, <1>4, <1>5, <1>6 DEF ConfigInv, NoValue

\* One read goes on.
LEMMA Reading ==
  ASSUME ConfigInv, UNCHANGED <<rows, writes, ghosts>>,
         memory' \in Nat, cached' \in Nat, spare' \in Nat, useFallback' \in BOOLEAN,
         Fresh(memory'), Fresh(cached'), Fresh(spare'),
         ~useFallback' => spare' = NoValue,
         NEW c \in Calls, NEW stage \in ReadStages, NEW version \in Nat,
         Holds(c, stage, version), stage \in Carrying \cup {"done"} => Fresh(version),
         stage \in HasRow => version # NoValue
  PROVE  ConfigInv' /\ Answering
<1>1. reads' \in [Calls -> [stage : ReadStages, version : Nat]]
  BY DEF Holds, ConfigInv, ConfigTyped
<1>2. \A b \in Calls : reads'[b] = IF b = c THEN [stage |-> stage, version |-> version]
                                             ELSE reads[b]
  BY DEF Holds, ConfigInv, ConfigTyped
<1>3. \A b \in Calls : Stage(b)' \in Carrying \cup {"done"}
                         => reads'[b] = reads[b] \/ Fresh(Version(b)')
  BY <1>2 DEF Stage, Version
<1>6. \A b \in Calls : Stage(b)' \in HasRow
                         => reads'[b] = reads[b] \/ Version(b)' # NoValue
  BY <1>2 DEF Stage, Version
<1>4. ConfigInv' BY <1>1, <1>3, <1>6, Copying
<1>5. Answering BY <1>3 DEF Answering
<1> QED BY <1>4, <1>5

LEMMA ReadSteps ==
  ASSUME ConfigInv, NEW c \in Calls, BeginRead(c) \/ ReadStep(c)
  PROVE  ConfigInv' /\ Answering
<1> USE DEF ConfigTyped, ReadStages, Carrying, HasRow, caches
<1>1. /\ reads[c].version \in Nat /\ Len(rows) \in Nat /\ Len(rows) # NoValue
      /\ Stage(c) \in HasRow => reads[c].version # NoValue
      /\ Stage(c) \in Carrying => Fresh(reads[c].version)
      /\ NoValue \in Nat /\ Fresh(NoValue)
  BY DEF ConfigInv, Version, NoValue, Fresh
<1>2. CASE MemoryHit(c) BY <1>1, <1>2, Reading DEF MemoryHit, ConfigInv
<1>3. CASE Ask(c) BY <1>1, <1>3, Reading DEF Ask, ConfigInv
<1>4. CASE GetAnswers(c)
  BY <1>1, <1>4, Reading DEF GetAnswers, Answered, ConfigInv
<1>5. CASE GetFails(c)
  BY <1>1, <1>5, Reading DEF GetFails, Answered, ConfigInv
<1>6. CASE QueryRow(c)
  <2>1. Fresh(Len(rows)) BY DEF ConfigInv, Fresh
  <2> QED BY <1>1, <1>6, <2>1, Reading DEF QueryRow, ConfigInv
<1>7. CASE QueryFails(c) BY <1>1, <1>7, Reading DEF QueryFails, ConfigInv
<1>8. CASE Store(c) BY <1>1, <1>8, Reading DEF Store, ConfigInv
<1>9. CASE SetFails(c) BY <1>1, <1>9, Reading DEF SetFails, ConfigInv
<1> QED
  BY <1>2, <1>3, <1>4, <1>5, <1>6, <1>7, <1>8, <1>9 DEF BeginRead, ReadStep

\* The newest row is newer than every invalidation.
LEMMA NewRowFresh ==
  ASSUME ConfigInv, NewRow, UNCHANGED <<caches, reads, ghosts>>,
         writes' \in [Writers -> [stage : {"idle", "written", "refused"}, version : Nat]],
         \A w \in Writers : writes'[w].version <= Len(rows) + 1
  PROVE  ConfigInv' /\ Answering
<1>1. rows' \in Seq(BOOLEAN) /\ Len(rows') = Len(rows) + 1
  BY DEF NewRow, ConfigInv, ConfigTyped
<1>2. ConfigTyped' BY <1>1 DEF ConfigInv, ConfigTyped, caches, ghosts
<1>3. Fresh(memory)' /\ Fresh(cached)' /\ Fresh(spare)'
  BY DEF ConfigInv, Fresh, Missed, caches, ghosts
<1>4. \A c \in Calls : Stage(c)' \in Carrying => Fresh(Version(c))'
  BY DEF ConfigInv, Stage, Version, Fresh, Missed, ghosts
<1>5. Answering BY DEF Answering
<1>6. /\ invalidated' <= Len(rows') /\ Len(rows') # 0
      /\ \A w \in Writers : writes'[w].version <= Len(rows')
  BY <1>1 DEF ConfigInv, ConfigTyped, ghosts
<1>7. (~useFallback => spare = NoValue)' BY DEF ConfigInv, caches
<1>8. \A c \in Calls : Stage(c)' \in HasRow => Version(c)' # NoValue
  BY DEF ConfigInv, Stage, Version
<1> QED BY <1>2, <1>3, <1>4, <1>5, <1>6, <1>7, <1>8 DEF ConfigInv, NoValue

\* The invalidation misses the copies it is noted to have missed, and no other.
LEMMA Invalidating ==
  ASSUME ConfigInv, NEW w \in Writers, Invalidate(w)
  PROVE  ConfigInv' /\ Answering
<1> PICK n : n = writes[w].version OBVIOUS
<1>1. n \in Nat /\ n <= Len(rows) BY DEF ConfigInv, ConfigTyped
<1>2. /\ rows' = rows /\ reads' = reads /\ memory' = NoValue
      /\ useFallback' = useFallback
      /\ invalidated' = IF n > invalidated THEN n ELSE invalidated
      /\ exposed' = IF InHand(n) \/ cached' \in 1..(n - 1)
                    THEN exposed \cup {n} ELSE exposed
  BY DEF Invalidate, NotesInvalidation
<1>3. /\ cached' \in {cached, NoValue}
      /\ spare' = NoValue
      /\ writes' \in [Writers -> [stage : {"idle", "written", "refused"}, version : Nat]]
      /\ \A x \in Writers : writes'[x].version <= Len(rows)
  <2>1. cached' \in {cached, NoValue} BY DEF Invalidate
  <2>2. spare' = NoValue BY DEF Invalidate, ConfigInv
  <2>3. PICK r \in [stage : {"idle", "written", "refused"}, version : Nat] :
          writes' = [writes EXCEPT ![w] = r] /\ r.version <= Len(rows)
    <3>1. /\ NoWrite \in [stage : {"idle", "written", "refused"}, version : Nat]
          /\ NoWrite.version <= Len(rows)
      BY DEF NoWrite, NoRead, NoValue, ConfigInv, ConfigTyped
    <3>2. /\ [writes[w] EXCEPT !.stage = "refused"]
               \in [stage : {"idle", "written", "refused"}, version : Nat]
          /\ [writes[w] EXCEPT !.stage = "refused"].version <= Len(rows)
      BY DEF ConfigInv, ConfigTyped
    <3>3. \/ writes' = [writes EXCEPT ![w] = NoWrite]
          \/ writes' = [writes EXCEPT ![w] = [writes[w] EXCEPT !.stage = "refused"]]
      BY DEF Invalidate
    <3> QED BY <3>1, <3>2, <3>3
  <2> QED BY <2>1, <2>2, <2>3 DEF ConfigInv, ConfigTyped
<1>4. ConfigTyped'
  <2>1. exposed' \subseteq Nat BY <1>1, <1>2 DEF ConfigInv, ConfigTyped
  <2>2. memory' \in Nat /\ cached' \in Nat /\ spare' \in Nat /\ invalidated' \in Nat
    BY <1>1, <1>2, <1>3 DEF ConfigInv, ConfigTyped, NoValue
  <2> QED BY <1>2, <1>3, <2>1, <2>2 DEF ConfigInv, ConfigTyped
<1>5. invalidated' <= Len(rows')
  BY <1>1, <1>2 DEF ConfigInv, ConfigTyped
<1>6. ASSUME NEW v \in Nat, Fresh(v), v \in 1..(n - 1) => n \in exposed'
      PROVE  v = NoValue \/ v >= invalidated' \/ \E x \in exposed' : x > v
  <2>1. CASE v \in 1..(n - 1) BY <1>1, <1>6, <2>1
  <2>2. CASE v \notin 1..(n - 1)
    <3>1. v = 0 \/ v >= n BY <1>1, <2>2
    <3>2. exposed \subseteq exposed' BY <1>2
    <3> QED BY <1>1, <1>2, <1>6, <3>1, <3>2 DEF Fresh, Missed, NoValue, ConfigInv, ConfigTyped
  <2> QED BY <2>1, <2>2
<1>7. Fresh(memory)' /\ Fresh(spare)' BY <1>2, <1>3 DEF Fresh
<1>8. Fresh(cached)'
  <2>1. CASE cached' = NoValue BY <2>1 DEF Fresh
  <2>2. CASE cached' = cached
    <3>1. cached \in 1..(n - 1) => n \in exposed' BY <1>2, <2>2
    <3>2. cached \in Nat /\ Fresh(cached) BY DEF ConfigInv, ConfigTyped
    <3> QED BY <1>6, <2>2, <3>1, <3>2 DEF Fresh, Missed
  <2> QED BY <1>3, <2>1, <2>2
<1>9. ASSUME NEW c \in Calls, Stage(c)' \in Carrying PROVE Fresh(Version(c))'
  <2>1. Version(c)' = Version(c) /\ Stage(c)' = Stage(c) BY <1>2 DEF Version, Stage
  <2>2. Version(c) \in Nat /\ Fresh(Version(c))
    BY <1>9, <2>1 DEF ConfigInv, ConfigTyped, Version
  <2>3. Version(c) \in 1..(n - 1) => n \in exposed'
    BY <1>2, <1>9, <2>1 DEF InHand, Carrying, Version
  <2> QED BY <1>6, <2>1, <2>2, <2>3 DEF Fresh, Missed
<1>10. Answering BY <1>2 DEF Answering
<1>11. (~useFallback => spare = NoValue)' BY <1>3
<1>12. \A c \in Calls : Stage(c)' \in HasRow => Version(c)' # NoValue
  BY <1>2 DEF ConfigInv, Stage, Version
<1>13. Len(rows') # 0 BY <1>2 DEF ConfigInv
<1> QED
  BY <1>2, <1>3, <1>4, <1>5, <1>7, <1>8, <1>9, <1>10, <1>11, <1>12, <1>13
  DEF ConfigInv, NoValue

LEMMA WriteSteps ==
  ASSUME ConfigInv, NEW w \in Writers, WriteStep(w)
  PROVE  ConfigInv' /\ Answering
<1>1. CASE WriteRow(w)
  <2>1. /\ writes' \in [Writers -> [stage : {"idle", "written", "refused"}, version : Nat]]
        /\ \A x \in Writers : writes'[x].version <= Len(rows) + 1
    BY <1>1 DEF WriteRow, ConfigInv, ConfigTyped
  <2> QED BY <1>1, <2>1, NewRowFresh DEF WriteRow
<1>2. CASE DelFails(w)
  <2>1. /\ UNCHANGED <<rows, memory, cached, reads, ghosts>>
        /\ spare' = NoValue /\ useFallback' = TRUE
        /\ writes' \in [Writers -> [stage : {"idle", "written", "refused"}, version : Nat]]
        /\ \A x \in Writers : writes'[x].version <= writes[x].version
    BY <1>2 DEF DelFails, ConfigInv, ConfigTyped, NoWrite, NoRead, NoValue
  <2>2. ConfigInv'
    BY <2>1, Copying DEF ConfigInv, ConfigTyped, Fresh, NoValue
  <2>3. Answering BY <2>1 DEF Answering
  <2> QED BY <2>2, <2>3
<1> QED BY <1>1, <1>2, Invalidating DEF WriteStep

LEMMA OtherSteps ==
  ASSUME ConfigInv,
         ApiWrites \/ Expire \/ ConfigCrash
           \/ UNCHANGED <<rows, caches, reads, writes, ghosts>>
  PROVE  ConfigInv' /\ Answering
<1>1. CASE ApiWrites
  <2>1. \A w \in Writers : writes'[w].version <= Len(rows) + 1
    BY <1>1 DEF ApiWrites, ConfigInv, ConfigTyped
  <2> QED BY <1>1, <2>1, NewRowFresh DEF ApiWrites, ConfigInv, ConfigTyped
<1>2. CASE Expire \/ UNCHANGED <<rows, caches, reads, writes, ghosts>>
  <2>1. /\ UNCHANGED <<rows, reads, writes, ghosts, useFallback>>
        /\ memory' \in {memory, NoValue} /\ cached' \in {cached, NoValue}
        /\ spare' \in {spare, NoValue}
    BY <1>2 DEF Expire, MemoryExpires, KeyExpires, SpareExpires, caches
  <2>2. ConfigInv'
    BY <2>1, Copying DEF ConfigInv, ConfigTyped, Fresh, NoValue
  <2> QED BY <2>1, <2>2 DEF Answering
<1>3. CASE ConfigCrash
  <2>1. /\ UNCHANGED <<rows, cached, ghosts>>
        /\ memory' = NoValue /\ spare' = NoValue /\ useFallback' = FALSE
        /\ \A c \in Calls : reads'[c] = NoRead
        /\ reads' \in [Calls -> [stage : ReadStages, version : Nat]]
        /\ writes' \in [Writers -> [stage : {"idle", "written", "refused"}, version : Nat]]
        /\ \A x \in Writers : writes'[x].version <= writes[x].version
    BY <1>3 DEF ConfigCrash, ConfigInv, ConfigTyped, NoWrite, NoRead, NoValue, ReadStages
  <2>2. \A c \in Calls : Stage(c)' = "idle" BY <2>1 DEF Stage, NoRead
  <2>3. ConfigInv'
    BY <2>1, <2>2, Copying DEF ConfigInv, ConfigTyped, Fresh, NoValue, Carrying, HasRow
  <2> QED BY <2>2, <2>3 DEF Answering
<1> QED BY <1>1, <1>2, <1>3

\* A call is over: what it read is dropped.
LEMMA ReadOver ==
  ASSUME ConfigInv, NEW c \in Calls, reads' = [reads EXCEPT ![c] = NoRead],
         UNCHANGED <<rows, caches, writes, ghosts>>
  PROVE  ConfigInv' /\ Answering
<1>1. Holds(c, "idle", NoValue) BY DEF Holds, NoRead
<1> QED BY <1>1, Reading DEF caches, ConfigInv, ConfigTyped, ReadStages, Carrying, HasRow, NoValue

LEMMA ConfigSteps ==
  ConfigInv /\ [VerificationNext]_verificationVars => ConfigInv' /\ Answering
<1> SUFFICES ASSUME ConfigInv, [VerificationNext]_verificationVars
             PROVE ConfigInv' /\ Answering OBVIOUS
<1>0. /\ Flows \subseteq Calls /\ Clicks \subseteq Calls BY VerificationAssumption
<1>1. ASSUME NEW f \in Flows, Press(f) PROVE ConfigInv' /\ Answering
  BY <1>0, <1>1, ReadSteps DEF Press
<1>2. ASSUME NEW f \in Flows, Started(f) PROVE ConfigInv' /\ Answering
  BY <1>0, <1>2, ReadOver DEF Started
<1>3. ASSUME NEW f \in Flows,
             \/ Submit(f) \/ FormHandled(f) \/ FormFails(f) \/ ChooseClass(f)
             \/ \E k \in Clicks : Select(k, f)
      PROVE  ConfigInv' /\ Answering
  BY <1>3, OtherSteps DEF Submit, FormHandled, FormFails, ChooseClass, Select, configVars
<1>4. ASSUME NEW k \in Clicks, ClassFound(k) PROVE ConfigInv' /\ Answering
  BY <1>0, <1>4, ReadSteps DEF ClassFound
<1>5. ASSUME NEW k \in Clicks,
             ClassFails(k) \/ NotSetUp(k) \/ RolesFail(k) \/ RecordRequest(k)
      PROVE  ConfigInv' /\ Answering
  BY <1>0, <1>5, ReadOver DEF ClassFails, NotSetUp, RolesFail, RecordRequest, Closes
<1>6. ASSUME NEW k \in Clicks, TakeName(k) \/ AddRoles(k) \/ SetNickname(k)
      PROVE  ConfigInv' /\ Answering
  BY <1>6, OtherSteps DEF TakeName, AddRoles, SetNickname, configVars
<1>7. CASE NameExpires \/ UNCHANGED verificationVars
  BY <1>7, OtherSteps DEF NameExpires, verificationVars, configVars
<1>8. CASE Crash BY <1>8, OtherSteps DEF Crash
<1> QED
  BY <1>1, <1>2, <1>3, <1>4, <1>5, <1>6, <1>7, <1>8, ReadSteps, WriteSteps, OtherSteps
  DEF VerificationNext

\* Invalidations are never forgotten.
LEMMA GhostsGrow ==
  ConfigInv /\ [VerificationNext]_verificationVars
    => invalidated <= invalidated' /\ exposed \subseteq exposed'
<1> SUFFICES ASSUME ConfigInv, [VerificationNext]_verificationVars
             PROVE  invalidated <= invalidated' /\ exposed \subseteq exposed'
  OBVIOUS
<1>0. invalidated \in Nat /\ \A w \in Writers : writes[w].version \in Nat
  BY DEF ConfigInv, ConfigTyped
<1>1. ASSUME NEW c \in Calls, BeginRead(c) \/ ReadStep(c) PROVE UNCHANGED ghosts
  BY <1>1 DEF BeginRead, MemoryHit, Ask, ReadStep, GetAnswers, GetFails, QueryRow,
              QueryFails, Store, SetFails
<1>2. ASSUME NEW w \in Writers, WriteStep(w)
      PROVE  invalidated <= invalidated' /\ exposed \subseteq exposed'
  <2>1. CASE Invalidate(w) BY <1>0, <2>1 DEF Invalidate, NotesInvalidation
  <2>2. CASE WriteRow(w) \/ DelFails(w) BY <1>0, <2>2 DEF WriteRow, DelFails, ghosts
  <2> QED BY <1>2, <2>1, <2>2 DEF WriteStep
<1>3. CASE ApiWrites \/ Expire \/ Crash \/ NameExpires \/ UNCHANGED verificationVars
  BY <1>0, <1>3 DEF ApiWrites, Expire, MemoryExpires, KeyExpires, SpareExpires,
     Crash, ConfigCrash, NameExpires, verificationVars, configVars, ghosts
<1>4. ASSUME NEW f \in Flows,
             \/ Press(f) \/ Started(f) \/ Submit(f) \/ FormHandled(f) \/ FormFails(f)
             \/ ChooseClass(f)
             \/ \E k \in Clicks : Select(k, f)
      PROVE  UNCHANGED ghosts
  BY <1>1, <1>4, VerificationAssumption
  DEF Press, Started, Submit, FormHandled, FormFails, ChooseClass, Select, configVars
<1>5. ASSUME NEW k \in Clicks,
             \/ ClassFound(k) \/ ClassFails(k) \/ NotSetUp(k) \/ TakeName(k)
             \/ AddRoles(k) \/ RolesFail(k) \/ SetNickname(k) \/ RecordRequest(k)
      PROVE  UNCHANGED ghosts
  BY <1>1, <1>5, VerificationAssumption
  DEF ClassFound, ClassFails, NotSetUp, TakeName, AddRoles, RolesFail, SetNickname,
      RecordRequest, configVars
<1> QED BY <1>0, <1>1, <1>2, <1>3, <1>4, <1>5 DEF VerificationNext, ghosts

-----------------------------------------------------------------------------
(* The clicks.                                                             *)

ClickStages == {"idle", "class", "config", "roles", "nickname", "record", "over"}

ClickTyped ==
  /\ typed \in Flows \cup {NoOne}
  /\ click \in [Clicks -> [stage : ClickStages, flow : Flows \cup {NoOne},
                            name : Names \cup {NoOne}, begin : Nat]]

LEMMA ClickInitially == VerificationInit => ClickTyped
BY DEF VerificationInit, ClickTyped, NoClick, ClickStages, NoValue

LEMMA ClickSteps ==
  ConfigInv /\ ClickTyped /\ [VerificationNext]_verificationVars => ClickTyped'
<1> SUFFICES ASSUME ConfigInv, ClickTyped, [VerificationNext]_verificationVars
             PROVE ClickTyped' OBVIOUS
<1>0. /\ NoClick \in [stage : ClickStages, flow : Flows \cup {NoOne},
                      name : Names \cup {NoOne}, begin : Nat]
      /\ Over \in [stage : ClickStages, flow : Flows \cup {NoOne},
                   name : Names \cup {NoOne}, begin : Nat]
  BY DEF NoClick, Over, ClickStages, NoValue
<1>1. ASSUME NEW f \in Flows,
             \/ Press(f) \/ Started(f) \/ Submit(f) \/ FormHandled(f) \/ FormFails(f)
             \/ ChooseClass(f)
      PROVE  ClickTyped'
  BY <1>1 DEF Press, Started, Submit, FormHandled, FormFails, ChooseClass, ClickTyped
<1>2. ASSUME NEW k \in Clicks, NEW f \in Flows, Select(k, f) PROVE ClickTyped'
  BY <1>2, <1>0 DEF Select, ClickTyped, NoClick, ClickStages
<1>3. ASSUME NEW k \in Clicks, ClassFound(k) PROVE ClickTyped'
  <2>1. invalidated \in Nat BY DEF ConfigInv, ConfigTyped
  <2>2. [click[k] EXCEPT !.stage = "config", !.begin = invalidated]
          \in [stage : ClickStages, flow : Flows \cup {NoOne},
              name : Names \cup {NoOne}, begin : Nat]
    BY <2>1 DEF ClickTyped, ClickStages
  <2>3. click' = [click EXCEPT ![k] = [click[k] EXCEPT !.stage = "config",
                                                      !.begin = invalidated]]
    BY <1>3 DEF ClassFound, ClickTyped
  <2> QED BY <1>3, <2>2, <2>3 DEF ClassFound, ClickTyped
<1>4. ASSUME NEW k \in Clicks,
             ClassFails(k) \/ NotSetUp(k) \/ RolesFail(k) \/ RecordRequest(k)
      PROVE  ClickTyped'
  <2>1. click' = [click EXCEPT ![k] = Over] /\ typed' = typed
    BY <1>4 DEF ClassFails, NotSetUp, RolesFail, RecordRequest, Closes
  <2> QED BY <1>0, <2>1 DEF ClickTyped
<1>5. ASSUME NEW k \in Clicks, TakeName(k) PROVE ClickTyped'
  <2>1. PICK name \in Names : click' = [click EXCEPT ![k].stage = "roles", ![k].name = name]
    BY <1>5 DEF TakeName, ClickTyped, Names
  <2>2. [click[k] EXCEPT !.stage = "roles", !.name = name]
          \in [stage : ClickStages, flow : Flows \cup {NoOne},
              name : Names \cup {NoOne}, begin : Nat]
    BY DEF ClickTyped, ClickStages
  <2>3. click' = [click EXCEPT ![k] = [click[k] EXCEPT !.stage = "roles", !.name = name]]
    BY <2>1 DEF ClickTyped
  <2> QED BY <1>5, <2>2, <2>3 DEF TakeName, ClickTyped
<1>6. ASSUME NEW k \in Clicks, AddRoles(k) \/ SetNickname(k) PROVE ClickTyped'
  BY <1>6 DEF AddRoles, SetNickname, ClickAt, ClickTyped, ClickStages
<1>7. CASE NameExpires \/ UNCHANGED verification \/ UNCHANGED verificationVars
  BY <1>7 DEF NameExpires, verification, verificationVars, ClickTyped
<1>8. CASE Crash
  BY <1>8, <1>0 DEF Crash, ClickTyped
<1> QED BY <1>1, <1>2, <1>3, <1>4, <1>5, <1>6, <1>7, <1>8 DEF VerificationNext

-----------------------------------------------------------------------------
(* The name.  A form that has not been handled has left its name nowhere;  *)
(* afterwards the name is in one place at most, until the roles are given. *)

Screens == {"none", "starting", "form", "submitted", "classes", "subclasses", "over"}

Sent(f) == screen[f] \in {"classes", "subclasses", "over"}

Stored(f)  == typed = f
Held(k, f) == click[k].name = f
Used(f)    == \E g \in granted : g.name = f

NameInv ==
  /\ screen \in [Flows -> Screens]
  /\ DOMAIN click = Clicks
  /\ \A f \in Flows :
       /\ ~Sent(f) => ~Stored(f) /\ ~Used(f) /\ \A k \in Clicks : ~Held(k, f)
       /\ Stored(f) => ~Used(f) /\ \A k \in Clicks : ~Held(k, f)
       /\ \A k \in Clicks : Held(k, f) =>
            /\ click[k].stage = "roles" => ~Used(f)
            /\ \A l \in Clicks : Held(l, f) => l = k
       /\ \A g, h \in granted : g.name = f /\ h.name = f => g = h

LEMMA NoNameIsAForm == \A f \in Flows : f # NoOne /\ f # Username
BY VerificationAssumption

LEMMA NameInit == VerificationInit => NameInv
<1> SUFFICES ASSUME VerificationInit PROVE NameInv OBVIOUS
<1>1. \A k \in Clicks : click[k].name = NoOne BY DEF VerificationInit, NoClick
<1>2. screen \in [Flows -> Screens] BY DEF VerificationInit, Screens
<1>3. typed = NoOne /\ granted = {} /\ DOMAIN click = Clicks BY DEF VerificationInit
<1> QED BY <1>1, <1>2, <1>3, NoNameIsAForm DEF NameInv, Stored, Held, Used

\* A step that stores and takes no name, sends no form back and grants nothing.
LEMMA NameKept ==
  ASSUME NameInv, granted' = granted, typed' \in {typed, NoOne},
         screen' \in [Flows -> Screens], \A f \in Flows : Sent(f) => Sent(f)',
         DOMAIN click' = Clicks,
         \A k \in Clicks :
            \/ click'[k].name = NoOne
            \/ click'[k].name = click[k].name
                 /\ (click'[k].stage = "roles" => click[k].stage = "roles")
  PROVE  NameInv'
<1> SUFFICES ASSUME NEW f \in Flows
             PROVE  /\ ~Sent(f)' => ~Stored(f)' /\ ~Used(f)' /\ \A k \in Clicks : ~Held(k, f)'
                    /\ Stored(f)' => ~Used(f)' /\ \A k \in Clicks : ~Held(k, f)'
                    /\ \A k \in Clicks : Held(k, f)' =>
                         /\ click'[k].stage = "roles" => ~Used(f)'
                         /\ \A l \in Clicks : Held(l, f)' => l = k
                    /\ \A g, h \in granted' : g.name = f /\ h.name = f => g = h
  BY DEF NameInv
<1>1. Stored(f)' => Stored(f) BY NoNameIsAForm DEF Stored
<1>2. \A k \in Clicks : Held(k, f)' =>
         Held(k, f) /\ (click'[k].stage = "roles" => click[k].stage = "roles")
  BY NoNameIsAForm DEF Held
<1>3. Used(f)' => Used(f) BY DEF Used
<1> QED BY <1>1, <1>2, <1>3 DEF NameInv

LEMMA NameHandled ==
  ASSUME NameInv, NEW f \in Flows, FormHandled(f)
  PROVE  NameInv'
<1>1. /\ screen[f] = "submitted" /\ typed' = f /\ UNCHANGED <<click, granted>>
      /\ \E s \in {"classes", "over"} : screen' = [screen EXCEPT ![f] = s]
  BY DEF FormHandled, Shows
<1>2. screen' \in [Flows -> Screens] /\ Sent(f)'
      /\ \A e \in Flows \ {f} : screen'[e] = screen[e]
  BY <1>1 DEF NameInv, Screens, Sent
<1>3. ~Sent(f) /\ \A e \in Flows \ {f} : Sent(e)' <=> Sent(e)
  BY <1>1, <1>2 DEF Sent
<1>4. /\ \A e \in Flows : Used(e)' <=> Used(e)
      /\ \A e \in Flows, k \in Clicks : Held(k, e)' <=> Held(k, e)
      /\ \A e \in Flows : Stored(e)' <=> e = f
  BY <1>1 DEF Used, Held, Stored
<1> QED BY <1>1, <1>2, <1>3, <1>4 DEF NameInv

LEMMA NameTaken ==
  ASSUME NameInv, NEW k \in Clicks, TakeName(k)
  PROVE  NameInv'
<1> DEFINE n == IF typed = NoOne THEN Username ELSE typed
<1>1. /\ typed' = NoOne /\ UNCHANGED <<screen, granted>>
      /\ click' = [click EXCEPT ![k] = [click[k] EXCEPT !.stage = "roles", !.name = n]]
  BY DEF TakeName, NameInv
<1>2. \A f \in Flows : Used(f)' <=> Used(f) BY <1>1 DEF Used
<1>3. \A f \in Flows : ~Stored(f)' /\ (Sent(f)' <=> Sent(f))
  BY <1>1, NoNameIsAForm DEF Stored, Sent
<1>4. \A f \in Flows, l \in Clicks : Held(l, f)' =>
         \/ l = k /\ Stored(f)
         \/ l # k /\ Held(l, f) /\ click'[l] = click[l]
  BY <1>1, NoNameIsAForm DEF Held, Stored, NameInv
<1> QED BY <1>1, <1>2, <1>3, <1>4 DEF NameInv

LEMMA NameGranted ==
  ASSUME NameInv, NEW k \in Clicks, AddRoles(k)
  PROVE  NameInv'
<1> DEFINE r == [click |-> k, name |-> click[k].name,
                 version |-> Version(k), begin |-> click[k].begin]
<1>1. /\ click[k].stage = "roles" /\ UNCHANGED <<typed, screen>>
      /\ granted' = granted \cup {r}
      /\ click' = [click EXCEPT ![k].stage = "nickname"]
  BY DEF AddRoles, ClickAt
<1>2. r.name = click[k].name OBVIOUS
<1> HIDE DEF r
<1>3. /\ DOMAIN click' = Clicks
      /\ \A l \in Clicks : click'[l].name = click[l].name
      /\ \A l \in Clicks : click'[l].stage = "roles" => click[l].stage = "roles" /\ l # k
  BY <1>1 DEF NameInv
<1>4. \A f \in Flows :
        /\ Stored(f)' <=> Stored(f)
        /\ Sent(f)' <=> Sent(f)
        /\ Used(f)' <=> Used(f) \/ Held(k, f)
        /\ \A l \in Clicks : Held(l, f)' <=> Held(l, f)
  BY <1>1, <1>2, <1>3 DEF Stored, Sent, Used, Held
<1>5. \A f \in Flows : \A g, h \in granted' : g.name = f /\ h.name = f => g = h
  BY <1>1, <1>2 DEF NameInv, Used, Held
<1> QED BY <1>1, <1>3, <1>4, <1>5 DEF NameInv

LEMMA NameStep == NameInv /\ ClickTyped /\ [VerificationNext]_verificationVars => NameInv'
<1> SUFFICES ASSUME NameInv, ClickTyped, [VerificationNext]_verificationVars
             PROVE NameInv' OBVIOUS
<1>1. ASSUME NEW f \in Flows,
             Press(f) \/ Started(f) \/ Submit(f) \/ FormFails(f) \/ ChooseClass(f)
      PROVE  NameInv'
  <2>1. /\ UNCHANGED <<typed, click, granted>>
        /\ \E s \in Screens :
             /\ screen' = [screen EXCEPT ![f] = s]
             /\ Sent(f) => s = "subclasses"
    BY <1>1 DEF Press, Started, Submit, FormFails, ChooseClass, Shows, Screens, Sent
  <2>2. screen' \in [Flows -> Screens] /\ \A e \in Flows : Sent(e) => Sent(e)'
    BY <2>1 DEF NameInv, Sent
  <2> QED BY <2>1, <2>2, NameKept DEF NameInv
<1>2. ASSUME NEW k \in Clicks, NEW f \in Flows, Select(k, f) PROVE NameInv'
  <2>1. UNCHANGED <<screen, typed, granted>> /\ DOMAIN click' = Clicks
    BY <1>2 DEF Select, NameInv
  <2>2. \A l \in Clicks : click'[l].name = NoOne \/ click'[l] = click[l]
    BY <1>2 DEF Select, NameInv, NoClick
  <2> QED BY <2>1, <2>2, NameKept DEF NameInv, Sent
<1>3. ASSUME NEW k \in Clicks, ClassFound(k) \/ SetNickname(k) PROVE NameInv'
  <2>1. UNCHANGED <<screen, typed, granted>> /\ DOMAIN click' = Clicks
    BY <1>3 DEF ClassFound, SetNickname, ClickAt, NameInv
  <2>2. \A l \in Clicks : click'[l].name = click[l].name
                            /\ (click'[l].stage = "roles" => click[l].stage = "roles")
    BY <1>3 DEF ClassFound, SetNickname, ClickAt, ClickTyped
  <2> QED BY <2>1, <2>2, NameKept DEF NameInv, Sent
<1>4. ASSUME NEW k \in Clicks,
             ClassFails(k) \/ NotSetUp(k) \/ RolesFail(k) \/ RecordRequest(k)
      PROVE  NameInv'
  <2>1. Closes(k) /\ UNCHANGED <<typed, granted>>
    BY <1>4 DEF ClassFails, NotSetUp, RolesFail, RecordRequest
  <2>2. screen' \in [Flows -> Screens] /\ \A e \in Flows : Sent(e) => Sent(e)'
    BY <2>1 DEF Closes, Shows, NameInv, Screens, Sent
  <2>3. /\ DOMAIN click' = Clicks
        /\ \A l \in Clicks : click'[l].name = NoOne \/ click'[l] = click[l]
    BY <2>1 DEF Closes, Over, NoClick, NameInv
  <2> QED BY <2>1, <2>2, <2>3, NameKept
<1>5. CASE UNCHANGED verification \/ UNCHANGED verificationVars
  BY <1>5, NameKept DEF verificationVars, verification, NameInv, Sent
<1>6. CASE NameExpires
  BY <1>6, NameKept DEF NameExpires, NameInv, Sent
<1>7. CASE Crash
  <2>1. typed' = NoOne /\ granted' = granted BY <1>7 DEF Crash
  <2>2. ASSUME NEW f \in Flows
        PROVE  screen'[f] \in Screens /\ (Sent(f) => Sent(f)')
    BY <1>7 DEF Crash, NameInv, Screens, Sent
  <2>3. screen' \in [Flows -> Screens]
    <3> DEFINE g == [f \in Flows |-> CASE screen[f] = "starting" -> "none"
                                  [] screen[f] = "submitted" -> "form"
                                  [] OTHER -> screen[f]]
    <3>1. screen' = g BY <1>7 DEF Crash
    <3>2. g = [f \in Flows |-> g[f]] OBVIOUS
    <3> HIDE DEF g
    <3> QED BY <2>2, <3>1, <3>2
  <2>4. /\ DOMAIN click' = Clicks
        /\ \A k \in Clicks : click'[k].name = NoOne
    BY <1>7 DEF Crash, NoClick, Over
  <2> QED BY <2>1, <2>2, <2>3, <2>4, NameKept
<1> QED
  BY <1>1, <1>2, <1>3, <1>4, <1>5, <1>6, <1>7, NameHandled, NameTaken, NameGranted
  DEF VerificationNext

\* However the menus are clicked, and whatever is pressed, typed or restarted
\* meanwhile, a name typed into a form verifies the member at most once
\* (VerificationHandler.ts, handleSubclassSelect; temporaryStorage.ts).
THEOREM OneUsePerName == VerificationSpec => []NameUsedOnce
<1>1. NameInv => NameUsedOnce
  <2> SUFFICES ASSUME NameInv, NEW f \in Flows
               PROVE  Cardinality({g \in granted : g.name = f}) <= 1
    BY DEF NameUsedOnce
  <2> DEFINE S == {g \in granted : g.name = f}
  <2>1. CASE S = {} BY <2>1, FS_EmptySet
  <2>2. CASE S # {}
    <3>1. PICK g \in S : TRUE BY <2>2
    <3>2. S = {g} BY DEF NameInv
    <3>3. Cardinality({g}) = 1 BY FS_Singleton
    <3> QED BY <3>2, <3>3
  <2> QED BY <2>1, <2>2
<1>2. VerificationInit => ConfigInv BY ConfigInitially DEF VerificationInit
<1> QED
  BY <1>1, <1>2, ConfigSteps, ClickInitially, ClickSteps, NameInit, NameStep, PTL DEF VerificationSpec

-----------------------------------------------------------------------------
(* The roles.  A click that has its answer has one that suits it.          *)

Suits(version, begin) == version < begin => Missed(version)

RolesInv ==
  /\ \A k \in Clicks :
       /\ click[k].begin <= invalidated
       /\ click[k].stage \in {"config", "roles"} /\ Stage(k) = "done"
            => Suits(Version(k), click[k].begin)
       /\ click[k].stage = "roles" => Stage(k) = "done"
  /\ RoleIsCurrent

LEMMA RolesInitially == VerificationInit => RolesInv
BY DEF VerificationInit, ConfigInit, RolesInv, RoleIsCurrent, NoClick, NoValue

\* A copy that is fresh when it is read suits everyone who asked before.
LEMMA FreshSuits ==
  ASSUME ConfigInv, NEW version \in Nat, version # NoValue, Fresh(version),
         NEW begin \in Nat, begin <= invalidated
  PROVE  Suits(version, begin)
BY DEF ConfigInv, ConfigTyped, Fresh, Suits

\* Clicks that stay where they are, or close, or begin again.
LEMMA RolesKept ==
  ASSUME ConfigInv, ClickTyped, RolesInv, [VerificationNext]_verificationVars, granted' = granted,
         \A k \in Clicks :
            \/ click'[k] = click[k] /\ (click[k].stage = "roles" => reads'[k] = reads[k])
            \/ click'[k].begin = NoValue /\ click'[k].stage \notin {"config", "roles"}
            \/ click'[k].begin = click[k].begin
                 /\ click'[k].stage \notin {"config", "roles"}
  PROVE  RolesInv'
<1>1. /\ ConfigInv' /\ Answering /\ ClickTyped'
      /\ invalidated <= invalidated' /\ exposed \subseteq exposed'
  BY ConfigSteps, ClickSteps, GhostsGrow
<1>2. invalidated \in Nat /\ invalidated' \in Nat /\ Clicks \subseteq Calls
  BY <1>1, VerificationAssumption DEF ConfigInv, ConfigTyped
<1>3. RoleIsCurrent' BY <1>1 DEF RolesInv, RoleIsCurrent
<1>4. ASSUME NEW k \in Clicks PROVE click'[k].begin <= invalidated'
  BY <1>1, <1>2, <1>4 DEF RolesInv, ClickTyped, NoValue
<1>5. ASSUME NEW k \in Clicks, click'[k].stage \in {"config", "roles"}, Stage(k)' = "done"
      PROVE  Suits(Version(k), click[k].begin)'
  <2>1. click'[k] = click[k] BY <1>5
  <2>2. CASE reads'[k] = reads[k]
    <3>1. Suits(Version(k), click[k].begin) BY <1>5, <2>1, <2>2 DEF RolesInv, Stage
    <3> QED BY <1>1, <2>1, <2>2, <3>1 DEF Suits, Missed, Version
  <2>3. CASE Fresh(Version(k)')
    <3>1. Version(k)' \in Nat /\ Version(k)' # NoValue
      BY <1>1, <1>2, <1>5 DEF ConfigInv, ConfigTyped, HasRow, Version
    <3>2. Suits(Version(k)', click[k].begin)
      BY <2>3, <3>1, FreshSuits DEF ClickTyped, RolesInv
    <3> QED BY <1>1, <2>1, <3>2 DEF Suits, Missed
  <2> QED BY <1>1, <1>2, <1>5, <2>2, <2>3 DEF Answering
<1>6. ASSUME NEW k \in Clicks, click'[k].stage = "roles" PROVE Stage(k)' = "done"
  BY <1>6 DEF RolesInv, Stage
<1> QED BY <1>3, <1>4, <1>5, <1>6 DEF RolesInv

LEMMA RolesFound ==
  ASSUME ConfigInv, ClickTyped, RolesInv, NEW k \in Clicks, ClassFound(k),
         ConfigInv', Answering
  PROVE  RolesInv'
<1>1. /\ UNCHANGED ghosts /\ granted' = granted
      /\ click' = [click EXCEPT ![k] = [click[k] EXCEPT !.stage = "config",
                                                        !.begin = invalidated]]
  BY DEF ClassFound, BeginRead, MemoryHit, Ask, ClickTyped
<1>2. Clicks \subseteq Calls /\ invalidated \in Nat
  BY VerificationAssumption DEF ConfigInv, ConfigTyped
<1>3. \A l \in Calls \ {k} : reads'[l] = reads[l]
  BY <1>2 DEF ClassFound, BeginRead, MemoryHit, Ask, Holds, ConfigInv, ConfigTyped
<1>4. Stage(k)' = "done" => Version(k)' = memory /\ memory # NoValue
  BY <1>2 DEF ClassFound, BeginRead, MemoryHit, Ask, Holds, ConfigInv, ConfigTyped, Stage,
     Version
<1>5. Stage(k)' = "done" => Suits(Version(k)', invalidated)
  <2>1. memory \in Nat /\ Fresh(memory) BY DEF ConfigInv, ConfigTyped
  <2> QED BY <1>2, <1>4, <2>1, FreshSuits
<1>6. \A v, b : Suits(v, b) => Suits(v, b)' BY <1>1 DEF Suits, Missed, ghosts
<1>7. click'[k].stage = "config" /\ click'[k].begin = invalidated
  BY <1>1 DEF ClickTyped
<1>8. \A l \in Clicks \ {k} : click'[l] = click[l] BY <1>1 DEF ClickTyped
<1>9. RoleIsCurrent' BY <1>1 DEF RolesInv, RoleIsCurrent, ghosts
<1>10. \A l \in Clicks :
         /\ click'[l].begin <= invalidated'
         /\ click'[l].stage \in {"config", "roles"} /\ Stage(l)' = "done"
              => Suits(Version(l), click[l].begin)'
         /\ click'[l].stage = "roles" => Stage(l)' = "done"
  <2>1. invalidated' = invalidated BY <1>1 DEF ghosts
  <2>2. ASSUME NEW l \in Clicks \ {k}
        PROVE  /\ Stage(l)' = Stage(l) /\ Version(l)' = Version(l)
               /\ click'[l] = click[l]
    BY <1>2, <1>3, <1>8, <2>2 DEF Stage, Version
  <2>3. ASSUME NEW l \in Clicks \ {k}
        PROVE  /\ click'[l].begin <= invalidated'
               /\ click'[l].stage \in {"config", "roles"} /\ Stage(l)' = "done"
                    => Suits(Version(l), click[l].begin)'
               /\ click'[l].stage = "roles" => Stage(l)' = "done"
    BY <1>1, <2>1, <2>2, <2>3 DEF RolesInv, Suits, Missed, ghosts
  <2>4. /\ click'[k].begin <= invalidated'
        /\ Stage(k)' = "done" => Suits(Version(k), click[k].begin)'
    BY <1>1, <1>2, <1>5, <1>7, <2>1 DEF Suits, Missed, ghosts
  <2> QED BY <1>7, <2>3, <2>4
<1> QED BY <1>9, <1>10 DEF RolesInv

LEMMA RolesTaken ==
  ASSUME ConfigInv, ClickTyped, RolesInv, NEW k \in Clicks, TakeName(k)
  PROVE  RolesInv'
<1>1. UNCHANGED <<reads, ghosts, granted>> BY DEF TakeName, configVars
<1>2. click[k].stage = "config" /\ Stage(k) = "done" BY DEF TakeName, SetUp
<1>3. /\ click'[k].stage = "roles" /\ click'[k].begin = click[k].begin
      /\ \A l \in Clicks \ {k} : click'[l] = click[l]
  BY DEF TakeName, ClickTyped
<1>4. \A l \in Clicks : Stage(l)' = Stage(l) /\ Version(l)' = Version(l)
  BY <1>1 DEF Stage, Version
<1> QED
  BY <1>1, <1>2, <1>3, <1>4 DEF RolesInv, RoleIsCurrent, Suits, Missed, ghosts

LEMMA RolesGranted ==
  ASSUME ConfigInv, ClickTyped, RolesInv, NEW k \in Clicks, AddRoles(k)
  PROVE  RolesInv'
<1> DEFINE r == [click |-> k, name |-> click[k].name,
                 version |-> Version(k), begin |-> click[k].begin]
<1>1. UNCHANGED <<reads, ghosts>> /\ granted' = granted \cup {r}
  BY DEF AddRoles, configVars
<1>2. Suits(Version(k), click[k].begin) BY DEF AddRoles, RolesInv
<1>3. r.version = Version(k) /\ r.begin = click[k].begin OBVIOUS
<1> HIDE DEF r
<1>4. RoleIsCurrent'
  BY <1>1, <1>2, <1>3 DEF RolesInv, RoleIsCurrent, Suits, Missed, ghosts
<1>5. /\ click'[k].stage = "nickname" /\ click'[k].begin = click[k].begin
      /\ \A l \in Clicks \ {k} : click'[l] = click[l]
  BY DEF AddRoles, ClickAt, ClickTyped
<1>6. \A l \in Clicks : Stage(l)' = Stage(l) /\ Version(l)' = Version(l)
  BY <1>1 DEF Stage, Version
<1> QED BY <1>1, <1>4, <1>5, <1>6 DEF RolesInv, Suits, Missed, ghosts

\* The answer of a read stays in the hands of the click that asked.
LEMMA AnswerStays ==
  ASSUME ConfigInv, NEW k \in Calls, Stage(k) = "done", NEW c \in Calls, ReadStep(c)
  PROVE  reads'[k] = reads[k]
<1>1. c # k
  BY DEF ReadStep, GetAnswers, GetFails, QueryRow, QueryFails, Store, SetFails
<1> QED
  BY <1>1 DEF ReadStep, GetAnswers, GetFails, QueryRow, QueryFails, Store, SetFails,
     Answered, Holds, ConfigInv, ConfigTyped

LEMMA RolesStep ==
  ConfigInv /\ ClickTyped /\ RolesInv /\ [VerificationNext]_verificationVars => RolesInv'
<1> SUFFICES ASSUME ConfigInv, ClickTyped, RolesInv, [VerificationNext]_verificationVars
             PROVE RolesInv' OBVIOUS
<1>0. /\ Flows \subseteq Calls /\ Clicks \subseteq Calls
      /\ \A f \in Flows, k \in Clicks : f # k
  BY VerificationAssumption
<1>1. ASSUME NEW f \in Flows, Press(f) \/ Started(f) PROVE RolesInv'
  <2>1. UNCHANGED <<click, granted>> BY <1>1 DEF Press, Started
  <2>2. \A k \in Clicks : reads'[k] = reads[k]
    BY <1>0, <1>1 DEF Press, Started, BeginRead, MemoryHit, Ask, Holds, ConfigInv, ConfigTyped
  <2> QED BY <2>1, <2>2, RolesKept
<1>2. ASSUME NEW f \in Flows, Submit(f) \/ FormHandled(f) \/ FormFails(f) \/ ChooseClass(f)
      PROVE  RolesInv'
  <2>1. UNCHANGED <<click, granted, reads>>
    BY <1>2 DEF Submit, FormHandled, FormFails, ChooseClass, configVars
  <2> QED BY <2>1, RolesKept
<1>3. ASSUME NEW k \in Clicks, NEW f \in Flows, Select(k, f) PROVE RolesInv'
  <2>1. UNCHANGED <<granted, reads>> BY <1>3 DEF Select, configVars
  <2>2. \A l \in Clicks :
          \/ click'[l] = click[l]
          \/ click'[l].begin = NoValue /\ click'[l].stage = "class"
    BY <1>3 DEF Select, ClickTyped, NoClick
  <2> QED BY <2>1, <2>2, RolesKept
<1>4. ASSUME NEW k \in Clicks, ClassFound(k) PROVE RolesInv'
  BY <1>4, ConfigSteps, RolesFound
<1>5. ASSUME NEW k \in Clicks,
             ClassFails(k) \/ NotSetUp(k) \/ RolesFail(k) \/ RecordRequest(k)
      PROVE  RolesInv'
  <2>1. Closes(k) /\ granted' = granted
    BY <1>5 DEF ClassFails, NotSetUp, RolesFail, RecordRequest
  <2>2. /\ click'[k].begin = NoValue /\ click'[k].stage = "over"
        /\ \A l \in Clicks \ {k} : click'[l] = click[l]
    BY <2>1 DEF Closes, Over, NoClick, ClickTyped
  <2>3. \A l \in Clicks \ {k} : reads'[l] = reads[l]
    BY <1>0, <2>1 DEF Closes, ConfigInv, ConfigTyped
  <2> QED BY <2>1, <2>2, <2>3, RolesKept
<1>6. ASSUME NEW k \in Clicks, SetNickname(k) PROVE RolesInv'
  <2>1. UNCHANGED <<granted, reads>> BY <1>6 DEF SetNickname
  <2>2. /\ click'[k].begin = click[k].begin /\ click'[k].stage = "record"
        /\ \A l \in Clicks \ {k} : click'[l] = click[l]
    BY <1>6 DEF SetNickname, ClickAt, ClickTyped
  <2> QED BY <2>1, <2>2, RolesKept
<1>7. CASE \/ (\E w \in Writers : WriteStep(w)) /\ UNCHANGED verification
           \/ (ApiWrites \/ Expire) /\ UNCHANGED verification
           \/ NameExpires
           \/ UNCHANGED verificationVars
  <2>1. UNCHANGED <<click, granted>>
    BY <1>7 DEF verification, NameExpires, verificationVars
  <2>2. UNCHANGED reads
    BY <1>7 DEF WriteStep, WriteRow, Invalidate, DelFails, ApiWrites, Expire, MemoryExpires,
       KeyExpires, SpareExpires, NameExpires, verificationVars, configVars
  <2> QED BY <2>1, <2>2, RolesKept
<1>8. ASSUME NEW c \in Calls, ReadStep(c), UNCHANGED verification PROVE RolesInv'
  <2>1. UNCHANGED <<click, granted>> BY <1>8 DEF verification
  <2>2. \A k \in Clicks : click[k].stage = "roles" => reads'[k] = reads[k]
    BY <1>0, <1>8, AnswerStays DEF RolesInv
  <2> QED BY <2>1, <2>2, RolesKept
<1>9. CASE Crash
  <2>1. granted' = granted BY <1>9 DEF Crash
  <2>2. \A k \in Clicks :
          click'[k].begin = NoValue /\ click'[k].stage \notin {"config", "roles"}
    BY <1>9 DEF Crash, NoClick, Over
  <2> QED BY <2>1, <2>2, RolesKept
<1> QED
  BY <1>1, <1>2, <1>3, <1>4, <1>5, <1>6, <1>7, <1>8, <1>9, RolesTaken, RolesGranted
  DEF VerificationNext

\* Through the Map, Valkey, its fallback and their failures, a member is given
\* the roles of a configuration that no invalidation finished before his click
\* had made obsolete, unless one is known to have missed an older copy
\* (GuildConfigRepo.ts, getGuildConfig and invalidateGuildConfigCache;
\* VerificationHandler.ts, handleSubclassSelect).
THEOREM RolesCurrent == VerificationSpec => []RoleIsCurrent
<1>1. RolesInv => RoleIsCurrent BY DEF RolesInv
<1>2. VerificationInit => ConfigInv BY ConfigInitially DEF VerificationInit
<1> QED
  BY <1>1, <1>2, ConfigSteps, ClickInitially, ClickSteps, RolesInitially, RolesStep, PTL
  DEF VerificationSpec
=============================================================================
