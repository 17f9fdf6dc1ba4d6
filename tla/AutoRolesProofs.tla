-------------------------- MODULE AutoRolesProofs --------------------------
(***************************************************************************)
(* Theorems about the menus of auto-roles and the members who use them,    *)
(* for every number of administrators, clicks, sessions, menus, members    *)
(* and events, every first menu and every fault.                           *)
(***************************************************************************)
EXTENDS AutoRoles, TLAPS

-----------------------------------------------------------------------------
(* The clicks.  A click that finishes stands at one of WorkSteps.          *)

WorkSteps == Steps \ {"idle", "push", "asked"}
Works(c) == click[c].at \in WorkSteps

\* Where a click stands says what it has; ss are the sessions.
Fits(k, ss) ==
  /\ k.obj \in 0..Len(ss)
  /\ k.obj = 0 <=> k.at \in {"idle", "asked"}
  /\ k.at = "push" => k.choice \in Choices
  /\ k.at = "asked" => k.on \in Messages
  /\ k.at \in {"edit", "clear", "look", "create"} => ss[k.obj].message # None
  /\ k.at = "react" => k.on # None \/ ss[k.obj].message # None
  /\ k.at = "compare" => k.base = None /\ k.id = 0
  /\ k.at = "update" => k.base # None
  /\ k.at \in {"look", "create"} => k.base = None
  /\ k.at \in {"wipe", "add"} => k.id = RowOf(k)
  /\ k.on # None => k.at \in {"react", "asked"}

ClicksOK == click \in [Clicks -> Click] /\ \A c \in Clicks : Fits(click[c], sessions)

SetupInv == SetupTypeOK /\ ClicksOK

LEMMA NoMessage == None \notin Messages /\ None \notin Rows /\ Configured \in Messages
BY SetupAssumption DEF Messages

LEMMA IdleClick == Idle \in Click
BY DEF Idle, Click, Steps

LEMMA ClickFields ==
  ASSUME NEW k \in Click
  PROVE  /\ k.at \in Steps /\ k.admin \in Admins \cup {None} /\ k.obj \in Nat
         /\ k.base \in Rows \cup {None} /\ k.on \in Messages \cup {None}
         /\ k.choice \in Choices \cup {None} /\ k.i \in Nat /\ k.id \in Nat
         /\ k.clean \in BOOLEAN
         /\ \A s \in Steps : [k EXCEPT !.at = s] \in Click
         /\ \A b \in BOOLEAN : [k EXCEPT !.clean = b] \in Click
BY DEF Click

LEMMA SessionFields ==
  ASSUME NEW s \in Session
  PROVE  /\ s.message \in Messages \cup {None} /\ s.canEdit \in BOOLEAN /\ s.mode \in Modes
         /\ s.embed \in Embeds /\ s.list \in Seq(Mappings)
BY DEF Session

LEMMA RowFields ==
  ASSUME NEW r \in Rows
  PROVE  /\ r.id \in Nat \ {0} /\ r.mode \in Modes /\ r.embed \in Embeds
         /\ r.mappings \in Seq(Mappings)
BY DEF Rows

LEMMA ListsShow ==
  ASSUME NEW list \in Seq(Mappings)
  PROVE  /\ ButtonsOf(list) \subseteq Roles /\ EmojisOf(list) \subseteq Emojis
         /\ RolesOf(list) \subseteq Roles
<1>1. \A i \in DOMAIN list : list[i] \in Mappings OBVIOUS
<1> QED BY <1>1 DEF ButtonsOf, EmojisOf, RolesOf, Roles, Emojis

\* What a click holds.
LEMMA Holding ==
  ASSUME SetupInv, NEW c \in Clicks
  PROVE  /\ click[c] \in Click /\ click[c].obj \in 0..Len(sessions) /\ Len(sessions) \in Nat
         /\ click[c].at \notin {"idle", "asked"} =>
              click[c].obj \in 1..Len(sessions) /\ SessionOf(c) \in Session
<1>1. click[c] \in Click /\ click[c].obj \in 0..Len(sessions)
  BY DEF SetupInv, ClicksOK, Fits
<1>2. click[c].at \notin {"idle", "asked"} => click[c].obj # 0 BY DEF SetupInv, ClicksOK, Fits
<1>3. Len(sessions) \in Nat /\ \A o \in 1..Len(sessions) : sessions[o] \in Session
  BY DEF SetupInv, SetupTypeOK
<1> QED BY <1>1, <1>2, <1>3 DEF SessionOf

\* A touched click is the same but for the ghost, and one that stays clean
\* was not near.
LEMMA Touched ==
  ASSUME NEW f, NEW obj, NEW m, \A c \in Clicks : f[c] \in Click
  PROVE  /\ Touch(f, obj, m) \in [Clicks -> Click]
         /\ \A c \in Clicks :
              /\ \/ Touch(f, obj, m)[c] = f[c]
                 \/ Touch(f, obj, m)[c] = [f[c] EXCEPT !.clean = FALSE]
              /\ Touch(f, obj, m)[c].clean =>
                   Touch(f, obj, m)[c] = f[c] /\ c \notin Near(f, obj, m)
<1>1. \A c \in Clicks : [f[c] EXCEPT !.clean = FALSE] \in Click /\ ~[f[c] EXCEPT !.clean = FALSE].clean
  BY DEF Click
<1>2. \A c \in Clicks : Touch(f, obj, m)[c] =
         IF c \in Near(f, obj, m) THEN [f[c] EXCEPT !.clean = FALSE] ELSE f[c]
  BY DEF Touch
<1>3. Touch(f, obj, m) \in [Clicks -> Click]
  <2>1. Touch(f, obj, m) = [c \in Clicks |-> Touch(f, obj, m)[c]] BY DEF Touch
  <2> QED BY <1>1, <1>2, <2>1
<1> QED BY <1>1, <1>2, <1>3

-----------------------------------------------------------------------------
(* Types.                                                                  *)

\* Sessions come, change, and never lose their message.
Grows ==
  /\ sessions' \in Seq(Session) /\ Len(sessions') \in Len(sessions)..MaxSessions
  /\ \A o \in 1..Len(sessions) : sessions[o].message # None => sessions'[o].message # None

LEMMA Stays == ASSUME SetupInv, UNCHANGED sessions PROVE Grows
BY DEF SetupInv, SetupTypeOK, Grows

LEMMA StillFits ==
  ASSUME SetupInv, Grows, NEW k \in Click, Fits(k, sessions)
  PROVE  Fits(k, sessions') /\ Fits([k EXCEPT !.clean = FALSE], sessions')
<1>1. Len(sessions) \in Nat /\ k.obj \in 0..Len(sessions')
  BY DEF SetupInv, SetupTypeOK, Grows, Fits
<1>2. Fits(k, sessions')
  BY <1>1 DEF Fits, Grows
<1> DEFINE j == [k EXCEPT !.clean = FALSE]
<1>3. /\ j.at = k.at /\ j.obj = k.obj /\ j.choice = k.choice /\ j.on = k.on /\ j.base = k.base
      /\ j.id = k.id
  BY DEF Click
<1>4. Fits(j, sessions') BY <1>2, <1>3 DEF Fits, RowOf
<1> QED BY <1>2, <1>4

LEMMA OneClick ==
  ASSUME SetupInv, Grows, NEW c \in Clicks, NEW k \in Click, Fits(k, sessions'),
         click' = [click EXCEPT ![c] = k]
  PROVE  ClicksOK'
<1>1. click' \in [Clicks -> Click] BY DEF SetupInv, ClicksOK
<1>2. ASSUME NEW d \in Clicks PROVE Fits(click'[d], sessions')
  <2>1. click[d] \in Click /\ Fits(click[d], sessions) BY DEF SetupInv, ClicksOK
  <2>2. click'[d] = IF d = c THEN k ELSE click[d] BY DEF SetupInv, ClicksOK
  <2> QED BY <2>1, <2>2, StillFits
<1> QED BY <1>1, <1>2 DEF ClicksOK

LEMMA TouchedClicks ==
  ASSUME SetupInv, Grows, NEW f \in [Clicks -> Click], \A c \in Clicks : Fits(f[c], sessions),
         NEW obj, NEW m, click' = Touch(f, obj, m)
  PROVE  ClicksOK'
<1>1. click' \in [Clicks -> Click] BY Touched
<1>2. ASSUME NEW c \in Clicks PROVE Fits(click'[c], sessions')
  <2>1. click'[c] = f[c] \/ click'[c] = [f[c] EXCEPT !.clean = FALSE] BY Touched
  <2> QED BY <2>1, StillFits
<1> QED BY <1>1, <1>2 DEF ClicksOK

LEMMA SameClicks == ASSUME SetupInv, Grows, UNCHANGED click PROVE ClicksOK'
BY StillFits DEF SetupInv, ClicksOK

LEMMA IdleFits == ASSUME SetupInv, Grows PROVE Fits(Idle, sessions') /\ Fits(Idle, sessions)
BY DEF Fits, Idle, SetupInv, SetupTypeOK, Grows

LEMMA FreshSession ==
  ASSUME NEW m \in Messages \cup {None}
  PROVE  /\ Fresh(m) \in Session /\ Fresh(m).message = m
         /\ \A mode \in Modes : [Fresh(m) EXCEPT !.mode = mode] \in Session
         /\ ~Fresh(m).canEdit => m \in Posts
<1>1. Fresh(m) \in Session
  <2>1. <<>> \in Seq(Mappings) /\ "multiple" \in Modes /\ "plain" \in Embeds
        /\ (m \notin Posts) \in BOOLEAN
    BY DEF Modes, Embeds
  <2> QED BY <2>1 DEF Fresh, Session
<1>2. \A s \in Session : \A mode \in Modes : [s EXCEPT !.mode = mode] \in Session
  BY DEF Session
<1>3. Fresh(m).message = m /\ Fresh(m).canEdit = (m \notin Posts)
  BY DEF Fresh
<1> QED BY <1>1, <1>2, <1>3

\* A session joins the others.
LEMMA Joins ==
  ASSUME SetupInv, NEW a \in Admins, NEW session \in Session, NewSession(a, session)
  PROVE  /\ Grows /\ open' \in [Admins -> 0..Len(sessions')]
         /\ Len(sessions') = Len(sessions) + 1
         /\ \A o \in 1..Len(sessions) : sessions'[o] = sessions[o]
         /\ sessions'[Len(sessions) + 1] = session
<1>1. Len(sessions) \in Nat /\ sessions \in Seq(Session) /\ MaxSessions \in Nat
      /\ open \in [Admins -> 0..Len(sessions)]
  BY SetupAssumption DEF SetupInv, SetupTypeOK
<1>2. sessions' = Append(sessions, session) /\ Len(sessions) < MaxSessions
      /\ open' = [open EXCEPT ![a] = Len(sessions) + 1]
  BY DEF NewSession
<1>3. sessions' \in Seq(Session) /\ Len(sessions') = Len(sessions) + 1
      /\ (\A o \in 1..Len(sessions) : sessions'[o] = sessions[o])
      /\ sessions'[Len(sessions) + 1] = session
  BY <1>1, <1>2
<1>4. open' \in [Admins -> 0..Len(sessions')] BY <1>1, <1>2, <1>3
<1>5. Len(sessions') \in Len(sessions)..MaxSessions BY <1>1, <1>2, <1>3
<1> QED BY <1>3, <1>4, <1>5 DEF Grows

\* One of them changes, and keeps a message.
LEMMA Alters ==
  ASSUME SetupInv, NEW o \in 1..Len(sessions), NEW session \in Session,
         session.message = None => sessions[o].message = None,
         sessions' = [sessions EXCEPT ![o] = session]
  PROVE  /\ Grows /\ Len(sessions') = Len(sessions) /\ sessions'[o] = session
         /\ \A p \in 1..Len(sessions) : p # o => sessions'[p] = sessions[p]
<1>1. Len(sessions) \in Nat /\ sessions \in Seq(Session) /\ Len(sessions) <= MaxSessions
      /\ MaxSessions \in Nat
  BY SetupAssumption DEF SetupInv, SetupTypeOK
<1>2. sessions' \in Seq(Session) /\ Len(sessions') = Len(sessions) /\ sessions'[o] = session
      /\ \A p \in 1..Len(sessions) : p # o => sessions'[p] = sessions[p]
  BY <1>1
<1> QED BY <1>1, <1>2 DEF Grows

-----------------------------------------------------------------------------
(* The steps that change sessions, and neither a message nor a row.        *)

\* The clicks at work go on; those that stay clean are not about session o.
Survivors(o) ==
  \A c \in Clicks : WorkSteps \cap {click[c].at, click'[c].at} # {} =>
    /\ click'[c] = click[c] \/ click'[c] = [click[c] EXCEPT !.clean = FALSE]
    /\ click'[c].clean => click'[c] = click[c] /\ click[c].obj # o

EditStep ==
  /\ UNCHANGED <<shown, rows, made, doubled, lastId>>
  /\ Grows
  /\ \E o \in 0..Len(sessions) :
       /\ Survivors(o)
       /\ \A p \in 1..Len(sessions) :
            /\ sessions'[p].message = sessions[p].message
            /\ ~sessions'[p].canEdit => ~sessions[p].canEdit
            /\ p # o => sessions'[p] = sessions[p]
  /\ \A p \in (Len(sessions) + 1)..Len(sessions') :
       /\ sessions'[p].message # None => shown[sessions'[p].message].posted
       /\ ~sessions'[p].canEdit => sessions'[p].message \in Posts

LEMMA TouchSurvivors ==
  ASSUME SetupInv, NEW o \in 1..Len(sessions), NEW f \in [Clicks -> Click],
         \A c \in Clicks : \/ f[c] = click[c]
                           \/ f[c].at \notin WorkSteps /\ click[c].at \notin WorkSteps,
         click' = Touch(f, o, None)
  PROVE  Survivors(o)
<1> SUFFICES ASSUME NEW c \in Clicks, WorkSteps \cap {click[c].at, click'[c].at} # {}
             PROVE  /\ click'[c] = click[c] \/ click'[c] = [click[c] EXCEPT !.clean = FALSE]
                    /\ click'[c].clean => click'[c] = click[c] /\ click[c].obj # o
  BY DEF Survivors
<1>1. /\ click'[c] = f[c] \/ click'[c] = [f[c] EXCEPT !.clean = FALSE]
      /\ click'[c].clean => click'[c] = f[c] /\ c \notin Near(f, o, None)
  BY Touched
<1>2. f[c].at = click'[c].at BY <1>1 DEF Click
<1>3. f[c] = click[c] BY <1>2
<1>4. o # 0 BY DEF SetupInv, SetupTypeOK
<1>5. c \notin Near(f, o, None) => f[c].obj # o BY <1>4 DEF Near
<1> QED BY <1>1, <1>3, <1>5

LEMMA SameSurvivors ==
  ASSUME SetupInv, UNCHANGED click
  PROVE  Survivors(0)
<1>1. ASSUME NEW c \in Clicks, click[c].at \in WorkSteps PROVE click[c].obj # 0
  BY <1>1 DEF SetupInv, ClicksOK, Fits, WorkSteps
<1> QED BY <1>1 DEF Survivors

\* The parts of the type that such a step leaves alone.
Tables ==
  /\ shown \in [Messages -> [posted : BOOLEAN, buttons : SUBSET Roles,
                              emojis : SUBSET Emojis, embed : Embeds]]
  /\ rows \in [Messages -> Rows \cup {None}]
  /\ made \in [Menus -> 0..Len(sessions)] /\ doubled \subseteq 1..Len(sessions)
  /\ lastId \in Nat \ {0}

LEMMA TablesStay ==
  ASSUME SetupInv, Grows, UNCHANGED <<shown, rows, made, doubled, lastId>>
  PROVE  Tables'
<1>1. Tables BY DEF SetupInv, SetupTypeOK, Tables
<1>2. Len(sessions) \in Nat /\ Len(sessions') \in Nat /\ Len(sessions) <= Len(sessions')
  BY DEF SetupInv, SetupTypeOK, Grows
<1>3. 0..Len(sessions) \subseteq 0..Len(sessions') /\ 1..Len(sessions) \subseteq 1..Len(sessions')
  BY <1>2
<1> QED BY <1>1, <1>3 DEF Tables

LEMMA CountersStep ==
  ASSUME SetupInv, Operates \/ UNCHANGED ops, Fails \/ UNCHANGED faults
  PROVE  ops' \in 0..MaxOps /\ faults' \in 0..MaxFaults
BY SetupAssumption DEF SetupInv, SetupTypeOK, Operates, Fails

\* What is left to show of a step.
LEMMA TypeParts ==
  ASSUME SetupInv, Grows, ClicksOK', Tables',
         open' \in [Admins -> 0..Len(sessions')], modal' \subseteq Admins,
         Operates \/ UNCHANGED ops, Fails \/ UNCHANGED faults
  PROVE  SetupInv'
<1>1. Len(sessions') <= MaxSessions /\ sessions' \in Seq(Session)
  BY SetupAssumption DEF Grows, SetupInv, SetupTypeOK
<1>2. click' \in [Clicks -> Click] /\ \A c \in Clicks : click'[c].obj \in 0..Len(sessions')
  BY DEF ClicksOK, Fits
<1> QED BY <1>1, <1>2, CountersStep DEF SetupInv, SetupTypeOK, Tables

\* A new session is opened.
LEMMA Opening ==
  ASSUME SetupInv, NEW a \in Admins, NEW session \in Session, NewSession(a, session),
         session.message # None => shown[session.message].posted,
         ~session.canEdit => session.message \in Posts,
         modal' \subseteq Admins, Operates \/ UNCHANGED ops,
         UNCHANGED <<shown, rows, click, made, doubled, faults, lastId>>
  PROVE  SetupInv' /\ EditStep
<1>1. Grows /\ open' \in [Admins -> 0..Len(sessions')] /\ Len(sessions') = Len(sessions) + 1
      /\ (\A o \in 1..Len(sessions) : sessions'[o] = sessions[o])
      /\ sessions'[Len(sessions) + 1] = session
  BY Joins
<1>2. SetupInv' BY <1>1, TypeParts, TablesStay, SameClicks
<1>3. Survivors(0) BY SameSurvivors
<1>4. Len(sessions) \in Nat /\ 0 \in 0..Len(sessions) BY DEF SetupInv, SetupTypeOK
<1>5. \A p \in (Len(sessions) + 1)..Len(sessions') : p = Len(sessions) + 1 BY <1>1, <1>4
<1> QED BY <1>1, <1>2, <1>3, <1>4, <1>5 DEF EditStep

\* The session of an administrator changes, and the clicks on it are touched.
LEMMA Altering ==
  ASSUME SetupInv, NEW o \in 1..Len(sessions), NEW session \in Session,
         session.message = sessions[o].message, ~session.canEdit => ~sessions[o].canEdit,
         sessions' = [sessions EXCEPT ![o] = session],
         NEW f \in [Clicks -> Click],
         \A c \in Clicks :
           \/ f[c] = click[c]
           \/ f[c].at \notin WorkSteps /\ click[c].at \notin WorkSteps /\ Fits(f[c], sessions),
         click' = Touch(f, o, None),
         open' \in [Admins -> 0..Len(sessions)],
         modal' \subseteq Admins, Operates \/ UNCHANGED ops,
         UNCHANGED <<shown, rows, made, doubled, faults, lastId>>
  PROVE  SetupInv' /\ EditStep
<1>1. Grows /\ Len(sessions') = Len(sessions) /\ sessions'[o] = session
      /\ \A p \in 1..Len(sessions) : p # o => sessions'[p] = sessions[p]
  BY Alters
<1>2. \A c \in Clicks : Fits(f[c], sessions) BY DEF SetupInv, ClicksOK
<1>3. ClicksOK' BY <1>1, <1>2, TouchedClicks
<1>4. SetupInv' BY <1>1, <1>3, TypeParts, TablesStay
<1>5. Survivors(o) BY TouchSurvivors
<1>6. Len(sessions) \in Nat BY DEF SetupInv, SetupTypeOK
<1>7. o \in 0..Len(sessions) /\ (Len(sessions) + 1)..Len(sessions') = {} BY <1>1, <1>6
<1> QED BY <1>1, <1>4, <1>5, <1>7 DEF EditStep

LEMMA OpenedIs ==
  ASSUME SetupInv, NEW a \in Admins, open[a] # 0
  PROVE  open[a] \in 1..Len(sessions) /\ Current(a) = sessions[open[a]] /\ Current(a) \in Session
<1>1. Len(sessions) \in Nat /\ open[a] \in 0..Len(sessions)
      /\ \A o \in 1..Len(sessions) : sessions[o] \in Session
  BY DEF SetupInv, SetupTypeOK
<1> QED BY <1>1 DEF Current

LEMMA OpenForStep ==
  ASSUME SetupInv, NEW a \in Admins, NEW m \in Messages, OpenFor(a, m)
  PROVE  SetupInv' /\ EditStep
<1> DEFINE taken == [message |-> m, canEdit |-> m \notin Posts, mode |-> rows[m].mode,
                     embed |-> rows[m].embed, list |-> rows[m].mappings]
<1>1. rows[m] \in Rows \cup {None} BY DEF SetupInv, SetupTypeOK
<1>2. ASSUME rows[m] # None
      PROVE  taken \in Session /\ taken.message = m /\ (~taken.canEdit => m \in Posts)
  <2>1. rows[m] \in Rows BY <1>1, <1>2
  <2>2. (m \notin Posts) \in BOOLEAN OBVIOUS
  <2> QED BY <2>1, <2>2, RowFields DEF Session
<1> DEFINE session == IF rows[m] = None THEN Fresh(m) ELSE taken
<1>3. session \in Session /\ session.message = m /\ (~session.canEdit => m \in Posts)
  BY <1>2, FreshSession
<1>4. /\ Operates /\ shown[m].posted /\ NewSession(a, session)
      /\ UNCHANGED <<modal, shown, rows, click, made, doubled, faults, lastId>>
  BY DEF OpenFor
<1>5. modal' \subseteq Admins BY <1>4 DEF SetupInv, SetupTypeOK
<1> HIDE DEF session
<1> QED BY <1>3, <1>4, <1>5, Opening

LEMMA OpenNewStep ==
  ASSUME SetupInv, NEW a \in Admins, OpenNew(a)
  PROVE  SetupInv' /\ EditStep
<1>1. /\ Operates /\ NewSession(a, Fresh(None)) /\ modal' = modal \cup {a}
      /\ UNCHANGED <<shown, rows, click, made, doubled, faults, lastId>>
  BY DEF OpenNew
<1>2. modal' \subseteq Admins BY <1>1 DEF SetupInv, SetupTypeOK
<1>3. Fresh(None) \in Session /\ Fresh(None).message = None
      /\ (~Fresh(None).canEdit => Fresh(None).message \in Posts)
  BY FreshSession
<1> QED BY <1>1, <1>2, <1>3, Opening

LEMMA SubmitInitialStep ==
  ASSUME SetupInv, NEW a \in Admins, NEW mode \in Modes, SubmitInitial(a, mode)
  PROVE  SetupInv' /\ EditStep
<1>1. /\ modal' \subseteq Admins /\ UNCHANGED <<shown, rows, made, doubled, ops, faults, lastId>>
  BY DEF SubmitInitial, SetupInv, SetupTypeOK
<1>2. CASE open[a] # 0
  <2> DEFINE session == [sessions[open[a]] EXCEPT !.mode = mode, !.canEdit = TRUE]
  <2>1. open[a] \in 1..Len(sessions) /\ sessions[open[a]] \in Session BY <1>2, OpenedIs
  <2>2. session \in Session /\ session.message = sessions[open[a]].message /\ session.canEdit
    BY <2>1 DEF Session
  <2>3. /\ sessions' = [sessions EXCEPT ![open[a]] = session]
        /\ click' = Touch(click, open[a], None) /\ UNCHANGED open
    BY <1>2 DEF SubmitInitial
  <2>4. click \in [Clicks -> Click] /\ open \in [Admins -> 0..Len(sessions)]
    BY DEF SetupInv, SetupTypeOK
  <2> HIDE DEF session
  <2> QED BY <1>1, <2>1, <2>2, <2>3, <2>4, Altering
<1>3. CASE open[a] = 0
  <2> DEFINE session == [Fresh(None) EXCEPT !.mode = mode]
  <2>1. session \in Session /\ session.message = None /\ session.canEdit
    BY FreshSession, NoMessage DEF Fresh, Messages
  <2>2. NewSession(a, session) /\ UNCHANGED click BY <1>3 DEF SubmitInitial
  <2> HIDE DEF session
  <2> QED BY <1>1, <2>1, <2>2, Opening
<1> QED BY <1>2, <1>3

LEMMA ChangesStep ==
  ASSUME SetupInv, NEW a \in Admins, open[a] # 0, NEW session \in Session, Changes(a, session),
         session.message = Current(a).message, session.canEdit = Current(a).canEdit
  PROVE  SetupInv' /\ EditStep
<1>1. open[a] \in 1..Len(sessions) /\ Current(a) = sessions[open[a]] BY OpenedIs
<1>2. /\ Operates /\ sessions' = [sessions EXCEPT ![open[a]] = session]
      /\ click' = Touch(click, open[a], None)
      /\ UNCHANGED <<open, modal, shown, rows, made, doubled, faults, lastId>>
  BY DEF Changes
<1>3. click \in [Clicks -> Click] /\ open' \in [Admins -> 0..Len(sessions)] /\ modal' \subseteq Admins
  BY <1>2 DEF SetupInv, SetupTypeOK
<1> QED BY <1>1, <1>2, <1>3, Altering

LEMMA ButtonStep ==
  ASSUME SetupInv, NEW a \in Admins,
         \/ ToggleMode(a)
         \/ \E embed \in Embeds : CustomizeEmbed(a, embed)
         \/ \E i \in 1..RoleLimit : RemoveMapping(a, i)
  PROVE  SetupInv' /\ EditStep
<1>0. open[a] # 0 BY DEF ToggleMode, CustomizeEmbed, RemoveMapping
<1> DEFINE old == Current(a)
<1>1. old \in Session BY <1>0, OpenedIs
<1> HIDE DEF old
<1>2. CASE ToggleMode(a)
  <2> DEFINE session == [old EXCEPT !.mode = IF @ = "multiple" THEN "unique" ELSE "multiple"]
  <2>1. session \in Session /\ session.message = old.message /\ session.canEdit = old.canEdit
    BY <1>1 DEF Session, Modes
  <2>2. Changes(a, session) BY <1>2 DEF ToggleMode, old
  <2> HIDE DEF session
  <2> QED BY <1>0, <2>1, <2>2, ChangesStep DEF old
<1>3. ASSUME NEW embed \in Embeds, CustomizeEmbed(a, embed)
      PROVE  SetupInv' /\ EditStep
  <2> DEFINE session == [old EXCEPT !.embed = embed]
  <2>1. session \in Session /\ session.message = old.message /\ session.canEdit = old.canEdit
    BY <1>1 DEF Session
  <2>2. Changes(a, session) BY <1>3 DEF CustomizeEmbed, old
  <2> HIDE DEF session
  <2> QED BY <1>0, <2>1, <2>2, ChangesStep DEF old
<1>4. ASSUME NEW i \in 1..RoleLimit, RemoveMapping(a, i)
      PROVE  SetupInv' /\ EditStep
  <2> DEFINE list == SubSeq(old.list, 1, i - 1) \o SubSeq(old.list, i + 1, Len(old.list))
             session == [old EXCEPT !.list = list]
  <2>1. i \in DOMAIN old.list /\ old.list \in Seq(Mappings)
    BY <1>1, <1>4, SessionFields DEF RemoveMapping, old
  <2>2. list \in Seq(Mappings)
    <3>1. SubSeq(old.list, 1, i - 1) \in Seq(Mappings)
      BY <2>1
    <3>2. SubSeq(old.list, i + 1, Len(old.list)) \in Seq(Mappings)
      BY <2>1
    <3> QED BY <3>1, <3>2
  <2>3. Changes(a, session) BY <1>4 DEF RemoveMapping, old
  <2> HIDE DEF list
  <2>4. session \in Session /\ session.message = old.message /\ session.canEdit = old.canEdit
    BY <1>1, <2>2 DEF Session
  <2> HIDE DEF session
  <2> QED BY <1>0, <2>3, <2>4, ChangesStep DEF old
<1> QED BY <1>2, <1>3, <1>4

LEMMA CancelStep ==
  ASSUME SetupInv, NEW a \in Admins, Cancel(a)
  PROVE  SetupInv' /\ EditStep
<1>1. /\ Operates /\ open[a] # 0 /\ open' = [open EXCEPT ![a] = 0]
      /\ click' = Touch(click, open[a], None)
      /\ UNCHANGED <<sessions, modal, shown, rows, made, doubled, faults, lastId>>
  BY DEF Cancel
<1>2. open[a] \in 1..Len(sessions) /\ sessions[open[a]] \in Session BY <1>1, OpenedIs
<1>3. sessions' = [sessions EXCEPT ![open[a]] = sessions[open[a]]]
  BY <1>1, <1>2 DEF SetupInv, SetupTypeOK
<1>4. click \in [Clicks -> Click] /\ open' \in [Admins -> 0..Len(sessions)] /\ modal' \subseteq Admins
  BY <1>1, <1>2 DEF SetupInv, SetupTypeOK
<1> QED BY <1>1, <1>2, <1>3, <1>4, Altering

LEMMA MappingStep ==
  ASSUME SetupInv, NEW c \in Clicks, NEW a \in Admins, NEW choice \in Choices,
         SubmitMapping(c, a, choice)
  PROVE  SetupInv' /\ EditStep
<1> DEFINE k == [Idle EXCEPT !.at = "push", !.admin = a, !.obj = open[a], !.choice = choice]
<1>1. /\ Operates /\ open[a] # 0 /\ click[c].at = "idle" /\ click' = [click EXCEPT ![c] = k]
      /\ UNCHANGED <<sessions, open, modal, shown, rows, made, doubled, faults, lastId>>
  BY DEF SubmitMapping, At
<1>2. open[a] \in 1..Len(sessions) /\ Len(sessions) \in Nat
  BY <1>1, OpenedIs DEF SetupInv, SetupTypeOK
<1>3. k \in Click /\ Fits(k, sessions') /\ k.at \notin WorkSteps
  <2>1. open[a] \in Nat BY <1>2
  <2>2. ASSUME NEW j \in Click
        PROVE  LET push == [j EXCEPT !.at = "push", !.admin = a, !.obj = open[a], !.choice = choice]
               IN /\ push \in Click /\ push.at = "push" /\ push.obj = open[a]
                  /\ push.choice = choice /\ push.on = j.on
    BY <2>1 DEF Click, Steps
  <2>3. Idle.on = None BY DEF Idle
  <2>4. k \in Click /\ k.at = "push" /\ k.obj = open[a] /\ k.choice = choice /\ k.on = None
    BY <2>2, <2>3, IdleClick
  <2> HIDE DEF k
  <2> QED BY <1>1, <1>2, <2>4 DEF Fits, WorkSteps
<1> HIDE DEF k
<1>4. Grows BY <1>1, Stays
<1>5. ClicksOK' BY <1>1, <1>3, <1>4, OneClick
<1>6. open' \in [Admins -> 0..Len(sessions')] /\ modal' \subseteq Admins
  BY <1>1 DEF SetupInv, SetupTypeOK
<1>7. SetupInv' BY <1>1, <1>4, <1>5, <1>6, TypeParts, TablesStay
<1>8. Survivors(0)
  <2> SUFFICES ASSUME NEW d \in Clicks, WorkSteps \cap {click[d].at, click'[d].at} # {}
               PROVE  click'[d] = click[d] /\ click[d].obj # 0
    BY DEF Survivors
  <2>1. click'[d] = IF d = c THEN k ELSE click[d] BY <1>1 DEF SetupInv, SetupTypeOK
  <2>2. click'[d] = click[d] BY <1>1, <1>3, <2>1 DEF WorkSteps
  <2> QED BY <2>2 DEF SetupInv, ClicksOK, Fits, WorkSteps
<1>9. 0 \in 0..Len(sessions) /\ (Len(sessions) + 1)..Len(sessions) = {} BY <1>2
<1> QED BY <1>1, <1>4, <1>7, <1>8, <1>9 DEF EditStep

LEMMA PushStep ==
  ASSUME SetupInv, NEW c \in Clicks, PushMapping(c)
  PROVE  SetupInv' /\ EditStep
<1> DEFINE o == click[c].obj
           old == sessions[o]
           session == [old EXCEPT !.list = Append(old.list, click[c].choice)]
           f == [click EXCEPT ![c] = Idle]
<1>1. click[c].at = "push" /\ click' = Touch(f, o, None)
      /\ open' = [open EXCEPT ![click[c].admin] = o]
      /\ UNCHANGED <<modal, shown, rows, made, doubled, ops, faults, lastId>>
  BY DEF PushMapping, At
<1>2. o \in 1..Len(sessions) /\ old \in Session /\ click[c].choice \in Choices
  BY <1>1, Holding DEF SessionOf, SetupInv, ClicksOK, Fits
<1>3. sessions' = [sessions EXCEPT ![o] = session]
  BY <1>2 DEF PushMapping
<1>4. session \in Session /\ session.message = old.message /\ session.canEdit = old.canEdit
  <2>1. Append(old.list, click[c].choice) \in Seq(Mappings)
    BY <1>2, SessionFields DEF Mappings
  <2> QED BY <1>2, <2>1 DEF Session
<1>5. f \in [Clicks -> Click]
      /\ \A d \in Clicks :
           \/ f[d] = click[d]
           \/ f[d].at \notin WorkSteps /\ click[d].at \notin WorkSteps /\ Fits(f[d], sessions)
  <2>1. Idle \in Click /\ Idle.at \notin WorkSteps /\ click[c].at \notin WorkSteps
    BY <1>1, IdleClick DEF Idle, WorkSteps
  <2>2. Fits(Idle, sessions) BY DEF SetupInv, SetupTypeOK, Fits, Idle
  <2> QED BY <2>1, <2>2 DEF SetupInv, SetupTypeOK
<1>6. open' \in [Admins -> 0..Len(sessions)] /\ modal' \subseteq Admins
  BY <1>1, <1>2 DEF SetupInv, SetupTypeOK
<1> HIDE DEF session, f
<1> QED BY <1>1, <1>2, <1>3, <1>4, <1>5, <1>6, Altering

-----------------------------------------------------------------------------
(* The steps of a click that finishes.                                     *)

\* A message that is neither the click's nor has the click's row.
Apart(c, m) ==
  /\ m # Target(c) /\ shown[m].posted
  /\ rows[m] # None => rows[m].id # RowOf(click[c])

\* The click keeps its session, and its row unless it has just found one.
WorkClick(c) ==
  /\ \A d \in Clicks : d # c => click'[d] = click[d]
  /\ click'[c] # Idle =>
       /\ click'[c].at \in WorkSteps /\ click'[c].obj = click[c].obj
       /\ click'[c].clean => click[c].clean
       /\ click'[c].at = "send" => Target(c) = None
       /\ \/ RowOf(click'[c]) = RowOf(click[c])
          \/ lastId' = lastId + 1 /\ RowOf(click'[c]) = lastId'
          \/ LET m == SessionOf(c).message
             IN m # None /\ rows[m] # None /\ RowOf(click'[c]) = rows[m].id

\* Its session may get the message it has sent, and no other changes.
WorkSessions(c) ==
  /\ Len(sessions') = Len(sessions)
  /\ \A o \in 1..Len(sessions) :
       /\ o # click[c].obj => sessions'[o] = sessions[o]
       /\ sessions'[o].list = sessions[o].list /\ sessions'[o].canEdit = sessions[o].canEdit
  /\ sessions'[click[c].obj].message = Target(c)

\* Other messages show what they showed, and other rows stay.
WorkMessages(c) ==
  \A m \in Messages :
    /\ shown[m].posted => shown'[m].posted
    /\ Apart(c, m) => shown'[m] = shown[m] /\ rows'[m] = rows[m]

\* A row keeps its number; a new one has the next.
WorkRows(c) ==
  \/ /\ lastId' = lastId
     /\ \A m \in Messages : rows'[m] # None => rows[m] # None /\ rows'[m].id = rows[m].id
  \/ /\ lastId' = lastId + 1 /\ SessionOf(c).message # None
     /\ \A m \in Messages : rows'[m] # None =>
          \/ rows[m] # None /\ rows'[m].id = rows[m].id
          \/ rows'[m].id = lastId' /\ m = SessionOf(c).message

WorkMade(c) ==
  \/ UNCHANGED made /\ click'[c].on = None
  \/ \E m \in Menus :
       /\ click[c].at = "send" /\ click'[c].at = "react" /\ click'[c].on = m
       /\ ~shown[m].posted /\ shown'[m].posted
       /\ made' = [made EXCEPT ![m] = click[c].obj] /\ UNCHANGED sessions

WorkStep(c) ==
  /\ Works(c) /\ WorkClick(c) /\ WorkSessions(c) /\ WorkMessages(c) /\ WorkRows(c) /\ WorkMade(c)
  /\ doubled' = doubled

\* The click moves on, or it is over, and its row stays the one it had.
Onward(c, k) ==
  k # Idle =>
    /\ k.at \in WorkSteps /\ k.obj = click[c].obj /\ (k.clean => click[c].clean)
    /\ k.at = "send" => Target(c) = None
    /\ \/ RowOf(k) = RowOf(click[c])
       \/ LET m == SessionOf(c).message
          IN m # None /\ rows[m] # None /\ RowOf(k) = rows[m].id

LEMMA ClickIs ==
  ASSUME SetupInv, NEW c \in Clicks, NEW k, click' = [click EXCEPT ![c] = k]
  PROVE  click'[c] = k /\ \A d \in Clicks : d # c => click'[d] = click[d]
BY DEF SetupInv, SetupTypeOK

LEMMA ClickOnward ==
  ASSUME SetupInv, NEW c \in Clicks, NEW k, click' = [click EXCEPT ![c] = k], Onward(c, k)
  PROVE  WorkClick(c)
BY ClickIs DEF WorkClick, Onward

\* It writes nothing.
LEMMA Moves ==
  ASSUME SetupInv, NEW c \in Clicks, Works(c), NEW k \in Click, Fits(k, sessions),
         Onward(c, k), k.on = None, click[c].on = None, click' = [click EXCEPT ![c] = k],
         open' \in [Admins -> 0..Len(sessions)], Fails \/ UNCHANGED faults,
         UNCHANGED <<sessions, modal, shown, rows, made, doubled, ops, lastId>>
  PROVE  SetupInv' /\ WorkStep(c)
<1>1. Grows /\ Tables' BY Stays, TablesStay
<1>2. modal' \subseteq Admins BY DEF SetupInv, SetupTypeOK
<1>3. SetupInv' BY <1>1, <1>2, OneClick, TypeParts
<1>4. click'[c] = k /\ \A d \in Clicks : d # c => click'[d] = click[d] BY ClickIs
<1>5. WorkClick(c) /\ WorkMade(c) BY <1>4 DEF WorkClick, WorkMade, Onward
<1>6. WorkSessions(c) /\ WorkMessages(c) /\ WorkRows(c)
  BY DEF WorkSessions, WorkMessages, WorkRows, SessionOf, Target
<1> QED BY <1>3, <1>5, <1>6 DEF WorkStep

\* It writes its row, which keeps its number.
LEMMA Writes ==
  ASSUME SetupInv, NEW c \in Clicks, Works(c), NEW k \in Click, Fits(k, sessions),
         Onward(c, k), k.on = None, click[c].on = None, click' = [click EXCEPT ![c] = k],
         NEW h \in Messages, rows[h] # None, rows[h].id = RowOf(click[c]),
         NEW r \in Rows, r.id = rows[h].id, rows' = [rows EXCEPT ![h] = r],
         UNCHANGED <<sessions, open, modal, shown, made, doubled, ops, faults, lastId>>
  PROVE  SetupInv' /\ WorkStep(c)
<1>1. Grows BY Stays
<1>2. open' \in [Admins -> 0..Len(sessions')] /\ modal' \subseteq Admins
  BY DEF SetupInv, SetupTypeOK
<1>3. Tables' BY DEF SetupInv, SetupTypeOK, Tables
<1>4. SetupInv' BY <1>1, <1>2, <1>3, OneClick, TypeParts
<1>5. click'[c] = k /\ \A d \in Clicks : d # c => click'[d] = click[d] BY ClickIs
<1>6. \A m \in Messages : rows'[m] = IF m = h THEN r ELSE rows[m]
  BY DEF SetupInv, SetupTypeOK
<1>7. WorkClick(c) /\ WorkMade(c) BY <1>5 DEF WorkClick, WorkMade, Onward
<1>8. WorkSessions(c) BY DEF WorkSessions, SessionOf, Target
<1>9. WorkMessages(c) BY <1>6 DEF WorkMessages, Apart
<1>10. WorkRows(c) BY <1>6 DEF WorkRows
<1> QED BY <1>4, <1>7, <1>8, <1>9, <1>10 DEF WorkStep

\* It changes what its message shows.
LEMMA Shows ==
  ASSUME SetupInv, NEW c \in Clicks, Works(c), NEW k \in Click, Fits(k, sessions),
         Onward(c, k), k.on = None, click[c].on = None, click' = [click EXCEPT ![c] = k],
         NEW v \in [posted : BOOLEAN, buttons : SUBSET Roles, emojis : SUBSET Emojis, embed : Embeds],
         Target(c) \in Messages, v.posted = shown[Target(c)].posted,
         shown' = [shown EXCEPT ![Target(c)] = v],
         UNCHANGED <<sessions, open, modal, rows, made, doubled, ops, faults, lastId>>
  PROVE  SetupInv' /\ WorkStep(c)
<1>1. Grows BY Stays
<1>2. open' \in [Admins -> 0..Len(sessions')] /\ modal' \subseteq Admins
  BY DEF SetupInv, SetupTypeOK
<1>3. Tables' BY DEF SetupInv, SetupTypeOK, Tables
<1>4. SetupInv' BY <1>1, <1>2, <1>3, OneClick, TypeParts
<1>5. click'[c] = k /\ \A d \in Clicks : d # c => click'[d] = click[d] BY ClickIs
<1>6. \A m \in Messages : shown'[m] = IF m = Target(c) THEN v ELSE shown[m]
  BY DEF SetupInv, SetupTypeOK
<1>7. WorkClick(c) /\ WorkMade(c) BY <1>5 DEF WorkClick, WorkMade, Onward
<1>8. WorkSessions(c) BY DEF WorkSessions, SessionOf, Target
<1>9. WorkMessages(c) BY <1>6 DEF WorkMessages, Apart
<1>10. WorkRows(c) BY DEF WorkRows
<1> QED BY <1>4, <1>7, <1>8, <1>9, <1>10 DEF WorkStep

\* To another step, with another base, number or count.
LEMMA MovedClick ==
  ASSUME NEW k \in Click, NEW s \in Steps
  PROVE  LET j == [k EXCEPT !.at = s]
         IN /\ j \in Click /\ j.at = s /\ j.obj = k.obj /\ j.base = k.base /\ j.on = k.on
            /\ j.i = k.i /\ j.id = k.id /\ j.clean = k.clean /\ RowOf(j) = RowOf(k)
BY DEF Click, RowOf

LEMMA GoesFits ==
  ASSUME SetupInv, NEW c \in Clicks, Works(c), NEW s \in WorkSteps \ {"compare"},
         NEW j, j = [click[c] EXCEPT !.at = s],
         s \in {"edit", "clear", "look", "create"} => SessionOf(c).message # None,
         s = "react" => Target(c) # None,
         s = "send" => Target(c) = None,
         s = "update" => click[c].base # None,
         s \in {"look", "create"} => click[c].base = None,
         s \in {"wipe", "add"} => click[c].id = RowOf(click[c]),
         click[c].on # None => s = "react"
  PROVE  j \in Click /\ Fits(j, sessions) /\ Onward(c, j) /\ j.on = click[c].on
<1>1. click[c] \in Click /\ Fits(click[c], sessions) /\ s \in Steps
  BY DEF SetupInv, ClicksOK, WorkSteps
<1>2. /\ j \in Click /\ j.at = s /\ j.obj = click[c].obj /\ j.base = click[c].base
      /\ j.on = click[c].on /\ j.id = click[c].id /\ j.clean = click[c].clean
      /\ RowOf(j) = RowOf(click[c])
  BY <1>1, MovedClick
<1>3. Fits(j, sessions) BY <1>1, <1>2 DEF Fits, WorkSteps, Works, Target, SessionOf
<1> QED BY <1>2, <1>3 DEF Onward

LEMMA EndingOnward ==
  ASSUME SetupInv, NEW c \in Clicks
  PROVE  Idle \in Click /\ Fits(Idle, sessions) /\ Onward(c, Idle) /\ Idle.on = None
<1>1. Fits(Idle, sessions) BY DEF SetupInv, SetupTypeOK, Fits, Idle
<1> QED BY <1>1, IdleClick DEF Onward, Idle

\* The click ends; whatever it closes, it writes nothing.
LEMMA Ending ==
  ASSUME SetupInv, NEW c \in Clicks, Works(c), Ends(c), click[c].on = None,
         open' \in [Admins -> 0..Len(sessions)], Fails \/ UNCHANGED faults,
         UNCHANGED <<sessions, modal, shown, rows, made, doubled, ops, lastId>>
  PROVE  SetupInv' /\ WorkStep(c)
BY EndingOnward, Moves DEF Ends

LEMMA WorkHas ==
  ASSUME SetupInv, NEW c \in Clicks, Works(c)
  PROVE  /\ click[c] \in Click /\ Fits(click[c], sessions)
         /\ click[c].obj \in 1..Len(sessions) /\ SessionOf(c) \in Session
         /\ SessionOf(c).message # None =>
              SessionOf(c).message \in Messages /\ rows[SessionOf(c).message] \in Rows \cup {None}
         /\ click[c].on = None => Target(c) = SessionOf(c).message
         /\ Target(c) # None => Target(c) \in Messages
<1>1. click[c] \in Click /\ Fits(click[c], sessions) BY DEF SetupInv, ClicksOK
<1>2. click[c].obj \in 1..Len(sessions) /\ SessionOf(c) \in Session
  BY Holding DEF Works, WorkSteps
<1>3. SessionOf(c).message \in Messages \cup {None} /\ click[c].on \in Messages \cup {None}
  BY <1>1, <1>2, SessionFields, ClickFields
<1>4. \A m \in Messages : rows[m] \in Rows \cup {None} BY DEF SetupInv, SetupTypeOK
<1> QED BY <1>1, <1>2, <1>3, <1>4 DEF Target

LEMMA Closed ==
  ASSUME SetupInv, NEW a, open' = [open EXCEPT ![a] = 0]
  PROVE  open' \in [Admins -> 0..Len(sessions)]
<1>1. Len(sessions) \in Nat /\ open \in [Admins -> 0..Len(sessions)]
  BY DEF SetupInv, SetupTypeOK
<1>2. 0 \in 0..Len(sessions) BY <1>1
<1> QED BY <1>1, <1>2

LEMMA CompareStep ==
  ASSUME SetupInv, NEW c \in Clicks, Compare(c)
  PROVE  SetupInv' /\ WorkStep(c)
<1> DEFINE s == SessionOf(c)
           stored == IF s.message = None THEN None ELSE rows[s.message]
           k == [click[c] EXCEPT !.at = "validate", !.base = stored]
<1>1. click[c].at = "compare" /\ Works(c)
      /\ UNCHANGED <<sessions, modal, shown, rows, made, doubled, ops, faults, lastId>>
  BY DEF Compare, At, Works, WorkSteps, Steps
<1>2. open \in [Admins -> 0..Len(sessions)] BY DEF SetupInv, SetupTypeOK
<1>3. CASE Ends(c) /\ open' = [open EXCEPT ![click[c].admin] = 0]
  <2>1. click[c].on = None BY <1>1, WorkHas DEF Fits
  <2> QED BY <1>1, <1>3, <2>1, Closed, Ending
<1>4. CASE click' = [click EXCEPT ![c] = k] /\ UNCHANGED open
  <2>1. click[c] \in Click /\ Fits(click[c], sessions) /\ stored \in Rows \cup {None}
    BY <1>1, WorkHas
  <2>2. /\ k \in Click /\ k.at = "validate" /\ k.obj = click[c].obj /\ k.on = click[c].on
        /\ k.clean = click[c].clean /\ k.base = stored /\ k.id = click[c].id
    <3> HIDE DEF stored
    <3> QED BY <2>1 DEF Click, Steps
  <2>3. click[c].on = None BY <1>1, <2>1 DEF Fits
  <2> HIDE DEF k
  <2>4. Fits(k, sessions) BY <1>1, <2>1, <2>2, <2>3 DEF Fits
  <2>5. Onward(c, k)
    <3>1. CASE stored = None
      <4>1. click[c].base = None BY <1>1, <2>1 DEF Fits
      <4> QED BY <2>2, <3>1, <4>1 DEF Onward, RowOf, WorkSteps, Steps
    <3>2. CASE stored # None
      BY <2>2, <3>2 DEF Onward, RowOf, WorkSteps, Steps
    <3> QED BY <3>1, <3>2
  <2> QED BY <1>1, <1>2, <1>4, <2>2, <2>3, <2>4, <2>5, Moves
<1>5. (Ends(c) /\ open' = [open EXCEPT ![click[c].admin] = 0])
      \/ (click' = [click EXCEPT ![c] = k] /\ UNCHANGED open)
  BY DEF Compare
<1> QED BY <1>3, <1>4, <1>5

LEMMA ValidateStep ==
  ASSUME SetupInv, NEW c \in Clicks, Validate(c)
  PROVE  SetupInv' /\ WorkStep(c)
<1>1. click[c].at = "validate" /\ Works(c)
      /\ UNCHANGED <<sessions, open, modal, shown, rows, made, doubled, ops, faults, lastId>>
  BY DEF Validate, At, Works, WorkSteps, Steps
<1>2. open' \in [Admins -> 0..Len(sessions)] BY <1>1 DEF SetupInv, SetupTypeOK
<1>3. CASE Ends(c)
  <2>1. click[c].on = None BY <1>1, WorkHas DEF Fits
  <2> QED BY <1>1, <1>2, <1>3, <2>1, Ending
<1>4. ASSUME NEW s \in {"send", "react", "edit"}, Goes(c, s),
             (s = "send") <=> (SessionOf(c).message = None)
      PROVE  SetupInv' /\ WorkStep(c)
  <2> DEFINE k == [click[c] EXCEPT !.at = s]
  <2>1. click[c].on = None /\ Target(c) = SessionOf(c).message
    BY <1>1, WorkHas DEF Fits
  <2>2. s \in WorkSteps \ {"compare"} BY DEF WorkSteps, Steps
  <2>3. k \in Click /\ Fits(k, sessions) /\ Onward(c, k) /\ k.on = click[c].on
    BY <1>1, <1>4, <2>1, <2>2, GoesFits
  <2>4. click' = [click EXCEPT ![c] = k] BY <1>4 DEF Goes
  <2> HIDE DEF k
  <2> QED BY <1>1, <1>2, <2>1, <2>3, <2>4, Moves
<1>5. \/ Ends(c)
      \/ \E s \in {"send", "react", "edit"} :
           Goes(c, s) /\ ((s = "send") <=> (SessionOf(c).message = None))
  <2>1. CASE ~Valid(ListOf(c)) BY <2>1 DEF Validate
  <2>2. CASE Valid(ListOf(c))
    <3>1. Goes(c, IF SessionOf(c).message = None THEN "send"
                  ELSE IF SessionOf(c).canEdit THEN "edit" ELSE "react")
      BY <2>2 DEF Validate
    <3>2. CASE SessionOf(c).message = None BY <3>1, <3>2
    <3>3. CASE SessionOf(c).message # None /\ SessionOf(c).canEdit BY <3>1, <3>3
    <3>4. CASE SessionOf(c).message # None /\ ~SessionOf(c).canEdit BY <3>1, <3>4
    <3> QED BY <3>2, <3>3, <3>4
  <2> QED BY <2>1, <2>2
<1> QED BY <1>3, <1>4, <1>5

LEMMA SendStep ==
  ASSUME SetupInv, NEW c \in Clicks, NEW m \in Menus, Send(c, m)
  PROVE  SetupInv' /\ WorkStep(c)
<1> DEFINE k == [click[c] EXCEPT !.at = "react", !.on = m]
           v == [posted |-> TRUE, buttons |-> ButtonsOf(ListOf(c)), emojis |-> {},
                 embed |-> SessionOf(c).embed]
<1>1. click[c].at = "send" /\ Works(c) /\ ~shown[m].posted
      /\ UNCHANGED <<sessions, open, modal, rows, doubled, ops, faults, lastId>>
      /\ click' = [click EXCEPT ![c] = k] /\ shown' = [shown EXCEPT ![m] = v]
      /\ made' = [made EXCEPT ![m] = click[c].obj]
  BY DEF Send, At, Works, WorkSteps, Steps
<1>2. m \in Messages BY DEF Messages
<1>3. /\ click[c] \in Click /\ Fits(click[c], sessions) /\ SessionOf(c) \in Session
      /\ click[c].obj \in 1..Len(sessions)
  BY <1>1, WorkHas
<1>4. v \in [posted : BOOLEAN, buttons : SUBSET Roles, emojis : SUBSET Emojis, embed : Embeds]
  <2>1. ButtonsOf(ListOf(c)) \subseteq Roles /\ SessionOf(c).embed \in Embeds
    BY <1>3, SessionFields, ListsShow DEF ListOf
  <2> QED BY <2>1
<1>5. /\ k \in Click /\ k.at = "react" /\ k.obj = click[c].obj /\ k.on = m
      /\ k.clean = click[c].clean /\ k.base = click[c].base /\ k.id = click[c].id
  BY <1>2, <1>3 DEF Click, Steps
<1>6. v.posted = TRUE OBVIOUS
<1> HIDE DEF k, v
<1>7. Fits(k, sessions) /\ k # Idle
  BY <1>1, <1>2, <1>3, <1>5, NoMessage DEF Fits, Idle
<1>8. Tables'
  <2>1. Tables /\ Len(sessions) \in Nat BY DEF SetupInv, SetupTypeOK, Tables
  <2>2. made' \in [Menus -> 0..Len(sessions)] BY <1>1, <1>3, <2>1 DEF Tables
  <2>3. shown' \in [Messages -> [posted : BOOLEAN, buttons : SUBSET Roles,
                                 emojis : SUBSET Emojis, embed : Embeds]]
    BY <1>1, <1>4, <2>1 DEF Tables
  <2> QED BY <1>1, <2>1, <2>2, <2>3 DEF Tables
<1>9. SetupInv'
  <2>1. Grows BY <1>1, Stays
  <2>2. open' \in [Admins -> 0..Len(sessions')] /\ modal' \subseteq Admins
    BY <1>1 DEF SetupInv, SetupTypeOK
  <2> QED BY <1>1, <1>5, <1>7, <1>8, <2>1, <2>2, OneClick, TypeParts
<1>10. click'[c] = k /\ \A d \in Clicks : d # c => click'[d] = click[d]
  BY <1>1, ClickIs
<1>11. \A n \in Messages : shown'[n] = IF n = m THEN v ELSE shown[n]
  BY <1>1 DEF SetupInv, SetupTypeOK
<1>12. WorkClick(c)
  <2>1. k.at \in WorkSteps BY <1>5 DEF WorkSteps, Steps
  <2>2. RowOf(k) = RowOf(click[c]) BY <1>5 DEF RowOf
  <2>3. k.obj = click[c].obj /\ (k.clean => click[c].clean) BY <1>5
  <2>4. Onward(c, k) BY <1>5, <2>1, <2>2, <2>3 DEF Onward
  <2> QED BY <1>1, <2>4, ClickOnward
<1>13. WorkMade(c)
  <2>1. shown'[m].posted
    <3>1. shown'[m] = v BY <1>2, <1>11
    <3> QED BY <1>6, <3>1
  <2> QED BY <1>1, <1>5, <1>10, <2>1 DEF WorkMade
<1>14. WorkSessions(c)
  <2>1. click[c].on = None BY <1>1, <1>3 DEF Fits
  <2> QED BY <1>1, <2>1 DEF WorkSessions, SessionOf, Target
<1>15. WorkMessages(c) BY <1>1, <1>6, <1>11 DEF WorkMessages, Apart
<1>16. WorkRows(c) BY <1>1 DEF WorkRows
<1> QED BY <1>1, <1>9, <1>12, <1>13, <1>14, <1>15, <1>16 DEF WorkStep

LEMMA ShownIs ==
  ASSUME SetupInv, NEW m \in Messages
  PROVE  /\ shown[m] \in [posted : BOOLEAN, buttons : SUBSET Roles, emojis : SUBSET Emojis,
                          embed : Embeds]
         /\ shown[m].posted \in BOOLEAN /\ shown[m].buttons \subseteq Roles
         /\ shown[m].emojis \subseteq Emojis /\ shown[m].embed \in Embeds
BY DEF SetupInv, SetupTypeOK

LEMMA EditingStep ==
  ASSUME SetupInv, NEW c \in Clicks, Edit(c)
  PROVE  SetupInv' /\ WorkStep(c)
<1>1. click[c].at = "edit" /\ Works(c)
      /\ UNCHANGED <<sessions, open, modal, rows, made, doubled, ops, faults, lastId>>
  BY DEF Edit, At, Works, WorkSteps, Steps
<1>2. open' \in [Admins -> 0..Len(sessions)] BY <1>1 DEF SetupInv, SetupTypeOK
<1> DEFINE m == SessionOf(c).message
           embed == IF SessionOf(c).embed = "custom" THEN "custom" ELSE shown[m].embed
           v == [shown[m] EXCEPT !.buttons = ButtonsOf(ListOf(c)), !.embed = embed]
           k == [click[c] EXCEPT !.at = "clear"]
<1>3. m # None /\ click[c].on = None /\ Target(c) = m /\ m \in Messages /\ SessionOf(c) \in Session
  BY <1>1, WorkHas DEF Fits, SessionOf
<1>4. CASE m \in Posts
  <2>1. Ends(c) /\ UNCHANGED shown BY <1>4 DEF Edit
  <2> QED BY <1>1, <1>2, <1>3, <2>1, Ending
<1>5. CASE m \notin Posts
  <2>1. shown' = [shown EXCEPT ![m] = v] /\ click' = [click EXCEPT ![c] = k]
    <3>1. shown' = [shown EXCEPT ![m].buttons = ButtonsOf(ListOf(c)),
                                 ![m].embed = IF SessionOf(c).embed = "custom" THEN "custom" ELSE @]
      BY <1>5 DEF Edit
    <3>2. shown[m] \in [posted : BOOLEAN, buttons : SUBSET Roles, emojis : SUBSET Emojis,
                        embed : Embeds] /\ shown \in [Messages -> [posted : BOOLEAN,
                        buttons : SUBSET Roles, emojis : SUBSET Emojis, embed : Embeds]]
      BY <1>3, ShownIs DEF SetupInv, SetupTypeOK
    <3>3. shown' = [shown EXCEPT ![m] = v] BY <1>3, <3>1, <3>2
    <3> QED BY <1>5, <3>3 DEF Edit, Goes
  <2>2. ButtonsOf(ListOf(c)) \subseteq Roles /\ embed \in Embeds
    <3>1. ButtonsOf(ListOf(c)) \subseteq Roles
      BY <1>3, SessionFields, ListsShow DEF ListOf
    <3> QED BY <1>3, <3>1, ShownIs DEF Embeds
  <2>3. v \in [posted : BOOLEAN, buttons : SUBSET Roles, emojis : SUBSET Emojis, embed : Embeds]
        /\ v.posted = shown[m].posted
    <3> HIDE DEF embed
    <3> QED BY <1>3, <2>2, ShownIs
  <2>4. "clear" \in WorkSteps \ {"compare"} BY DEF WorkSteps, Steps
  <2>5. k \in Click /\ Fits(k, sessions) /\ Onward(c, k) /\ k.on = click[c].on
    BY <1>1, <1>3, <2>4, GoesFits
  <2> HIDE DEF k, v
  <2> QED BY <1>1, <1>3, <2>1, <2>3, <2>5, Shows
<1> QED BY <1>4, <1>5

LEMMA ClearStep ==
  ASSUME SetupInv, NEW c \in Clicks, ClearReactions(c)
  PROVE  SetupInv' /\ WorkStep(c)
<1> DEFINE m == SessionOf(c).message
           v == [shown[m] EXCEPT !.emojis = {}]
           k == [click[c] EXCEPT !.at = "react"]
<1>1. click[c].at = "clear" /\ Works(c)
      /\ UNCHANGED <<sessions, open, modal, rows, made, doubled, ops, faults, lastId>>
      /\ click' = [click EXCEPT ![c] = k]
  BY DEF ClearReactions, At, Works, WorkSteps, Steps, Goes
<1>2. m # None /\ click[c].on = None /\ Target(c) = m /\ m \in Messages
  BY <1>1, WorkHas DEF Fits, SessionOf
<1>3. shown' = [shown EXCEPT ![m] = v]
  BY <1>2 DEF ClearReactions, SetupInv, SetupTypeOK
<1>4. v \in [posted : BOOLEAN, buttons : SUBSET Roles, emojis : SUBSET Emojis, embed : Embeds]
      /\ v.posted = shown[m].posted
  BY <1>2, ShownIs
<1>5. "react" \in WorkSteps \ {"compare"} BY DEF WorkSteps, Steps
<1>6. k \in Click /\ Fits(k, sessions) /\ Onward(c, k) /\ k.on = click[c].on
  BY <1>1, <1>2, <1>5, GoesFits
<1> HIDE DEF k, v
<1> QED BY <1>1, <1>2, <1>3, <1>4, <1>6, Shows

LEMMA AddReactionsStep ==
  ASSUME SetupInv, NEW c \in Clicks, AddReactions(c)
  PROVE  SetupInv' /\ WorkStep(c)
<1> DEFINE m == Target(c)
           o == click[c].obj
           session == [sessions[o] EXCEPT !.message = m]
           s == IF click[c].base = None THEN "look" ELSE "update"
<1>1. click[c].at = "react" /\ Works(c) /\ (UNCHANGED faults \/ Fails)
      /\ UNCHANGED <<open, modal, rows, made, doubled, ops, lastId>>
      /\ sessions' = [sessions EXCEPT ![o].message = m]
  BY DEF AddReactions, At, Works, WorkSteps, Steps
<1>2. PICK lost \in SUBSET EmojisOf(ListOf(c)) :
        /\ shown' = [shown EXCEPT ![m].emojis = @ \cup (EmojisOf(ListOf(c)) \ lost)]
        /\ click' = [click EXCEPT ![c].at = s, ![c].on = None, ![c].clean = @ /\ lost = {}]
  BY DEF AddReactions
<1> DEFINE v == [shown[m] EXCEPT !.emojis = @ \cup (EmojisOf(ListOf(c)) \ lost)]
           k == [click[c] EXCEPT !.at = s, !.on = None, !.clean = click[c].clean /\ lost = {}]
<1>3. /\ m \in Messages /\ m # None /\ o \in 1..Len(sessions) /\ sessions[o] \in Session
      /\ click[c] \in Click /\ m \in {SessionOf(c).message} \cup ({click[c].on} \ {None})
  <2>1. m # None BY <1>1, WorkHas DEF Fits, Target, SessionOf
  <2>2. m \in {SessionOf(c).message} \cup ({click[c].on} \ {None}) BY DEF Target
  <2> QED BY <1>1, <2>1, <2>2, WorkHas DEF SessionOf
<1>4. session \in Session /\ session.message = m /\ session.list = sessions[o].list
      /\ session.canEdit = sessions[o].canEdit
  BY <1>3 DEF Session
<1>5. sessions' = [sessions EXCEPT ![o] = session]
  <2>1. sessions \in Seq(Session) BY DEF SetupInv, SetupTypeOK
  <2> QED BY <1>1, <1>3, <2>1
<1>6. Grows /\ Len(sessions') = Len(sessions) /\ sessions'[o] = session
      /\ \A p \in 1..Len(sessions) : p # o => sessions'[p] = sessions[p]
  <2> HIDE DEF session, m, o
  <2> QED BY <1>3, <1>4, <1>5, Alters
<1>7. /\ k \in Click /\ k.at = s /\ k.obj = o /\ k.on = None /\ k.base = click[c].base
      /\ k.id = click[c].id /\ (k.clean => click[c].clean)
  <2>1. (click[c].clean /\ lost = {}) \in BOOLEAN BY <1>3, ClickFields
  <2>2. ASSUME NEW b \in BOOLEAN, b => click[c].clean
        PROVE  LET j == [click[c] EXCEPT !.at = s, !.on = None, !.clean = b]
               IN /\ j \in Click /\ j.at = s /\ j.obj = o /\ j.on = None /\ j.base = click[c].base
                  /\ j.id = click[c].id /\ (j.clean => click[c].clean)
    BY <1>3, <2>2 DEF Click, Steps
  <2> QED BY <2>1, <2>2
<1>8. click' = [click EXCEPT ![c] = k]
  BY <1>2 DEF SetupInv, SetupTypeOK
<1>9. EmojisOf(ListOf(c)) \subseteq Emojis
  BY <1>3, SessionFields, ListsShow DEF ListOf, SessionOf
<1>10. v \in [posted : BOOLEAN, buttons : SUBSET Roles, emojis : SUBSET Emojis, embed : Embeds]
       /\ v.posted = shown[m].posted
  <2> HIDE DEF m
  <2>1. shown[m].emojis \cup (EmojisOf(ListOf(c)) \ lost) \in SUBSET Emojis
    BY <1>3, <1>9, ShownIs
  <2> QED BY <1>3, <2>1, ShownIs
<1>11. shown' = [shown EXCEPT ![m] = v]
  BY <1>2, <1>3 DEF SetupInv, SetupTypeOK
<1>12. Fits(k, sessions') /\ Onward(c, k)
  <2>1. (s = "look" /\ click[c].base = None) \/ (s = "update" /\ click[c].base # None) OBVIOUS
  <2>2. k.at \in WorkSteps BY <1>7, <2>1 DEF WorkSteps, Steps
  <2> HIDE DEF k, s, session, m
  <2>3. RowOf(k) = RowOf(click[c]) BY <1>7 DEF RowOf
  <2>4. Onward(c, k) BY <1>7, <2>1, <2>2, <2>3 DEF Onward
  <2>5. k.obj \in 0..Len(sessions') /\ k.obj # 0
    <3>1. Len(sessions) \in Nat BY DEF SetupInv, SetupTypeOK
    <3> QED BY <1>3, <1>6, <1>7, <3>1
  <2>6. sessions'[k.obj].message # None BY <1>3, <1>4, <1>6, <1>7
  <2> QED BY <1>7, <2>1, <2>4, <2>5, <2>6 DEF Fits
<1> HIDE DEF k, v, s, session
<1>13. Tables'
  <2>1. Tables BY DEF SetupInv, SetupTypeOK, Tables
  <2>2. shown' \in [Messages -> [posted : BOOLEAN, buttons : SUBSET Roles,
                                 emojis : SUBSET Emojis, embed : Embeds]]
    BY <1>10, <1>11, <2>1 DEF Tables
  <2> QED BY <1>1, <1>6, <2>1, <2>2 DEF Tables
<1>14. SetupInv'
  <2>1. open' \in [Admins -> 0..Len(sessions')] /\ modal' \subseteq Admins
    BY <1>1, <1>6 DEF SetupInv, SetupTypeOK
  <2> QED BY <1>1, <1>6, <1>7, <1>8, <1>12, <1>13, <2>1, OneClick, TypeParts
<1>15. WorkClick(c) BY <1>8, <1>12, ClickOnward
<1>16. WorkMade(c)
  <2>1. click'[c] = k BY <1>8, ClickIs
  <2> QED BY <1>1, <1>7, <2>1 DEF WorkMade
<1>17. WorkSessions(c)
  BY <1>3, <1>4, <1>6 DEF WorkSessions
<1>18. WorkMessages(c)
  <2>1. \A n \in Messages : shown'[n] = IF n = m THEN v ELSE shown[n]
    BY <1>11 DEF SetupInv, SetupTypeOK
  <2> QED BY <1>1, <1>10, <2>1 DEF WorkMessages, Apart
<1>19. WorkRows(c) BY <1>1 DEF WorkRows
<1> QED BY <1>1, <1>14, <1>15, <1>16, <1>17, <1>18, <1>19 DEF WorkStep

LEMMA LookAgainStep ==
  ASSUME SetupInv, NEW c \in Clicks, LookAgain(c)
  PROVE  SetupInv' /\ WorkStep(c)
<1> DEFINE row == rows[SessionOf(c).message]
           s == IF row = None THEN "create" ELSE "update"
           k == [click[c] EXCEPT !.at = s, !.base = row]
<1>1. click[c].at = "look" /\ Works(c) /\ click' = [click EXCEPT ![c] = k]
      /\ UNCHANGED <<sessions, open, modal, shown, rows, made, doubled, ops, faults, lastId>>
  BY DEF LookAgain, At, Works, WorkSteps, Steps
<1>2. /\ click[c] \in Click /\ Fits(click[c], sessions) /\ click[c].on = None
      /\ SessionOf(c).message # None /\ row \in Rows \cup {None}
  BY <1>1, WorkHas DEF Fits, SessionOf
<1>3. s \in {"create", "update"} /\ (s = "create" <=> row = None) OBVIOUS
<1> HIDE DEF row, s
<1>4. /\ k \in Click /\ k.at = s /\ k.obj = click[c].obj /\ k.on = None /\ k.base = row
      /\ k.id = click[c].id /\ k.clean = click[c].clean
  BY <1>2, <1>3 DEF Click, Steps
<1> HIDE DEF k
<1>5. Fits(k, sessions) BY <1>1, <1>2, <1>3, <1>4 DEF Fits, SessionOf
<1>6. Onward(c, k)
  <2>1. k.at \in WorkSteps /\ k.obj = click[c].obj /\ (k.clean => click[c].clean)
    BY <1>3, <1>4 DEF WorkSteps, Steps
  <2>2. CASE row = None
    <3>1. RowOf(k) = RowOf(click[c]) BY <1>1, <1>2, <1>4, <2>2 DEF RowOf, Fits
    <3> QED BY <1>3, <1>4, <2>1, <3>1 DEF Onward
  <2>3. CASE row # None
    <3>1. RowOf(k) = row.id BY <1>4, <2>3 DEF RowOf
    <3> QED BY <1>2, <1>3, <1>4, <2>1, <2>3, <3>1 DEF Onward, row
  <2> QED BY <2>2, <2>3
<1>7. open' \in [Admins -> 0..Len(sessions)] BY <1>1 DEF SetupInv, SetupTypeOK
<1> QED BY <1>1, <1>2, <1>4, <1>5, <1>6, <1>7, Moves

LEMMA CreateRowStep ==
  ASSUME SetupInv, NEW c \in Clicks, CreateRow(c)
  PROVE  SetupInv' /\ WorkStep(c)
<1> DEFINE m == SessionOf(c).message
           r == [id |-> lastId + 1, mode |-> SessionOf(c).mode, embed |-> SessionOf(c).embed,
                 mappings |-> <<>>]
           k == [click[c] EXCEPT !.at = "add", !.id = lastId + 1]
<1>1. click[c].at = "create" /\ Works(c)
      /\ UNCHANGED <<sessions, open, modal, shown, made, doubled, ops, faults>>
  BY DEF CreateRow, At, Works, WorkSteps, Steps
<1>2. /\ click[c] \in Click /\ click[c].on = None /\ click[c].base = None /\ m # None
      /\ m \in Messages /\ SessionOf(c) \in Session /\ Fits(click[c], sessions)
  BY <1>1, WorkHas DEF Fits, SessionOf
<1>3. open' \in [Admins -> 0..Len(sessions)] /\ lastId \in Nat \ {0}
  BY <1>1 DEF SetupInv, SetupTypeOK
<1>4. CASE rows[m] # None
  <2>1. Ends(c) /\ UNCHANGED <<rows, lastId>> BY <1>4 DEF CreateRow
  <2> QED BY <1>1, <1>2, <1>3, <2>1, Ending
<1>5. CASE rows[m] = None
  <2>1. rows' = [rows EXCEPT ![m] = r] /\ lastId' = lastId + 1 /\ click' = [click EXCEPT ![c] = k]
    BY <1>5 DEF CreateRow
  <2>2. r \in Rows /\ r.id = lastId'
    <3>1. <<>> \in Seq(Mappings) OBVIOUS
    <3> QED BY <1>2, <1>3, <2>1, <3>1, SessionFields DEF Rows
  <2>3. /\ k \in Click /\ k.at = "add" /\ k.obj = click[c].obj /\ k.on = None
        /\ k.base = None /\ k.id = lastId' /\ k.clean = click[c].clean
    <3>1. ASSUME NEW n \in Nat
          PROVE  LET j == [click[c] EXCEPT !.at = "add", !.id = n]
                 IN /\ j \in Click /\ j.at = "add" /\ j.obj = click[c].obj
                    /\ j.on = click[c].on /\ j.base = click[c].base /\ j.id = n
                    /\ j.clean = click[c].clean
      BY <1>2 DEF Click, Steps
    <3>2. lastId + 1 \in Nat /\ lastId' = lastId + 1 BY <1>3, <2>1
    <3> QED BY <1>2, <3>1, <3>2
  <2> HIDE DEF k, r, m
  <2>4. Fits(k, sessions') /\ RowOf(k) = lastId'
    BY <1>1, <1>2, <2>3 DEF Fits, RowOf
  <2>5. Grows BY <1>1, Stays
  <2>6. Tables'
    <3>1. Tables BY DEF SetupInv, SetupTypeOK, Tables
    <3>2. rows' \in [Messages -> Rows \cup {None}] BY <1>2, <2>1, <2>2, <3>1 DEF Tables
    <3> QED BY <1>1, <1>3, <2>1, <3>1, <3>2 DEF Tables
  <2>7. SetupInv'
    <3>1. modal' \subseteq Admins BY <1>1 DEF SetupInv, SetupTypeOK
    <3> QED BY <1>1, <1>3, <2>1, <2>3, <2>4, <2>5, <2>6, <3>1, OneClick, TypeParts
  <2>8. click'[c] = k /\ \A d \in Clicks : d # c => click'[d] = click[d] BY <2>1, ClickIs
  <2>9. \A n \in Messages : rows'[n] = IF n = m THEN r ELSE rows[n]
    BY <2>1 DEF SetupInv, SetupTypeOK
  <2>10. WorkClick(c)
    <3>1. k.at \in WorkSteps /\ (k.clean => click[c].clean) BY <2>3 DEF WorkSteps, Steps
    <3> QED BY <2>1, <2>3, <2>4, <2>8, <3>1 DEF WorkClick
  <2>11. WorkMade(c) BY <1>1, <2>3, <2>8 DEF WorkMade
  <2>12. WorkSessions(c) BY <1>1, <1>2 DEF WorkSessions, SessionOf, Target
  <2>13. WorkMessages(c) BY <1>1, <1>2, <2>9 DEF WorkMessages, Apart, Target, m
  <2>14. WorkRows(c) BY <1>2, <2>1, <2>2, <2>9 DEF WorkRows, m
  <2> QED BY <1>1, <2>7, <2>10, <2>11, <2>12, <2>13, <2>14 DEF WorkStep
<1> QED BY <1>4, <1>5

\* The row with a number that some row has.
LEMMA HolderIs ==
  ASSUME NEW id \in RowIds
  PROVE  Holder(id) \in Messages /\ rows[Holder(id)] # None /\ rows[Holder(id)].id = id
BY DEF RowIds, Holder

LEMMA SavingStep ==
  ASSUME SetupInv, NEW c \in Clicks,
         UpdateRow(c) \/ RemoveAllMappings(c) \/ AddMapping(c)
  PROVE  SetupInv' /\ WorkStep(c)
<1> DEFINE id == RowOf(click[c])
           h == Holder(id)
<1>1. click[c].at \in {"update", "wipe", "add"} /\ Works(c)
      /\ UNCHANGED <<sessions, open, modal, shown, made, doubled, ops, faults, lastId>>
  BY DEF UpdateRow, RemoveAllMappings, AddMapping, At, Works, WorkSteps, Steps
<1>2. /\ click[c] \in Click /\ Fits(click[c], sessions) /\ click[c].on = None
      /\ SessionOf(c) \in Session
  BY <1>1, WorkHas DEF Fits
<1>3. open' \in [Admins -> 0..Len(sessions)] BY <1>1 DEF SetupInv, SetupTypeOK
<1>4. CASE id \notin RowIds
  <2>1. Ends(c) /\ UNCHANGED rows
    BY <1>1, <1>2, <1>4 DEF UpdateRow, RemoveAllMappings, AddMapping, At, Fits, RowOf
  <2> QED BY <1>1, <1>2, <1>3, <2>1, Ending
<1>5. CASE id \in RowIds
  <2>1. h \in Messages /\ rows[h] # None /\ rows[h].id = id BY <1>5, HolderIs
  <2>2. rows[h] \in Rows /\ rows \in [Messages -> Rows \cup {None}]
    BY <2>1 DEF SetupInv, SetupTypeOK
  <2> HIDE DEF h, id
  <2>3. CASE UpdateRow(c)
    <3> DEFINE r == [rows[h] EXCEPT !.mode = SessionOf(c).mode, !.embed = SessionOf(c).embed]
               k == [click[c] EXCEPT !.at = "wipe", !.id = id]
    <3>1. click[c].base # None /\ id = click[c].base.id
      BY <1>2, <2>3 DEF Fits, UpdateRow, At, RowOf, id
    <3>2. rows' = [rows EXCEPT ![h].mode = SessionOf(c).mode, ![h].embed = SessionOf(c).embed]
          /\ click' = [click EXCEPT ![c] = k]
      BY <1>5, <2>3, <3>1 DEF UpdateRow, h
    <3>3. rows' = [rows EXCEPT ![h] = r] BY <2>1, <2>2, <3>2
    <3>4. r \in Rows /\ r.id = rows[h].id BY <1>2, <2>2, SessionFields DEF Rows
    <3>5. id \in Nat BY <2>1, <2>2, RowFields
    <3>6. /\ k \in Click /\ k.at = "wipe" /\ k.obj = click[c].obj /\ k.on = None
          /\ k.base = click[c].base /\ k.id = id /\ k.clean = click[c].clean
      BY <1>2, <3>5 DEF Click, Steps
    <3> HIDE DEF k, r
    <3>7. RowOf(k) = RowOf(click[c]) /\ RowOf(k) = id BY <3>1, <3>6 DEF RowOf
    <3>8. Fits(k, sessions) BY <1>1, <1>2, <3>6, <3>7 DEF Fits
    <3>9. k.at \in WorkSteps /\ (k.clean => click[c].clean) BY <3>6 DEF WorkSteps, Steps
    <3>10. Onward(c, k) BY <3>6, <3>7, <3>9 DEF Onward
    <3> QED BY <1>1, <1>2, <2>1, <3>2, <3>3, <3>4, <3>6, <3>8, <3>10, Writes DEF id
  <2>4. CASE RemoveAllMappings(c)
    <3> DEFINE r == [rows[h] EXCEPT !.mappings = <<>>]
               k == [click[c] EXCEPT !.at = "add"]
    <3>1. click[c].at = "wipe" /\ id = click[c].id
      BY <1>2, <2>4 DEF RemoveAllMappings, At, Fits, id
    <3>2. rows' = [rows EXCEPT ![h].mappings = <<>>] /\ click' = [click EXCEPT ![c] = k]
      BY <1>5, <2>4, <3>1 DEF RemoveAllMappings, Goes, h
    <3>3. rows' = [rows EXCEPT ![h] = r] BY <2>1, <2>2, <3>2
    <3>4. r \in Rows /\ r.id = rows[h].id
      <4>1. <<>> \in Seq(Mappings) OBVIOUS
      <4> QED BY <2>2, <4>1 DEF Rows
    <3>5. "add" \in WorkSteps \ {"compare"} BY DEF WorkSteps, Steps
    <3>6. click[c].id = RowOf(click[c]) BY <3>1 DEF id
    <3>7. k \in Click /\ Fits(k, sessions) /\ Onward(c, k) /\ k.on = click[c].on
      BY <1>1, <1>2, <3>5, <3>6, GoesFits
    <3> HIDE DEF k, r
    <3> QED BY <1>1, <1>2, <2>1, <3>2, <3>3, <3>4, <3>7, Writes DEF id
  <2>5. CASE AddMapping(c)
    <3> DEFINE x == ListOf(c)[click[c].i + 1]
               r == [rows[h] EXCEPT !.mappings = Append(rows[h].mappings, x)]
               k == [click[c] EXCEPT !.i = @ + 1]
    <3>1. click[c].at = "add" /\ id = click[c].id /\ click[c].i < Len(ListOf(c))
      BY <1>2, <2>5 DEF AddMapping, At, Fits, id
    <3>2. rows' = [rows EXCEPT ![h].mappings = Append(@, x)]
          /\ click' = [click EXCEPT ![c].i = @ + 1]
      BY <1>5, <2>5, <3>1 DEF AddMapping, h
    <3>3. rows' = [rows EXCEPT ![h] = r] BY <2>1, <2>2, <3>2
    <3>4. x \in Mappings
      <4>1. ListOf(c) \in Seq(Mappings) /\ click[c].i \in Nat
        BY <1>2, SessionFields, ClickFields DEF ListOf
      <4> QED BY <3>1, <4>1
    <3>5. r \in Rows /\ r.id = rows[h].id
      <4>1. Append(rows[h].mappings, x) \in Seq(Mappings) BY <2>2, <3>4, RowFields
      <4> QED BY <2>2, <4>1 DEF Rows
    <3>6. /\ k \in Click /\ k.at = "add" /\ k.obj = click[c].obj /\ k.on = None
          /\ k.base = click[c].base /\ k.id = click[c].id /\ k.clean = click[c].clean
      BY <1>2, <3>1 DEF Click
    <3>7. click' = [click EXCEPT ![c] = k] BY <3>2 DEF SetupInv, SetupTypeOK
    <3> HIDE DEF k, r, x
    <3>8. RowOf(k) = RowOf(click[c]) BY <3>6 DEF RowOf
    <3>9. Fits(k, sessions) BY <1>1, <1>2, <3>1, <3>6, <3>8 DEF Fits, id
    <3>10. k.at \in WorkSteps /\ (k.clean => click[c].clean) BY <3>6 DEF WorkSteps, Steps
    <3>11. Onward(c, k) BY <3>6, <3>8, <3>10 DEF Onward
    <3> QED BY <1>1, <1>2, <2>1, <3>3, <3>5, <3>6, <3>7, <3>9, <3>11, Writes DEF id
  <2> QED BY <2>3, <2>4, <2>5
<1> QED BY <1>4, <1>5

LEMMA SavedStep ==
  ASSUME SetupInv, NEW c \in Clicks, Saved(c)
  PROVE  SetupInv' /\ WorkStep(c)
<1>1. /\ Works(c) /\ Ends(c) /\ open' = [open EXCEPT ![click[c].admin] = 0]
      /\ UNCHANGED <<sessions, modal, shown, rows, made, doubled, ops, faults, lastId>>
  BY DEF Saved, At, Works, WorkSteps, Steps
<1>2. click[c].on = None BY <1>1, WorkHas DEF Saved, At, Fits
<1> QED BY <1>1, <1>2, Closed, Ending

LEMMA FinishFailsStep ==
  ASSUME SetupInv, NEW c \in Clicks, FinishFails(c)
  PROVE  SetupInv' /\ (WorkStep(c) \/ EditStep)
<1>1. /\ Ends(c) /\ Fails /\ click[c].at \notin {"idle", "react", "asked"}
      /\ UNCHANGED <<sessions, open, modal, shown, rows, made, doubled, ops, lastId>>
  BY DEF FinishFails
<1>2. open' \in [Admins -> 0..Len(sessions)] /\ modal' \subseteq Admins
      /\ click[c].at \in Steps
  BY <1>1, ClickFields DEF SetupInv, SetupTypeOK
<1>3. CASE click[c].at # "push"
  <2>1. Works(c) BY <1>1, <1>2, <1>3 DEF Works, WorkSteps
  <2>2. click[c].on = None BY <1>1, <2>1, WorkHas DEF Fits
  <2> QED BY <1>1, <1>2, <2>1, <2>2, Ending
<1>4. CASE click[c].at = "push"
  <2>1. Grows /\ Tables' BY <1>1, Stays, TablesStay
  <2>2. Fits(Idle, sessions') BY <1>1, EndingOnward
  <2>3. SetupInv' BY <1>1, <1>2, <2>1, <2>2, OneClick, TypeParts, IdleClick DEF Ends
  <2>4. Survivors(0)
    <3> SUFFICES ASSUME NEW d \in Clicks, WorkSteps \cap {click[d].at, click'[d].at} # {}
                 PROVE  click'[d] = click[d] /\ click[d].obj # 0
      BY DEF Survivors
    <3>1. click'[d] = IF d = c THEN Idle ELSE click[d]
      BY <1>1 DEF SetupInv, SetupTypeOK, Ends
    <3>2. click'[d] = click[d] BY <1>4, <3>1 DEF Idle, WorkSteps
    <3> QED BY <3>2 DEF SetupInv, ClicksOK, Fits, WorkSteps
  <2>5. Len(sessions) \in Nat BY DEF SetupInv, SetupTypeOK
  <2>6. 0 \in 0..Len(sessions) /\ (Len(sessions) + 1)..Len(sessions) = {} BY <2>5
  <2> QED BY <1>1, <2>1, <2>3, <2>4, <2>6 DEF EditStep
<1> QED BY <1>3, <1>4

-----------------------------------------------------------------------------
(* "Finalizar" is clicked; a menu is removed.                              *)

\* The others at work that stay clean are not near session o or message m.
NotNear(c, o, m) ==
  \A d \in Clicks : d # c =>
    /\ click'[d] = click[d] \/ click'[d] = [click[d] EXCEPT !.clean = FALSE]
    /\ click'[d].clean => click'[d] = click[d] /\ d \notin Near(click, o, m)

BeginStep(c, o) ==
  /\ UNCHANGED <<sessions, shown, rows, made, lastId>>
  /\ click[c].at = "idle" /\ o \in 1..Len(sessions)
  /\ click'[c].at = "compare" /\ click'[c].obj = o /\ click'[c].on = None
  /\ click'[c].base = None /\ click'[c].id = 0 /\ click'[c].i = 0
  /\ click'[c].clean => Near(click, o, sessions[o].message) = {}
  /\ NotNear(c, o, sessions[o].message)
  /\ doubled' = IF Finishing(o) = {} THEN doubled ELSE doubled \cup {o}

RemoveStep(c, m) ==
  /\ UNCHANGED <<sessions, shown, made, doubled, lastId>>
  /\ click[c].at \notin WorkSteps /\ click'[c].at \notin WorkSteps
  /\ rows' = [rows EXCEPT ![m] = None]
  /\ NotNear(c, 0, m)

LEMMA NotNearIs ==
  ASSUME SetupInv, NEW c \in Clicks, NEW o, NEW m, NEW f \in [Clicks -> Click],
         \A d \in Clicks : d # c =>
           /\ f[d] = Touch(click, o, m)[d] \/ f[d] = Touch([click EXCEPT ![c] = Idle], o, m)[d],
         click' = f
  PROVE  NotNear(c, o, m)
<1> DEFINE g == [click EXCEPT ![c] = Idle]
<1>1. click \in [Clicks -> Click] /\ g \in [Clicks -> Click]
  BY IdleClick DEF SetupInv, SetupTypeOK
<1>2. ASSUME NEW d \in Clicks, d # c
      PROVE  /\ f[d] = click[d] \/ f[d] = [click[d] EXCEPT !.clean = FALSE]
             /\ f[d].clean => f[d] = click[d] /\ d \notin Near(click, o, m)
  <2>1. g[d] = click[d] BY <1>1, <1>2
  <2>2. d \in Near(click, o, m) <=> d \in Near(g, o, m)
    BY <2>1 DEF Near
  <2> HIDE DEF g
  <2>3. CASE f[d] = Touch(click, o, m)[d] BY <1>1, <2>3, Touched
  <2>4. CASE f[d] = Touch(g, o, m)[d]
    <3>1. /\ Touch(g, o, m)[d] = g[d] \/ Touch(g, o, m)[d] = [g[d] EXCEPT !.clean = FALSE]
          /\ Touch(g, o, m)[d].clean => Touch(g, o, m)[d] = g[d] /\ d \notin Near(g, o, m)
      BY <1>1, Touched
    <3> QED BY <2>1, <2>2, <2>4, <3>1
  <2> QED BY <1>2, <2>3, <2>4 DEF g
<1> QED BY <1>2 DEF NotNear

LEMMA FinishStep ==
  ASSUME SetupInv, NEW c \in Clicks, NEW a \in Admins, Finish(c, a)
  PROVE  SetupInv' /\ BeginStep(c, open[a])
<1> DEFINE o == open[a]
           m == sessions[o].message
           near == Near(click, o, m) = {}
           t == Touch(click, o, m)
           k == [Idle EXCEPT !.at = "compare", !.admin = a, !.obj = o, !.clean = near]
           f == [t EXCEPT ![c] = k]
<1>1. /\ Operates /\ click[c].at = "idle" /\ open[a] # 0
      /\ doubled' = IF Finishing(open[a]) = {} THEN doubled ELSE doubled \cup {open[a]}
      /\ UNCHANGED <<sessions, open, modal, shown, rows, made, faults, lastId>>
  BY DEF Finish, At
<1>2. o \in 1..Len(sessions) /\ Len(sessions) \in Nat /\ Current(a) = sessions[o]
  BY <1>1, OpenedIs DEF SetupInv, SetupTypeOK
<1>3. click' = f BY <1>2 DEF Finish
<1>4. click \in [Clicks -> Click] /\ t \in [Clicks -> Click]
  <2>1. click \in [Clicks -> Click] BY DEF SetupInv, SetupTypeOK
  <2> QED BY <2>1, Touched
<1>5. /\ k \in Click /\ k.at = "compare" /\ k.obj = o /\ k.on = None /\ k.base = None
      /\ k.id = 0 /\ k.i = 0 /\ (k.clean <=> near)
  <2>1. ASSUME NEW j \in Click, NEW b \in BOOLEAN
        PROVE  LET l == [j EXCEPT !.at = "compare", !.admin = a, !.obj = o, !.clean = b]
               IN /\ l \in Click /\ l.at = "compare" /\ l.obj = o /\ l.on = j.on
                  /\ l.base = j.base /\ l.id = j.id /\ l.i = j.i /\ (l.clean <=> b)
    <3>1. o \in Nat BY <1>2
    <3> HIDE DEF o
    <3> QED BY <3>1 DEF Click, Steps
  <2>2. near \in BOOLEAN OBVIOUS
  <2>3. Idle.on = None /\ Idle.base = None /\ Idle.id = 0 /\ Idle.i = 0 BY DEF Idle
  <2> HIDE DEF near
  <2> QED BY <2>1, <2>2, <2>3, IdleClick
<1>6. o # 0 /\ o \in 0..Len(sessions) BY <1>2
<1> HIDE DEF k, t
<1>7. Fits(k, sessions') /\ Grows
  <2>1. Grows BY <1>1, Stays
  <2> QED BY <1>1, <1>5, <1>6, <2>1 DEF Fits
<1>8. f \in [Clicks -> Click] /\ f[c] = k /\ \A d \in Clicks : d # c => f[d] = t[d]
  BY <1>4, <1>5
<1>9. ClicksOK'
  <2>1. ASSUME NEW d \in Clicks PROVE Fits(f[d], sessions')
    <3>1. t[d] = click[d] \/ t[d] = [click[d] EXCEPT !.clean = FALSE]
      BY <1>4, Touched DEF t
    <3>2. click[d] \in Click /\ Fits(click[d], sessions) BY DEF SetupInv, ClicksOK
    <3> QED BY <1>7, <1>8, <3>1, <3>2, StillFits
  <2> QED BY <1>3, <1>8, <2>1 DEF ClicksOK
<1>10. Tables'
  <2>1. Tables BY DEF SetupInv, SetupTypeOK, Tables
  <2> QED BY <1>1, <1>2, <2>1 DEF Tables
<1>11. SetupInv'
  <2>1. open' \in [Admins -> 0..Len(sessions')] /\ modal' \subseteq Admins
    BY <1>1 DEF SetupInv, SetupTypeOK
  <2> QED BY <1>1, <1>7, <1>9, <1>10, <2>1, TypeParts
<1>12. NotNear(c, o, m)
  BY <1>3, <1>8, NotNearIs DEF t
<1>13. click'[c] = k BY <1>3, <1>8
<1> QED BY <1>1, <1>2, <1>5, <1>11, <1>12, <1>13 DEF BeginStep

LEMMA AskingStep ==
  ASSUME SetupInv, NEW c \in Clicks,
         (\E m \in Messages : AskRemoval(c, m)) \/ DropRemoval(c)
  PROVE  SetupInv' /\ EditStep
<1>0. click[c].at \in {"idle", "asked"} BY DEF AskRemoval, DropRemoval, At
<1>1. PICK k \in Click :
        /\ click' = [click EXCEPT ![c] = k] /\ Fits(k, sessions) /\ k.at \notin WorkSteps
  <2>1. CASE DropRemoval(c)
    BY <2>1, EndingOnward DEF DropRemoval, Ends, Idle, WorkSteps
  <2>2. ASSUME NEW m \in Messages, AskRemoval(c, m)
        PROVE  \E k \in Click : /\ click' = [click EXCEPT ![c] = k] /\ Fits(k, sessions)
                                /\ k.at \notin WorkSteps
    <3> DEFINE k == [Idle EXCEPT !.at = "asked", !.on = m]
    <3>1. ASSUME NEW j \in Click
          PROVE  LET l == [j EXCEPT !.at = "asked", !.on = m]
                 IN l \in Click /\ l.at = "asked" /\ l.on = m /\ l.obj = j.obj
      BY DEF Click, Steps
    <3>2. Idle.obj = 0 BY DEF Idle
    <3>3. k \in Click /\ k.at = "asked" /\ k.on = m /\ k.obj = 0 BY <3>1, <3>2, IdleClick
    <3>4. Len(sessions) \in Nat BY DEF SetupInv, SetupTypeOK
    <3>5. Fits(k, sessions) /\ k.at \notin WorkSteps BY <3>3, <3>4 DEF Fits, WorkSteps
    <3>6. click' = [click EXCEPT ![c] = k] BY <2>2 DEF AskRemoval
    <3> QED BY <3>3, <3>5, <3>6
  <2> QED BY <2>1, <2>2
<1>2. /\ Operates \/ UNCHANGED ops
      /\ UNCHANGED <<sessions, open, modal, shown, rows, made, doubled, faults, lastId>>
  BY DEF AskRemoval, DropRemoval
<1>3. Grows /\ Tables' BY <1>2, Stays, TablesStay
<1>4. open' \in [Admins -> 0..Len(sessions')] /\ modal' \subseteq Admins
  BY <1>2 DEF SetupInv, SetupTypeOK
<1>5. SetupInv' BY <1>1, <1>2, <1>3, <1>4, OneClick, TypeParts
<1>6. Survivors(0)
  <2> SUFFICES ASSUME NEW d \in Clicks, WorkSteps \cap {click[d].at, click'[d].at} # {}
               PROVE  click'[d] = click[d] /\ click[d].obj # 0
    BY DEF Survivors
  <2>1. click'[d] = IF d = c THEN k ELSE click[d] BY <1>1 DEF SetupInv, SetupTypeOK
  <2>2. click'[d] = click[d] BY <1>0, <1>1, <2>1 DEF WorkSteps
  <2> QED BY <2>2 DEF SetupInv, ClicksOK, Fits, WorkSteps
<1>7. Len(sessions) \in Nat BY DEF SetupInv, SetupTypeOK
<1>8. 0 \in 0..Len(sessions) /\ (Len(sessions) + 1)..Len(sessions) = {} BY <1>7
<1> QED BY <1>2, <1>3, <1>5, <1>6, <1>8 DEF EditStep

LEMMA RemovalStep ==
  ASSUME SetupInv, NEW c \in Clicks, ConfirmRemoval(c)
  PROVE  SetupInv' /\ RemoveStep(c, click[c].on)
<1> DEFINE m == click[c].on
           g == [click EXCEPT ![c] = Idle]
<1>1. /\ click[c].at = "asked" /\ rows' = [rows EXCEPT ![m] = None]
      /\ click' = Touch(g, 0, m)
      /\ UNCHANGED <<sessions, open, modal, shown, made, doubled, ops, faults, lastId>>
  BY DEF ConfirmRemoval, At
<1>2. click \in [Clicks -> Click] /\ g \in [Clicks -> Click] /\ g[c] = Idle
  BY IdleClick DEF SetupInv, SetupTypeOK
<1>3. Grows BY <1>1, Stays
<1>4. \A d \in Clicks : Fits(g[d], sessions)
  BY <1>2, EndingOnward DEF SetupInv, ClicksOK
<1>5. ClicksOK' BY <1>1, <1>2, <1>3, <1>4, TouchedClicks
<1>6. Tables'
  <2>1. Tables BY DEF SetupInv, SetupTypeOK, Tables
  <2>2. rows' \in [Messages -> Rows \cup {None}] BY <1>1, <2>1 DEF Tables
  <2> QED BY <1>1, <2>1, <2>2 DEF Tables
<1>7. SetupInv'
  <2>1. open' \in [Admins -> 0..Len(sessions')] /\ modal' \subseteq Admins
    BY <1>1 DEF SetupInv, SetupTypeOK
  <2> QED BY <1>1, <1>3, <1>5, <1>6, <2>1, TypeParts
<1> DEFINE t == Touch(g, 0, m)
<1>8. t \in [Clicks -> Click] /\ (t[c] = Idle \/ t[c] = [Idle EXCEPT !.clean = FALSE])
  <2>1. \A d \in Clicks : g[d] \in Click BY <1>2
  <2> HIDE DEF g
  <2>2. t \in [Clicks -> Click] /\ (t[c] = g[c] \/ t[c] = [g[c] EXCEPT !.clean = FALSE])
    BY <2>1, Touched
  <2> QED BY <1>2, <2>2
<1>9. click'[c].at \notin WorkSteps
  BY <1>1, <1>8, IdleClick DEF Idle, WorkSteps
<1> HIDE DEF t, m
<1>10. NotNear(c, 0, m)
  BY <1>1, <1>8, NotNearIs DEF t
<1>11. click[c].at \notin WorkSteps BY <1>1 DEF WorkSteps
<1> QED BY <1>1, <1>7, <1>9, <1>10, <1>11 DEF RemoveStep, m

-----------------------------------------------------------------------------
(* Every step.                                                             *)

\* The steps of a click that finishes.
Own(c) ==
  \/ Compare(c) \/ Validate(c)
  \/ \E m \in Menus : Send(c, m)
  \/ Edit(c) \/ ClearReactions(c) \/ AddReactions(c)
  \/ LookAgain(c) \/ CreateRow(c) \/ UpdateRow(c) \/ RemoveAllMappings(c)
  \/ AddMapping(c) \/ Saved(c) \/ FinishFails(c)

LEMMA SetupStep ==
  ASSUME SetupInv, SetupNext
  PROVE  /\ SetupInv'
         /\ \/ EditStep
            \/ \E c \in Clicks : WorkStep(c) /\ Own(c)
            \/ \E c \in Clicks, o \in 1..Len(sessions) : BeginStep(c, o)
            \/ \E c \in Clicks, m \in Messages : RemoveStep(c, m)
<1> DEFINE Step == /\ SetupInv'
                   /\ \/ EditStep
                      \/ \E c \in Clicks : WorkStep(c) /\ Own(c)
                      \/ \E c \in Clicks, o \in 1..Len(sessions) : BeginStep(c, o)
                      \/ \E c \in Clicks, m \in Messages : RemoveStep(c, m)
<1>1. ASSUME NEW a \in Admins,
             \/ OpenNew(a)
             \/ \E m \in Messages : OpenFor(a, m)
             \/ \E mode \in Modes : SubmitInitial(a, mode)
             \/ ToggleMode(a)
             \/ \E embed \in Embeds : CustomizeEmbed(a, embed)
             \/ \E i \in 1..RoleLimit : RemoveMapping(a, i)
             \/ Cancel(a)
             \/ \E c \in Clicks, choice \in Choices : SubmitMapping(c, a, choice)
      PROVE  Step
  BY <1>1, OpenNewStep, OpenForStep, SubmitInitialStep, ButtonStep, CancelStep, MappingStep
<1>2. ASSUME NEW a \in Admins, NEW c \in Clicks, Finish(c, a) PROVE Step
  <2>1. open[a] # 0 BY <1>2 DEF Finish
  <2>2. open[a] \in 1..Len(sessions) BY <2>1, OpenedIs
  <2> QED BY <1>2, <2>2, FinishStep
<1>3. ASSUME NEW c \in Clicks,
             \/ PushMapping(c)
             \/ (\E m \in Messages : AskRemoval(c, m)) \/ DropRemoval(c)
      PROVE  Step
  BY <1>3, PushStep, AskingStep
<1>4. ASSUME NEW c \in Clicks,
             \/ Compare(c) \/ Validate(c) \/ \E m \in Menus : Send(c, m)
             \/ Edit(c) \/ ClearReactions(c) \/ AddReactions(c)
             \/ LookAgain(c) \/ CreateRow(c) \/ UpdateRow(c) \/ RemoveAllMappings(c)
             \/ AddMapping(c) \/ Saved(c)
      PROVE  Step
  <2>1. Own(c) BY <1>4 DEF Own
  <2> QED BY <1>4, <2>1, CompareStep, ValidateStep, SendStep, EditingStep, ClearStep,
             AddReactionsStep, LookAgainStep, CreateRowStep, SavingStep, SavedStep
<1>5. ASSUME NEW c \in Clicks, FinishFails(c) PROVE Step
  BY <1>5, FinishFailsStep DEF Own
<1>6. ASSUME NEW c \in Clicks, ConfirmRemoval(c) PROVE Step
  <2>1. click[c].on \in Messages
    BY <1>6 DEF ConfirmRemoval, At, SetupInv, ClicksOK, Fits
  <2> QED BY <1>6, <2>1, RemovalStep
<1> HIDE DEF Step
<1>7. Step BY <1>1, <1>2, <1>3, <1>4, <1>5, <1>6 DEF SetupNext
<1> QED BY <1>7 DEF Step

LEMMA SetupInitially == SetupInit => SetupInv
<1> SUFFICES ASSUME SetupInit PROVE SetupInv OBVIOUS
<1> USE DEF SetupInit
<1>1. sessions \in Seq(Session) /\ Len(sessions) = 0 /\ MaxSessions \in Nat
      /\ MaxOps \in Nat /\ MaxFaults \in Nat
  BY SetupAssumption
<1>2. \A m \in Messages : shown[m] \in [posted : BOOLEAN, buttons : SUBSET Roles,
                                        emojis : SUBSET Emojis, embed : Embeds]
  <2>1. ButtonsOf(FirstMenu) \subseteq Roles /\ EmojisOf(FirstMenu) \subseteq Emojis
    BY SetupAssumption, ListsShow
  <2>2. "plain" \in Embeds BY DEF Embeds
  <2>3. ASSUME NEW b \in BOOLEAN
        PROVE  [Blank EXCEPT !.posted = b] \in
                 [posted : BOOLEAN, buttons : SUBSET Roles, emojis : SUBSET Emojis, embed : Embeds]
    BY <2>2 DEF Blank
  <2>4. ASSUME NEW m \in Messages
        PROVE  shown[m] \in [posted : BOOLEAN, buttons : SUBSET Roles,
                             emojis : SUBSET Emojis, embed : Embeds]
    <3>1. CASE m = Configured BY <2>1, <2>2, <3>1
    <3>2. CASE m # Configured
      <4>1. shown[m] = [Blank EXCEPT !.posted = (m \in Posts)] BY <3>2, <2>4
      <4>2. (m \in Posts) \in BOOLEAN OBVIOUS
      <4> QED BY <2>3, <4>1, <4>2
    <3> QED BY <3>1, <3>2
  <2> QED BY <2>4
<1>3. \A m \in Messages : rows[m] \in Rows \cup {None}
  BY SetupAssumption DEF Rows, Embeds
<1>4. click \in [Clicks -> Click] /\ \A c \in Clicks : Fits(click[c], sessions)
  BY <1>1, IdleClick DEF Fits, Idle
<1>5. Tables
  <2>1. shown \in [Messages -> [posted : BOOLEAN, buttons : SUBSET Roles,
                                emojis : SUBSET Emojis, embed : Embeds]]
    BY <1>2
  <2>2. rows \in [Messages -> Rows \cup {None}] BY <1>3
  <2> QED BY <1>1, <2>1, <2>2 DEF Tables
<1>6. open \in [Admins -> 0..Len(sessions)] /\ modal \subseteq Admins BY <1>1
<1> QED BY <1>1, <1>4, <1>5, <1>6 DEF SetupInv, SetupTypeOK, ClicksOK, Tables, Fits

-----------------------------------------------------------------------------
(* What is stored is posted.                                               *)

RowsPlaced ==
  /\ \A m \in Messages : rows[m] # None => shown[m].posted /\ rows[m].id <= lastId
  /\ \A m, n \in Messages : rows[m] # None /\ rows[n] # None /\ rows[m].id = rows[n].id => m = n

SessionPlaced(s) ==
  /\ s.message # None => shown[s.message].posted
  /\ ~s.canEdit => s.message \in Posts

ClickPlaced(k) ==
  k.at \in WorkSteps =>
    /\ k.on # None => shown[k.on].posted
    /\ RowOf(k) <= lastId
    /\ k.at = "send" \/ k.on # None => sessions[k.obj].canEdit

PlacedInv ==
  /\ RowsPlaced
  /\ \A o \in 1..Len(sessions) : SessionPlaced(sessions[o])
  /\ \A c \in Clicks : ClickPlaced(click[c])

LEMMA RowOfClick == ASSUME NEW k \in Click PROVE RowOf(k) \in Nat
<1>1. k.id \in Nat /\ (k.base = None \/ k.base \in Rows) BY ClickFields
<1> QED BY <1>1, RowFields DEF RowOf

LEMMA Numbers ==
  ASSUME SetupInv
  PROVE  /\ lastId \in Nat \ {0} /\ Len(sessions) \in Nat
         /\ \A m \in Messages : rows[m] # None => rows[m] \in Rows /\ rows[m].id \in Nat \ {0}
         /\ \A c \in Clicks : RowOf(click[c]) \in Nat
<1>1. \A m \in Messages : rows[m] # None => rows[m] \in Rows BY DEF SetupInv, SetupTypeOK
<1>2. \A c \in Clicks : RowOf(click[c]) \in Nat BY Holding, RowOfClick
<1> QED BY <1>1, <1>2, RowFields DEF SetupInv, SetupTypeOK

\* A click that only loses the ghost is where it was.
LEMMA SameButGhost ==
  ASSUME NEW k, NEW j, j = [k EXCEPT !.clean = FALSE], k \in Click
  PROVE  /\ j.at = k.at /\ j.obj = k.obj /\ j.on = k.on /\ j.base = k.base /\ j.id = k.id
         /\ RowOf(j) = RowOf(k) /\ ~j.clean
BY DEF Click, RowOf

LEMMA SurvivorIs ==
  ASSUME SetupInv, NEW o, Survivors(o), NEW c \in Clicks,
         click[c].at \in WorkSteps \/ click'[c].at \in WorkSteps
  PROVE  /\ click[c].at \in WorkSteps /\ click'[c].at = click[c].at /\ click'[c].obj = click[c].obj
         /\ click'[c].on = click[c].on /\ RowOf(click'[c]) = RowOf(click[c])
         /\ click'[c].clean => click'[c] = click[c] /\ click[c].obj # o
<1>1. /\ click'[c] = click[c] \/ click'[c] = [click[c] EXCEPT !.clean = FALSE]
      /\ click'[c].clean => click'[c] = click[c] /\ click[c].obj # o
  BY DEF Survivors
<1> QED BY <1>1, SameButGhost, Holding

LEMMA NotNearSame ==
  ASSUME SetupInv, NEW c \in Clicks, NEW o, NEW m, NotNear(c, o, m), NEW d \in Clicks, d # c
  PROVE  /\ click'[d].at = click[d].at /\ click'[d].obj = click[d].obj
         /\ click'[d].on = click[d].on /\ RowOf(click'[d]) = RowOf(click[d])
         /\ click'[d].clean => click'[d] = click[d] /\ d \notin Near(click, o, m)
<1>1. /\ click'[d] = click[d] \/ click'[d] = [click[d] EXCEPT !.clean = FALSE]
      /\ click'[d].clean => click'[d] = click[d] /\ d \notin Near(click, o, m)
  BY DEF NotNear
<1> QED BY <1>1, SameButGhost, Holding

\* A click of WorkStep that is not over.
LEMMA WorkGoesOn ==
  ASSUME SetupInv, NEW c \in Clicks, WorkStep(c), click'[c].at \in WorkSteps
  PROVE  /\ click'[c].obj = click[c].obj /\ (click'[c].clean => click[c].clean)
         /\ click'[c].at = "send" => Target(c) = None
         /\ \/ RowOf(click'[c]) = RowOf(click[c])
            \/ lastId' = lastId + 1 /\ RowOf(click'[c]) = lastId'
            \/ LET m == SessionOf(c).message
               IN m # None /\ rows[m] # None /\ RowOf(click'[c]) = rows[m].id
BY DEF WorkStep, WorkClick, Idle, WorkSteps

LEMMA PlacedWork ==
  ASSUME SetupInv, PlacedInv, SetupInv', NEW c \in Clicks, WorkStep(c)
  PROVE  PlacedInv'
<1> DEFINE o == click[c].obj
           m == SessionOf(c).message
<1>1. /\ click[c] \in Click /\ o \in 1..Len(sessions) /\ (m # None => m \in Messages)
      /\ (Target(c) # None => Target(c) \in Messages)
      /\ (click[c].on = None => Target(c) = m) /\ (click[c].on # None => Target(c) = click[c].on)
  BY WorkHas DEF WorkStep, Target
<1>2. /\ m # None => shown[m].posted /\ (rows[m] # None => rows[m].id <= lastId)
      /\ ~SessionOf(c).canEdit => m \in Posts
      /\ click[c].on # None => shown[click[c].on].posted /\ SessionOf(c).canEdit
      /\ RowOf(click[c]) <= lastId
      /\ click[c].at = "send" => SessionOf(c).canEdit
  BY <1>1 DEF PlacedInv, RowsPlaced, SessionPlaced, ClickPlaced, SessionOf, WorkStep, Works
<1>3. lastId \in Nat /\ lastId' \in Nat /\ lastId' \in {lastId, lastId + 1}
  BY Numbers DEF WorkStep, WorkRows
<1>4. \A n \in Messages : shown[n].posted => shown'[n].posted
  BY DEF WorkStep, WorkMessages
<1>5. RowsPlaced'
  <2>1. ASSUME NEW n \in Messages, rows'[n] # None
        PROVE  /\ shown'[n].posted /\ rows'[n].id <= lastId'
               /\ \/ rows[n] # None /\ rows'[n].id = rows[n].id /\ rows'[n].id <= lastId
                  \/ lastId' = lastId + 1 /\ rows'[n].id = lastId' /\ n = m
    <3>1. \/ rows[n] # None /\ rows'[n].id = rows[n].id
          \/ lastId' = lastId + 1 /\ rows'[n].id = lastId' /\ n = m /\ m # None
      BY <2>1 DEF WorkStep, WorkRows
    <3>2. rows[n] # None => shown[n].posted /\ rows[n].id <= lastId /\ rows[n].id \in Nat
      BY Numbers DEF PlacedInv, RowsPlaced
    <3> HIDE DEF m
    <3> QED BY <1>2, <1>3, <1>4, <3>1, <3>2
  <2>2. ASSUME NEW n \in Messages, NEW p \in Messages, rows'[n] # None, rows'[p] # None,
               rows'[n].id = rows'[p].id
        PROVE  n = p
    <3>1. rows[n] # None /\ rows[p] # None /\ rows[n].id = rows[p].id => n = p
      BY DEF PlacedInv, RowsPlaced
    <3> HIDE DEF m
    <3>2. rows'[n].id <= lastId => rows'[n].id # lastId + 1
      BY <1>3, <2>2, Numbers
    <3>3. rows'[p].id <= lastId => rows'[p].id # lastId + 1
      BY <1>3, <2>2, Numbers
    <3> QED BY <2>1, <2>2, <3>1, <3>2, <3>3
  <2> QED BY <2>1, <2>2 DEF RowsPlaced
<1>6. ASSUME NEW p \in 1..Len(sessions') PROVE SessionPlaced(sessions[p])'
  <2>1. p \in 1..Len(sessions) /\ sessions'[p].canEdit = sessions[p].canEdit
        /\ SessionPlaced(sessions[p]) /\ (p # o => sessions'[p] = sessions[p])
    BY <1>6 DEF WorkStep, WorkSessions, PlacedInv
  <2>2. sessions[p].message # None => sessions[p].message \in Messages
    BY <2>1, SessionFields DEF SetupInv, SetupTypeOK
  <2>3. CASE p # o
    BY <1>4, <2>1, <2>2, <2>3 DEF SessionPlaced
  <2>4. CASE p = o
    <3>1. sessions'[p].message = Target(c) BY <2>4 DEF WorkStep, WorkSessions
    <3>2. Target(c) # None => shown'[Target(c)].posted BY <1>1, <1>2, <1>4
    <3>3. ~sessions'[p].canEdit => Target(c) \in Posts
      BY <1>1, <1>2, <2>1, <2>4 DEF SessionOf
    <3> QED BY <3>1, <3>2, <3>3 DEF SessionPlaced
  <2> QED BY <2>3, <2>4
<1>7. ASSUME NEW d \in Clicks, click'[d].at \in WorkSteps PROVE ClickPlaced(click[d])'
  <2>1. CASE d # c
    <3>1. click'[d] = click[d] BY <2>1 DEF WorkStep, WorkClick
    <3>2. /\ ClickPlaced(click[d]) /\ click[d] \in Click /\ click[d].obj \in 1..Len(sessions)
          /\ RowOf(click[d]) \in Nat
      BY <1>7, <3>1, WorkHas, Numbers DEF PlacedInv, Works
    <3>3. sessions'[click[d].obj].canEdit = sessions[click[d].obj].canEdit
      BY <3>2 DEF WorkStep, WorkSessions
    <3>4. click[d].on # None => click[d].on \in Messages BY <3>2, ClickFields
    <3> QED BY <1>3, <1>4, <1>7, <3>1, <3>2, <3>3, <3>4 DEF ClickPlaced
  <2>2. CASE d = c
    <3>1. sessions'[o].canEdit = SessionOf(c).canEdit
      BY <1>1 DEF WorkStep, WorkSessions, SessionOf
    <3>2. click'[c].obj = o /\ (click'[c].at = "send" => Target(c) = None)
      BY <1>7, <2>2, WorkGoesOn
    <3>3. RowOf(click'[c]) <= lastId'
      <4> HIDE DEF m
      <4>1. RowOf(click[c]) \in Nat /\ RowOf(click'[c]) \in Nat
        <5>1. click'[c] \in Click BY DEF SetupInv, SetupTypeOK
        <5> QED BY <1>1, <5>1, RowOfClick
      <4>2. m # None /\ rows[m] # None => rows[m].id \in Nat BY <1>1, Numbers
      <4> QED BY <1>2, <1>3, <1>7, <2>2, <4>1, <4>2, WorkGoesOn DEF m
    <3>4. click'[c].on # None => shown'[click'[c].on].posted /\ SessionOf(c).canEdit
      BY <1>2 DEF WorkStep, WorkMade
    <3>5. Target(c) = None => SessionOf(c).canEdit
      BY <1>1, <1>2, NoMessage DEF Messages
    <3> QED BY <2>2, <3>1, <3>2, <3>3, <3>4, <3>5 DEF ClickPlaced
  <2> QED BY <2>1, <2>2
<1>8. \A d \in Clicks : ClickPlaced(click[d])' BY <1>7 DEF ClickPlaced
<1> QED BY <1>5, <1>6, <1>8 DEF PlacedInv

LEMMA PlacedOthers ==
  ASSUME SetupInv, PlacedInv, SetupInv',
         \/ EditStep
         \/ \E c \in Clicks, o \in 1..Len(sessions) : BeginStep(c, o)
         \/ \E c \in Clicks, m \in Messages : RemoveStep(c, m)
  PROVE  PlacedInv'
<1>1. /\ UNCHANGED <<shown, lastId>> /\ lastId \in Nat \ {0}
      /\ UNCHANGED rows \/ \E m \in Messages : rows' = [rows EXCEPT ![m] = None]
  BY Numbers DEF EditStep, BeginStep, RemoveStep
<1>2. \A m \in Messages : rows'[m] # None => rows[m] # None /\ rows'[m] = rows[m]
  BY <1>1 DEF SetupInv, SetupTypeOK
<1>3. RowsPlaced' BY <1>1, <1>2 DEF PlacedInv, RowsPlaced
<1>4. ASSUME NEW p \in 1..Len(sessions')
      PROVE  SessionPlaced(sessions[p])' /\ (p \in 1..Len(sessions) /\ ~sessions'[p].canEdit
                                               => ~sessions[p].canEdit)
  <2>1. Len(sessions) \in Nat BY Numbers
  <2>2. CASE UNCHANGED sessions
    BY <1>1, <2>2 DEF PlacedInv, SessionPlaced
  <2>3. CASE EditStep
    <3>1. CASE p \in 1..Len(sessions)
      <4>1. SessionPlaced(sessions[p]) BY <3>1 DEF PlacedInv
      <4> QED BY <1>1, <2>3, <3>1, <4>1 DEF EditStep, SessionPlaced
    <3>2. CASE p \notin 1..Len(sessions)
      <4>1. p \in (Len(sessions) + 1)..Len(sessions') BY <2>1, <2>3, <3>2 DEF EditStep, Grows
      <4> QED BY <1>1, <2>3, <3>2, <4>1 DEF EditStep, SessionPlaced
    <3> QED BY <3>1, <3>2
  <2> QED BY <2>2, <2>3 DEF BeginStep, RemoveStep
<1>5. ASSUME NEW d \in Clicks, click'[d].at \in WorkSteps PROVE ClickPlaced(click[d])'
  <2>1. ASSUME click[d].at \in WorkSteps, click'[d].at = click[d].at,
               click'[d].obj = click[d].obj, click'[d].on = click[d].on,
               RowOf(click'[d]) = RowOf(click[d])
        PROVE  ClickPlaced(click[d])'
    <3>1. ClickPlaced(click[d]) /\ click[d].obj \in 1..Len(sessions) /\ click[d].obj \in 1..Len(sessions')
          /\ click[d] \in Click
      <4>1. click[d].obj \in 1..Len(sessions) /\ click[d] \in Click BY <2>1, WorkHas DEF Works
      <4>2. click'[d].obj \in 0..Len(sessions') BY DEF SetupInv, SetupTypeOK
      <4> QED BY <2>1, <4>1, <4>2 DEF PlacedInv
    <3>2. sessions[click[d].obj].canEdit \in BOOLEAN /\ sessions'[click[d].obj].canEdit \in BOOLEAN
      <4>1. sessions[click[d].obj] \in Session /\ sessions'[click[d].obj] \in Session
        BY <3>1 DEF SetupInv, SetupTypeOK
      <4> QED BY <4>1, SessionFields
    <3>3. sessions[click[d].obj].canEdit => sessions'[click[d].obj].canEdit
      BY <1>4, <3>1, <3>2
    <3> QED BY <1>1, <2>1, <3>1, <3>3 DEF ClickPlaced
  <2>2. CASE EditStep
    <3>1. PICK o : Survivors(o) BY <2>2 DEF EditStep
    <3> QED BY <1>5, <2>1, <3>1, SurvivorIs
  <2>3. ASSUME NEW c \in Clicks, NEW o \in 1..Len(sessions), BeginStep(c, o)
        PROVE  ClickPlaced(click[d])'
    <3>1. CASE d = c
      BY <1>1, <2>3, <3>1 DEF BeginStep, ClickPlaced, RowOf
    <3>2. CASE d # c
      BY <1>5, <2>1, <2>3, <3>2, NotNearSame DEF BeginStep
    <3> QED BY <3>1, <3>2
  <2>4. ASSUME NEW c \in Clicks, NEW m \in Messages, RemoveStep(c, m)
        PROVE  ClickPlaced(click[d])'
    <3>1. d # c BY <1>5, <2>4 DEF RemoveStep
    <3> QED BY <1>5, <2>1, <2>4, <3>1, NotNearSame DEF RemoveStep
  <2> QED BY <2>2, <2>3, <2>4
<1>6. \A d \in Clicks : ClickPlaced(click[d])' BY <1>5 DEF ClickPlaced
<1> QED BY <1>3, <1>4, <1>6 DEF PlacedInv

LEMMA PlacedInitially == SetupInit => PlacedInv
<1> SUFFICES ASSUME SetupInit PROVE PlacedInv OBVIOUS
<1>1. /\ sessions = <<>> /\ lastId = 1 /\ Configured \in Messages
      /\ \A m \in Messages : rows[m] # None => m = Configured
      /\ rows[Configured].id = 1 /\ shown[Configured].posted
  BY NoMessage DEF SetupInit
<1>2. \A c \in Clicks : click[c].at \notin WorkSteps BY DEF SetupInit, Idle, WorkSteps
<1>3. RowsPlaced BY <1>1 DEF RowsPlaced
<1> QED BY <1>1, <1>2, <1>3 DEF PlacedInv, ClickPlaced

-----------------------------------------------------------------------------
(* A session sends one message.                                            *)

\* What the messages say of a session that two clicks never finished at once.
MenuOf(o) ==
  /\ \A c, d \in Clicks :
       Works(c) /\ Works(d) /\ click[c].obj = o /\ click[d].obj = o => c = d
  /\ \A m \in Menus : made[m] = o =>
       \/ sessions[o].message = m
       \/ \E c \in Clicks : Works(c) /\ click[c].obj = o /\ click[c].on = m
  /\ \A c \in Clicks :
       Works(c) /\ click[c].obj = o /\ (click[c].at = "send" \/ click[c].on # None) =>
         sessions[o].message = None

MenuInv == \A o \in 1..Len(sessions) : o \in doubled \/ MenuOf(o)

LEMMA MenuWork ==
  ASSUME SetupInv, MenuInv, SetupInv', NEW c \in Clicks, WorkStep(c)
  PROVE  MenuInv'
<1>1. /\ click[c].obj \in 1..Len(sessions) /\ Works(c) /\ doubled' = doubled
      /\ Len(sessions') = Len(sessions) /\ (click[c].on # None => click[c].at # "send")
      /\ (Target(c) = IF click[c].on # None THEN click[c].on ELSE SessionOf(c).message)
      /\ \A d \in Clicks : d # c => click'[d] = click[d]
  BY WorkHas DEF WorkStep, WorkSessions, WorkClick, Fits, Target
<1>2. Works(c)' => click'[c].obj = click[c].obj /\ (click'[c].at = "send" => Target(c) = None)
  BY WorkGoesOn DEF Works
<1> SUFFICES ASSUME NEW o \in 1..Len(sessions), MenuOf(o)
             PROVE  MenuOf(o)'
  BY <1>1 DEF MenuInv
<1>3. CASE o # click[c].obj
  <2>1. sessions'[o] = sessions[o] BY <1>3 DEF WorkStep, WorkSessions
  <2>2. \A d \in Clicks : Works(d)' /\ click'[d].obj = o => d # c BY <1>2, <1>3
  <2>3. \A d \in Clicks : Works(d) /\ click[d].obj = o => d # c BY <1>3
  <2>4. \A m \in Menus : made'[m] = o => made[m] = o
    BY <1>3 DEF WorkStep, WorkMade, SetupInv, SetupTypeOK
  <2> QED BY <1>1, <2>1, <2>2, <2>3, <2>4 DEF MenuOf, Works
<1>4. CASE o = click[c].obj
  <2>1. \A d \in Clicks : Works(d) /\ click[d].obj = o => d = c BY <1>1, <1>4 DEF MenuOf
  <2>2. \A d \in Clicks : Works(d)' /\ click'[d].obj = o => d = c BY <1>1, <2>1 DEF Works
  <2>3. click[c].at = "send" \/ click[c].on # None => SessionOf(c).message = None
    BY <1>1, <1>4 DEF MenuOf, SessionOf
  <2>4. sessions'[o].message = Target(c) BY <1>4 DEF WorkStep, WorkSessions
  <2>5. \A m \in Menus : made[m] = o => click[c].at # "send" /\ Target(c) = m
    <3> SUFFICES ASSUME NEW m \in Menus, made[m] = o
                 PROVE  click[c].at # "send" /\ Target(c) = m
      OBVIOUS
    <3>1. m # None BY NoMessage DEF Messages
    <3>2. SessionOf(c).message = m \/ click[c].on = m BY <1>4, <2>1 DEF MenuOf, SessionOf
    <3> QED BY <1>1, <2>3, <3>1, <3>2
  <2>6. CASE UNCHANGED made /\ click'[c].on = None
    <3>1. \A m \in Menus : made'[m] = o => sessions'[o].message = m BY <2>4, <2>5, <2>6
    <3>2. \A d \in Clicks : Works(d)' /\ click'[d].obj = o
                              /\ (click'[d].at = "send" \/ click'[d].on # None) =>
            sessions'[o].message = None
      BY <1>2, <2>2, <2>4, <2>6
    <3> QED BY <2>2, <3>1, <3>2 DEF MenuOf
  <2>7. ASSUME NEW m \in Menus, click[c].at = "send", click'[c].at = "react", click'[c].on = m,
               made' = [made EXCEPT ![m] = click[c].obj], UNCHANGED sessions
        PROVE  MenuOf(o)'
    <3>1. Works(c)' BY <2>7 DEF Works, WorkSteps, Steps
    <3>2. \A n \in Menus : made'[n] = o => n = m BY <2>5, <2>7 DEF SetupInv, SetupTypeOK
    <3>3. \A n \in Menus : made'[n] = o => Works(c)' /\ click'[c].obj = o /\ click'[c].on = n
      BY <1>2, <1>4, <2>7, <3>1, <3>2
    <3>4. sessions'[o].message = None BY <1>4, <2>3, <2>7 DEF SessionOf
    <3> QED BY <2>2, <3>3, <3>4 DEF MenuOf
  <2> QED BY <2>6, <2>7 DEF WorkStep, WorkMade
<1> QED BY <1>3, <1>4

\* The clicks at work after the step were at work before it, on the same.
LEMMA MenuKept ==
  ASSUME NEW o \in 1..Len(sessions), MenuOf(o), sessions'[o].message = sessions[o].message,
         UNCHANGED made,
         \A d \in Clicks : (Works(d) /\ click[d].obj = o) \/ (Works(d)' /\ click'[d].obj = o) =>
           /\ Works(d) /\ Works(d)' /\ click'[d].at = click[d].at /\ click'[d].on = click[d].on
           /\ click[d].obj = o /\ click'[d].obj = o
  PROVE  MenuOf(o)'
<1>1. ASSUME NEW c \in Clicks, NEW d \in Clicks, Works(c)', Works(d)', click'[c].obj = o,
             click'[d].obj = o
      PROVE  c = d
  <2>1. Works(c) /\ Works(d) /\ click[c].obj = o /\ click[d].obj = o BY <1>1
  <2> QED BY <2>1 DEF MenuOf
<1>2. ASSUME NEW m \in Menus, made'[m] = o
      PROVE  \/ sessions'[o].message = m
             \/ \E c \in Clicks : Works(c)' /\ click'[c].obj = o /\ click'[c].on = m
  <2>1. \/ sessions[o].message = m
        \/ \E c \in Clicks : Works(c) /\ click[c].obj = o /\ click[c].on = m
    BY <1>2 DEF MenuOf
  <2>2. ASSUME NEW c \in Clicks, Works(c), click[c].obj = o, click[c].on = m
        PROVE  Works(c)' /\ click'[c].obj = o /\ click'[c].on = m
    BY <2>2
  <2> QED BY <2>1, <2>2
<1>3. ASSUME NEW c \in Clicks, Works(c)', click'[c].obj = o,
             click'[c].at = "send" \/ click'[c].on # None
      PROVE  sessions'[o].message = None
  <2>1. Works(c) /\ click[c].obj = o /\ click'[c].at = click[c].at /\ click'[c].on = click[c].on
    BY <1>3
  <2> QED BY <1>3, <2>1 DEF MenuOf
<1> QED BY <1>1, <1>2, <1>3 DEF MenuOf

LEMMA MenuOthers ==
  ASSUME SetupInv, MenuInv, SetupInv',
         \/ EditStep
         \/ \E c \in Clicks, o \in 1..Len(sessions) : BeginStep(c, o)
         \/ \E c \in Clicks, m \in Messages : RemoveStep(c, m)
  PROVE  MenuInv'
<1>1. Len(sessions) \in Nat /\ UNCHANGED made BY Numbers DEF EditStep, BeginStep, RemoveStep
<1>2. CASE EditStep
  <2>1. PICK p : Survivors(p) BY <1>2 DEF EditStep
  <2>2. \A d \in Clicks : Works(d) \/ Works(d)' =>
          /\ Works(d) /\ click'[d].at = click[d].at /\ click'[d].on = click[d].on
          /\ click'[d].obj = click[d].obj
    BY <2>1, SurvivorIs DEF Works
  <2>3. \A d \in Clicks : Works(d) => click[d].obj \in 1..Len(sessions) BY WorkHas
  <2>4. ASSUME NEW o \in 1..Len(sessions') PROVE o \in doubled' \/ MenuOf(o)'
    <3>1. CASE o \in 1..Len(sessions)
      <4>1. o \in doubled \/ MenuOf(o) BY <3>1 DEF MenuInv
      <4>2. sessions'[o].message = sessions[o].message /\ doubled' = doubled
        BY <1>2, <3>1 DEF EditStep
      <4> QED BY <1>1, <2>2, <3>1, <4>1, <4>2, MenuKept DEF Works
    <3>2. CASE o \notin 1..Len(sessions)
      <4>1. \A m \in Menus : made'[m] # o
        <5>1. \A m \in Menus : made[m] \in 0..Len(sessions) BY DEF SetupInv, SetupTypeOK
        <5>2. o # 0 BY <1>2, <1>1 DEF EditStep, Grows
        <5> QED BY <1>1, <3>2, <5>1, <5>2
      <4>2. \A d \in Clicks : Works(d)' => click'[d].obj # o BY <2>2, <2>3, <3>2
      <4> QED BY <4>1, <4>2 DEF MenuOf
    <3> QED BY <3>1, <3>2
  <2> QED BY <2>4 DEF MenuInv
<1>3. ASSUME NEW c \in Clicks, NEW m \in Messages, RemoveStep(c, m)
      PROVE  MenuInv'
  <2>1. \A d \in Clicks : Works(d) \/ Works(d)' =>
          /\ Works(d) /\ click'[d].at = click[d].at /\ click'[d].on = click[d].on
          /\ click'[d].obj = click[d].obj
    BY <1>3, NotNearSame DEF Works, RemoveStep
  <2>2. UNCHANGED <<sessions, doubled>> BY <1>3 DEF RemoveStep
  <2> QED BY <1>1, <2>1, <2>2, MenuKept DEF Works, MenuInv
<1>4. ASSUME NEW c \in Clicks, NEW p \in 1..Len(sessions), BeginStep(c, p)
      PROVE  MenuInv'
  <2>1. /\ UNCHANGED sessions /\ ~Works(c) /\ click'[c].at = "compare" /\ click'[c].obj = p
        /\ click'[c].on = None
        /\ doubled' = IF Finishing(p) = {} THEN doubled ELSE doubled \cup {p}
    BY <1>4 DEF BeginStep, Works, WorkSteps
  <2>2. \A d \in Clicks : d # c /\ (Works(d) \/ Works(d)') =>
          /\ Works(d) /\ click'[d].at = click[d].at /\ click'[d].on = click[d].on
          /\ click'[d].obj = click[d].obj
    BY <1>4, NotNearSame DEF Works, BeginStep
  <2>3. ASSUME NEW o \in 1..Len(sessions), o \notin doubled' PROVE MenuOf(o)'
    <3>1. MenuOf(o) BY <2>1, <2>3 DEF MenuInv
    <3>2. CASE o # p
      <4>1. \A d \in Clicks : (Works(d) /\ click[d].obj = o) \/ (Works(d)' /\ click'[d].obj = o) => d # c
        BY <2>1, <3>2
      <4> QED BY <1>1, <2>1, <2>2, <3>1, <4>1, MenuKept DEF Works
    <3>3. CASE o = p
      <4>1. \A d \in Clicks : Works(d) => click[d].obj # p
        BY <2>1, <2>3, <3>3 DEF Finishing, Works, WorkSteps
      <4>2. \A d \in Clicks : Works(d)' /\ click'[d].obj = p => d = c BY <2>2, <4>1
      <4>3. \A m \in Menus : made'[m] = p => sessions'[p].message = m
        BY <1>1, <2>1, <3>1, <3>3, <4>1 DEF MenuOf
      <4> QED BY <2>1, <3>3, <4>2, <4>3 DEF MenuOf
    <3> QED BY <3>2, <3>3
  <2> QED BY <2>1, <2>3 DEF MenuInv
<1> QED BY <1>2, <1>3, <1>4

LEMMA MenuInitially == SetupInit => MenuInv
BY DEF SetupInit, MenuInv

LEMMA MenuSafe == SetupInv /\ MenuInv => OneMenuPerSession
<1> SUFFICES ASSUME SetupInv, MenuInv, NEW m \in Menus, NEW n \in Menus,
                    made[m] # 0, made[m] = made[n], m # n, made[m] \notin doubled
             PROVE  FALSE
  BY DEF OneMenuPerSession
<1> DEFINE o == made[m]
<1>1. o \in 1..Len(sessions)
  <2>1. Len(sessions) \in Nat /\ made[m] \in 0..Len(sessions)
    BY DEF SetupInv, SetupTypeOK
  <2> QED BY <2>1
<1>2. MenuOf(o) BY <1>1 DEF MenuInv
<1>3. made[m] = o /\ made[n] = o /\ m # None /\ n # None BY NoMessage DEF Messages
<1> HIDE DEF o
<1> QED BY <1>2, <1>3 DEF MenuOf

-----------------------------------------------------------------------------
(* Alone: a click that stays clean shares nothing with the others at work. *)

Alone(c) ==
  \A d \in Clicks : d # c /\ Works(d) =>
    /\ click[d].obj # click[c].obj
    /\ Target(c) # None =>
         /\ Target(c) # click[d].on /\ Target(c) # SessionOf(d).message
         /\ rows[Target(c)] # None => rows[Target(c)].id # RowOf(click[d])

AloneInv == \A c \in Clicks : Works(c) /\ click[c].clean => Alone(c)

LEMMA AloneApart ==
  ASSUME SetupInv, PlacedInv, NEW c \in Clicks, NEW d \in Clicks, d # c, Works(c), Works(d),
         Alone(c), Target(c) # None
  PROVE  Apart(d, Target(c)) /\ Target(c) \in Messages /\ shown[Target(c)].posted
<1>1. Target(c) \in Messages /\ click[c].obj \in 1..Len(sessions) BY WorkHas
<1>2. shown[Target(c)].posted
  BY <1>1 DEF PlacedInv, ClickPlaced, SessionPlaced, Works, Target, SessionOf
<1>3. Target(c) # Target(d) BY DEF Alone, Target
<1> QED BY <1>1, <1>2, <1>3 DEF Alone, Apart

\* What a click at work leaves to another that is clean.
LEMMA LeftAlone ==
  ASSUME SetupInv, PlacedInv, SetupInv', NEW c \in Clicks, NEW d \in Clicks, d # c,
         Works(c), Alone(c), WorkStep(d)
  PROVE  /\ click'[c] = click[c] /\ sessions'[click[c].obj] = SessionOf(c)
         /\ Target(c)' = Target(c)
         /\ Target(c) # None =>
              /\ shown'[Target(c)] = shown[Target(c)] /\ rows'[Target(c)] = rows[Target(c)]
<1>1. Works(d) /\ click'[c] = click[c] BY DEF WorkStep, WorkClick
<1>2. click[c].obj \in 1..Len(sessions) /\ click[c].obj # click[d].obj
  BY <1>1, WorkHas DEF Alone
<1>3. sessions'[click[c].obj] = sessions[click[c].obj] BY <1>2 DEF WorkStep, WorkSessions
<1>4. Target(c)' = Target(c) BY <1>1, <1>3 DEF Target, SessionOf
<1>5. Target(c) # None =>
        shown'[Target(c)] = shown[Target(c)] /\ rows'[Target(c)] = rows[Target(c)]
  BY <1>1, AloneApart DEF WorkStep, WorkMessages
<1> QED BY <1>1, <1>3, <1>4, <1>5 DEF SessionOf

\* Another click works.
LEMMA AloneWork ==
  ASSUME SetupInv, PlacedInv, SetupInv', PlacedInv', AloneInv, NEW d \in Clicks, WorkStep(d)
  PROVE  AloneInv'
<1> SUFFICES ASSUME NEW c \in Clicks, Works(c)', click'[c].clean,
                    NEW e \in Clicks, e # c, Works(e)'
             PROVE  /\ click'[e].obj # click'[c].obj
                    /\ Target(c)' # None =>
                         /\ Target(c)' # click'[e].on
                         /\ Target(c)' # sessions'[click'[e].obj].message
                         /\ rows'[Target(c)'] # None => rows'[Target(c)'].id # RowOf(click'[e])
  BY DEF AloneInv, Alone, SessionOf, Target, RowOf
<1> DEFINE t == Target(c)
<1>0. /\ Works(d) /\ \A b \in Clicks : b # d => click'[b] = click[b]
      /\ Works(d)' => click'[d].obj = click[d].obj /\ (click'[d].clean => click[d].clean)
  BY WorkGoesOn DEF WorkStep, WorkClick, Works
<1>1. Works(c) /\ click[c].clean /\ Works(e) /\ click'[c].obj = click[c].obj
      /\ click'[e].obj = click[e].obj
  BY <1>0 DEF Works
<1>2. Alone(c) /\ click[e].obj # click[c].obj BY <1>1 DEF AloneInv, Alone
<1>3. /\ click[e].obj \in 1..Len(sessions) /\ click[c].obj \in 1..Len(sessions)
      /\ click[d].obj \in 1..Len(sessions) /\ click[e].on \in Messages \cup {None}
      /\ SessionOf(e).message \in Messages \cup {None}
      /\ SessionOf(d).message \in Messages \cup {None} /\ t \in Messages \cup {None}
  BY <1>0, <1>1, WorkHas, ClickFields
<1>4. /\ lastId \in Nat /\ RowOf(click[e]) \in Nat /\ RowOf(click[e]) <= lastId
      /\ \A m \in Messages : rows[m] # None => rows[m].id \in Nat /\ rows[m].id <= lastId
  BY <1>1, Numbers DEF PlacedInv, RowsPlaced, ClickPlaced, Works
<1>5. CASE d # c
  <2>1. /\ click'[c] = click[c] /\ Target(c)' = t
        /\ t # None => rows'[t] = rows[t] /\ t # click[e].on /\ t # SessionOf(e).message
                       /\ shown[t].posted /\ t \in Messages
                       /\ (rows[t] # None => rows[t].id # RowOf(click[e]))
    BY <1>1, <1>2, <1>5, LeftAlone, AloneApart, <1>0 DEF Alone
  <2>2. CASE e # d
    <3>1. click'[e] = click[e] BY <1>0, <2>2
    <3>2. t # None => t # sessions'[click[e].obj].message
      <4>1. CASE click[e].obj # click[d].obj
        BY <1>3, <2>1, <4>1 DEF WorkStep, WorkSessions, SessionOf
      <4>2. CASE click[e].obj = click[d].obj
        <5>1. sessions'[click[e].obj].message = Target(d) BY <4>2 DEF WorkStep, WorkSessions
        <5>2. t # None => t # Target(d) BY <1>0, <1>2, <1>5 DEF Alone, Target
        <5> QED BY <5>1, <5>2
      <4> QED BY <4>1, <4>2
    <3> QED BY <1>2, <2>1, <3>1, <3>2
  <2>3. CASE e = d
    <3>1. sessions'[click[e].obj].message = Target(e) BY <2>3 DEF WorkStep, WorkSessions
    <3>2. t # None => t # Target(e) BY <2>1 DEF Target
    <3>3. t # None => t # click'[e].on
      <4>1. click'[e].on = None \/ ~shown[click'[e].on].posted BY <2>3 DEF WorkStep, WorkMade
      <4> QED BY <2>1, <4>1
    <3>4. t # None /\ rows[t] # None => rows[t].id # RowOf(click'[e])
      <4> SUFFICES ASSUME t # None, rows[t] # None PROVE rows[t].id # RowOf(click'[e])
        OBVIOUS
      <4>1. rows[t].id <= lastId /\ rows[t].id \in Nat /\ rows[t].id # RowOf(click[e])
        BY <1>4, <2>1
      <4>2. ASSUME SessionOf(e).message # None, rows[SessionOf(e).message] # None,
                   rows[SessionOf(e).message].id = rows[t].id
            PROVE  FALSE
        BY <1>3, <2>1, <4>2 DEF PlacedInv, RowsPlaced
      <4>3. \/ RowOf(click'[e]) = RowOf(click[e])
            \/ lastId' = lastId + 1 /\ RowOf(click'[e]) = lastId'
            \/ /\ SessionOf(e).message # None /\ rows[SessionOf(e).message] # None
               /\ RowOf(click'[e]) = rows[SessionOf(e).message].id
        BY <2>3, WorkGoesOn DEF Works
      <4> QED BY <1>4, <4>1, <4>2, <4>3
    <3> QED BY <1>1, <1>2, <2>1, <3>1, <3>2, <3>3, <3>4
  <2> QED BY <2>2, <2>3
<1>6. CASE d = c
  <2>1. click'[e] = click[e] /\ sessions'[click[e].obj] = SessionOf(e)
    BY <1>0, <1>2, <1>3, <1>6 DEF WorkStep, WorkSessions, SessionOf
  <2>2. \A m \in Messages : rows'[m] # None =>
          (rows[m] # None /\ rows'[m].id = rows[m].id) \/ rows'[m].id = lastId + 1
    BY <1>6 DEF WorkStep, WorkRows
  <2>3. \A m \in Messages : rows'[m] # None /\ (rows[m] # None => rows[m].id # RowOf(click[e])) =>
          rows'[m].id # RowOf(click[e])
    BY <1>4, <2>2
  <2>4. Target(c)' = IF click'[c].on # None THEN click'[c].on ELSE sessions'[click[c].obj].message
    BY <1>1 DEF Target, SessionOf
  <2>5. CASE click'[c].on = None
    <3>1. Target(c)' = t BY <1>6, <2>4, <2>5 DEF WorkStep, WorkSessions
    <3>2. t # None => /\ t # click[e].on /\ t # SessionOf(e).message /\ t \in Messages
                      /\ (rows[t] # None => rows[t].id # RowOf(click[e]))
      BY <1>1, <1>2, <1>3 DEF Alone
    <3> QED BY <1>1, <1>2, <2>1, <2>3, <3>1, <3>2
  <2>6. ASSUME NEW m \in Menus, click'[c].on = m, ~shown[m].posted
        PROVE  /\ click'[e].obj # click'[c].obj
               /\ Target(c)' # None =>
                    /\ Target(c)' # click'[e].on
                    /\ Target(c)' # sessions'[click'[e].obj].message
                    /\ rows'[Target(c)'] # None => rows'[Target(c)'].id # RowOf(click'[e])
    <3>1. m \in Messages /\ m # None BY NoMessage DEF Messages
    <3>2. Target(c)' = m BY <2>4, <2>6, <3>1
    <3>3. click[e].on # m /\ SessionOf(e).message # m /\ rows[m] = None
      BY <1>1, <1>3, <2>6, <3>1 DEF PlacedInv, RowsPlaced, ClickPlaced, SessionPlaced, SessionOf, Works
    <3> QED BY <1>1, <1>2, <2>1, <2>3, <3>1, <3>2, <3>3
  <2> QED BY <1>6, <2>5, <2>6 DEF WorkStep, WorkMade
<1> QED BY <1>5, <1>6

\* A click that is not near shares nothing.
LEMMA FarIs ==
  ASSUME SetupInv, NEW c \in Clicks, Works(c), NEW o, NEW m, c \notin Near(click, o, m)
  PROVE  /\ click[c].obj # o
         /\ m # None => /\ m # click[c].on /\ m # SessionOf(c).message /\ m # Target(c)
                        /\ rows[m] # None => rows[m].id # RowOf(click[c])
<1>1. click[c].obj # 0 BY DEF SetupInv, ClicksOK, Fits, Works, WorkSteps
<1> QED BY <1>1 DEF Near, SessionOf, Target

\* The other clicks when a click neither works nor changes a message: those
\* that stay clean keep all they have.
LEMMA KeptByOthers ==
  ASSUME SetupInv, SetupInv', NEW c \in Clicks, Works(c)', click'[c].clean,
         \/ EditStep
         \/ \E d \in Clicks, o \in 1..Len(sessions) : d # c /\ BeginStep(d, o)
         \/ \E d \in Clicks, m \in Messages : RemoveStep(d, m)
  PROVE  /\ Works(c) /\ click'[c] = click[c] /\ sessions'[click[c].obj] = SessionOf(c)
         /\ Target(c)' = Target(c)
         /\ Target(c) # None =>
              /\ shown'[Target(c)] = shown[Target(c)] /\ rows'[Target(c)] = rows[Target(c)]
<1>1. /\ Works(c) /\ click'[c] = click[c] /\ sessions'[click[c].obj] = SessionOf(c)
      /\ UNCHANGED shown
      /\ Target(c) # None => rows'[Target(c)] = rows[Target(c)]
  <2>1. CASE EditStep
    <3>1. PICK o \in 0..Len(sessions) :
            /\ Survivors(o)
            /\ \A p \in 1..Len(sessions) : p # o => sessions'[p] = sessions[p]
      BY <2>1 DEF EditStep
    <3>2. Works(c) /\ click'[c] = click[c] /\ click[c].obj # o BY <3>1, SurvivorIs DEF Works
    <3> QED BY <2>1, <3>1, <3>2, WorkHas DEF EditStep, SessionOf
  <2>2. ASSUME NEW d \in Clicks, NEW o \in 1..Len(sessions), d # c, BeginStep(d, o)
        PROVE  /\ Works(c) /\ click'[c] = click[c] /\ sessions'[click[c].obj] = SessionOf(c)
               /\ UNCHANGED <<shown, rows>>
    BY <2>2, NotNearSame DEF BeginStep, SessionOf, Works
  <2>3. ASSUME NEW d \in Clicks, NEW m \in Messages, RemoveStep(d, m)
        PROVE  /\ Works(c) /\ click'[c] = click[c] /\ sessions'[click[c].obj] = SessionOf(c)
               /\ UNCHANGED shown
               /\ Target(c) # None => rows'[Target(c)] = rows[Target(c)]
    <3>1. d # c BY <2>3 DEF RemoveStep, Works
    <3>2. Works(c) /\ click'[c] = click[c] /\ c \notin Near(click, 0, m)
      BY <2>3, <3>1, NotNearSame DEF RemoveStep, Works
    <3>3. m # Target(c) BY <3>2, FarIs, NoMessage
    <3>4. Target(c) # None => Target(c) \in Messages BY <3>2, WorkHas
    <3> QED BY <2>3, <3>2, <3>3, <3>4 DEF RemoveStep, SessionOf, SetupInv, SetupTypeOK
  <2> QED BY <2>1, <2>2, <2>3
<1>2. Target(c)' = Target(c) BY <1>1 DEF Target, SessionOf
<1> QED BY <1>1, <1>2

LEMMA AloneOthers ==
  ASSUME SetupInv, SetupInv', AloneInv,
         \/ EditStep
         \/ \E c \in Clicks, o \in 1..Len(sessions) : BeginStep(c, o)
         \/ \E c \in Clicks, m \in Messages : RemoveStep(c, m)
  PROVE  AloneInv'
<1> SUFFICES ASSUME NEW c \in Clicks, Works(c)', click'[c].clean,
                    NEW e \in Clicks, e # c, Works(e)'
             PROVE  /\ click'[e].obj # click'[c].obj
                    /\ Target(c)' # None =>
                         /\ Target(c)' # click'[e].on
                         /\ Target(c)' # sessions'[click'[e].obj].message
                         /\ rows'[Target(c)'] # None => rows'[Target(c)'].id # RowOf(click'[e])
  BY DEF AloneInv, Alone, SessionOf, Target, RowOf
<1> DEFINE t == Target(c)
<1>1. ASSUME Works(c), click'[c] = click[c], Target(c)' = t,
             t # None => rows'[t] = rows[t],
             Works(e), click'[e].obj = click[e].obj, click'[e].on = click[e].on,
             RowOf(click'[e]) = RowOf(click[e]),
             sessions'[click[e].obj].message = sessions[click[e].obj].message
      PROVE  /\ click'[e].obj # click'[c].obj
             /\ Target(c)' # None =>
                  /\ Target(c)' # click'[e].on
                  /\ Target(c)' # sessions'[click'[e].obj].message
                  /\ rows'[Target(c)'] # None => rows'[Target(c)'].id # RowOf(click'[e])
  <2>1. Alone(c) BY <1>1 DEF AloneInv
  <2>2. /\ click[e].obj # click[c].obj
        /\ t # None => /\ t # click[e].on /\ t # sessions[click[e].obj].message
                       /\ rows[t] # None => rows[t].id # RowOf(click[e])
    BY <1>1, <2>1 DEF Alone, SessionOf
  <2> HIDE DEF t
  <2> QED BY <1>1, <2>2
<1> HIDE DEF t
<1>2. CASE EditStep
  <2>1. PICK o : Survivors(o) BY <1>2 DEF EditStep
  <2>2. Works(e) /\ click'[e].obj = click[e].obj /\ click'[e].on = click[e].on
        /\ RowOf(click'[e]) = RowOf(click[e])
    BY <2>1, SurvivorIs DEF Works
  <2>3. click[e].obj \in 1..Len(sessions) BY <2>2, WorkHas
  <2>4. sessions'[click[e].obj].message = sessions[click[e].obj].message
    BY <1>2, <2>3 DEF EditStep
  <2>5. Works(c) /\ click'[c] = click[c] /\ Target(c)' = t /\ (t # None => rows'[t] = rows[t])
    BY <1>2, KeptByOthers DEF t
  <2> QED BY <1>1, <2>2, <2>4, <2>5
<1>3. ASSUME NEW d \in Clicks, NEW m \in Messages, RemoveStep(d, m)
      PROVE  /\ click'[e].obj # click'[c].obj
             /\ Target(c)' # None =>
                  /\ Target(c)' # click'[e].on
                  /\ Target(c)' # sessions'[click'[e].obj].message
                  /\ rows'[Target(c)'] # None => rows'[Target(c)'].id # RowOf(click'[e])
  <2>1. d # e /\ UNCHANGED sessions BY <1>3 DEF RemoveStep, Works
  <2>2. Works(e) /\ click'[e].obj = click[e].obj /\ click'[e].on = click[e].on
        /\ RowOf(click'[e]) = RowOf(click[e])
    BY <1>3, <2>1, NotNearSame DEF RemoveStep, Works
  <2>3. Works(c) /\ click'[c] = click[c] /\ Target(c)' = t /\ (t # None => rows'[t] = rows[t])
    BY <1>3, KeptByOthers DEF t
  <2> QED BY <1>1, <2>1, <2>2, <2>3
<1>4. ASSUME NEW d \in Clicks, NEW o \in 1..Len(sessions), BeginStep(d, o)
      PROVE  /\ click'[e].obj # click'[c].obj
             /\ Target(c)' # None =>
                  /\ Target(c)' # click'[e].on
                  /\ Target(c)' # sessions'[click'[e].obj].message
                  /\ rows'[Target(c)'] # None => rows'[Target(c)'].id # RowOf(click'[e])
  <2> DEFINE m == sessions[o].message
  <2>1. /\ UNCHANGED <<sessions, shown, rows>> /\ click'[d].obj = o /\ click'[d].on = None
        /\ RowOf(click'[d]) = 0 /\ (click'[d].clean => Near(click, o, m) = {})
        /\ NotNear(d, o, m)
    BY <1>4 DEF BeginStep, RowOf
  <2>2. m \in Messages \cup {None} /\ \A n \in Messages : rows[n] # None => rows[n].id # 0
    BY Numbers, SessionFields DEF SetupInv, SetupTypeOK
  <2> HIDE DEF m
  <2>3. CASE d # c /\ d # e
    <3>1. Works(e) /\ click'[e].obj = click[e].obj /\ click'[e].on = click[e].on
          /\ RowOf(click'[e]) = RowOf(click[e])
      BY <2>1, <2>3, NotNearSame DEF Works
    <3>2. Works(c) /\ click'[c] = click[c] /\ Target(c)' = t /\ (t # None => rows'[t] = rows[t])
      BY <1>4, <2>3, KeptByOthers DEF t
    <3> QED BY <1>1, <2>1, <3>1, <3>2
  <2>4. CASE d = c
    <3>1. Works(e) /\ click'[e].obj = click[e].obj /\ click'[e].on = click[e].on
          /\ RowOf(click'[e]) = RowOf(click[e])
      BY <2>1, <2>4, NotNearSame DEF Works
    <3>2. Target(c)' = m BY <2>1, <2>4 DEF Target, SessionOf, m
    <3>3. e \notin Near(click, o, m) BY <2>1, <2>4
    <3>4. /\ click[e].obj # o
          /\ m # None => /\ m # click[e].on /\ m # SessionOf(e).message
                         /\ rows[m] # None => rows[m].id # RowOf(click[e])
      BY <3>1, <3>3, FarIs
    <3> QED BY <2>1, <2>4, <3>1, <3>2, <3>4 DEF SessionOf
  <2>5. CASE d = e /\ d # c
    <3>1. Works(c) /\ click'[c] = click[c] /\ c \notin Near(click, o, m)
      BY <2>1, <2>5, NotNearSame DEF Works
    <3>2. click[c].obj # o /\ (m # None => m # Target(c)) BY <3>1, FarIs
    <3>3. Target(c)' = Target(c) /\ (Target(c) # None => Target(c) \in Messages)
      BY <2>1, <3>1, WorkHas DEF Target, SessionOf
    <3> QED BY <2>1, <2>2, <2>5, <3>1, <3>2, <3>3 DEF m
  <2> QED BY <2>3, <2>4, <2>5
<1> QED BY <1>2, <1>3, <1>4

-----------------------------------------------------------------------------
(* How far a click that is alone has come.                                 *)

Progress(c) ==
  LET k == click[c]
      list == ListOf(c)
      m == Target(c)
  IN /\ k.at # "add" => k.i = 0
     /\ k.at = "send" => m = None
     /\ k.at \notin {"compare", "add"} /\ k.base = None /\ m # None => rows[m] = None
     /\ k.base # None => m # None /\ rows[m] # None /\ rows[m].id = k.base.id
     /\ k.at \in {"wipe", "add"} => m # None /\ rows[m] # None /\ rows[m].id = k.id
     /\ k.at = "add" => k.i <= Len(list) /\ rows[m].mappings = SubSeq(list, 1, k.i)
     /\ m \in Menus =>
          /\ k.at \in {"clear", "react", "look", "create", "update", "wipe", "add"} =>
               shown[m].buttons = ButtonsOf(list)
          /\ k.at = "react" => shown[m].emojis = {}
          /\ k.at \in {"look", "create", "update", "wipe", "add"} =>
               shown[m].emojis = EmojisOf(list)

ProgressInv == \A c \in Clicks : Works(c) /\ click[c].clean => Progress(c)

LEMMA ProgressKept ==
  ASSUME NEW c \in Clicks, Progress(c), click'[c] = click[c],
         sessions'[click[c].obj] = SessionOf(c), Target(c)' = Target(c),
         Target(c) # None =>
           shown'[Target(c)] = shown[Target(c)] /\ rows'[Target(c)] = rows[Target(c)]
  PROVE  Progress(c)'
<1>1. ListOf(c)' = ListOf(c) BY DEF ListOf, SessionOf
<1>2. None \notin Menus BY NoMessage DEF Messages
<1> QED BY <1>1, <1>2 DEF Progress

LEMMA ProgressOthers ==
  ASSUME SetupInv, SetupInv', ProgressInv,
         \/ EditStep
         \/ \E c \in Clicks, o \in 1..Len(sessions) : BeginStep(c, o)
         \/ \E c \in Clicks, m \in Messages : RemoveStep(c, m)
  PROVE  ProgressInv'
<1> SUFFICES ASSUME NEW c \in Clicks, Works(c)', click'[c].clean
             PROVE  Progress(c)'
  BY DEF ProgressInv
<1>1. CASE \E o \in 1..Len(sessions) : BeginStep(c, o)
  BY <1>1 DEF BeginStep, Progress
<1>2. CASE ~\E o \in 1..Len(sessions) : BeginStep(c, o)
  <2>1. \/ EditStep
        \/ \E d \in Clicks, o \in 1..Len(sessions) : d # c /\ BeginStep(d, o)
        \/ \E d \in Clicks, m \in Messages : RemoveStep(d, m)
    BY <1>2
  <2>2. Works(c) /\ click'[c] = click[c] BY <2>1, KeptByOthers
  <2>3. Progress(c) BY <2>2 DEF ProgressInv
  <2> QED BY <2>1, <2>3, KeptByOthers, ProgressKept
<1> QED BY <1>1, <1>2

LEMMA EndsWork ==
  ASSUME SetupInv, NEW c \in Clicks, Ends(c)
  PROVE  ~Works(c)'
BY DEF SetupInv, SetupTypeOK, Ends, Works, WorkSteps, Idle

LEMMA SameTarget ==
  ASSUME NEW c \in Clicks, UNCHANGED sessions, click'[c].obj = click[c].obj,
         click'[c].on = click[c].on
  PROVE  Target(c)' = Target(c) /\ ListOf(c)' = ListOf(c) /\ SessionOf(c)' = SessionOf(c)
BY DEF Target, SessionOf, ListOf

LEMMA CompareProgress ==
  ASSUME SetupInv, NEW c \in Clicks, Works(c), Works(c)', Progress(c), Compare(c)
  PROVE  Progress(c)'
<1> DEFINE m == SessionOf(c).message
           stored == IF m = None THEN None ELSE rows[m]
           k == [click[c] EXCEPT !.at = "validate", !.base = stored]
<1>1. click[c].at = "compare" /\ UNCHANGED <<sessions, shown, rows>> BY DEF Compare, At
<1>2. click' = [click EXCEPT ![c] = k] BY EndsWork DEF Compare
<1>3. click[c].on = None /\ Target(c) = m /\ stored \in Rows \cup {None} BY <1>1, WorkHas DEF Fits
<1>4. /\ click'[c].at = "validate" /\ click'[c].base = stored /\ click'[c].obj = click[c].obj
      /\ click'[c].on = click[c].on /\ click'[c].i = click[c].i
  <2> HIDE DEF stored
  <2>1. click[c] \in Click /\ click'[c] = k BY <1>2, WorkHas, ClickIs
  <2> QED BY <2>1 DEF Click
<1>5. Target(c)' = m /\ click[c].i = 0
  BY <1>1, <1>3, <1>4, SameTarget DEF Progress
<1> HIDE DEF m
<1> QED BY <1>1, <1>4, <1>5 DEF Progress

LEMMA ValidateProgress ==
  ASSUME SetupInv, PlacedInv, NEW c \in Clicks, Works(c), Works(c)', Progress(c), Validate(c)
  PROVE  Progress(c)'
<1> DEFINE m == SessionOf(c).message
           s == IF m = None THEN "send" ELSE IF SessionOf(c).canEdit THEN "edit" ELSE "react"
<1>1. click[c].at = "validate" /\ UNCHANGED <<sessions, shown, rows>> BY DEF Validate, At
<1>2. click' = [click EXCEPT ![c] = [click[c] EXCEPT !.at = s]]
  BY EndsWork DEF Validate, Goes
<1>3. click[c].on = None /\ Target(c) = m BY <1>1, WorkHas DEF Fits
<1>4. s \in {"send", "edit", "react"} /\ (s = "send" => m = None)
      /\ (s = "react" => ~SessionOf(c).canEdit)
  OBVIOUS
<1>5. s = "react" => m \notin Menus
  <2>1. SessionPlaced(SessionOf(c)) BY WorkHas DEF PlacedInv, SessionOf
  <2> QED BY <1>4, <2>1, SetupAssumption DEF SessionPlaced
<1> HIDE DEF s
<1>6. /\ click'[c].at = s /\ click'[c].base = click[c].base /\ click'[c].obj = click[c].obj
      /\ click'[c].on = click[c].on /\ click'[c].i = click[c].i
  <2>1. click[c] \in Click /\ click'[c] = [click[c] EXCEPT !.at = s] BY <1>2, WorkHas, ClickIs
  <2> QED BY <2>1 DEF Click
<1>7. Target(c)' = m BY <1>1, <1>3, <1>6, SameTarget
<1> HIDE DEF m
<1> QED BY <1>1, <1>3, <1>4, <1>5, <1>6, <1>7 DEF Progress

LEMMA SendProgress ==
  ASSUME SetupInv, PlacedInv, NEW c \in Clicks, Works(c), Progress(c),
         NEW m \in Menus, Send(c, m)
  PROVE  Progress(c)'
<1> DEFINE v == [posted |-> TRUE, buttons |-> ButtonsOf(ListOf(c)), emojis |-> {},
                 embed |-> SessionOf(c).embed]
<1>1. /\ click[c].at = "send" /\ ~shown[m].posted /\ UNCHANGED <<sessions, rows>>
      /\ shown' = [shown EXCEPT ![m] = v]
      /\ click' = [click EXCEPT ![c] = [click[c] EXCEPT !.at = "react", !.on = m]]
  BY DEF Send, At
<1>2. m \in Messages /\ m # None BY NoMessage DEF Messages
<1>3. shown'[m] = v /\ rows[m] = None
  BY <1>1, <1>2 DEF SetupInv, SetupTypeOK, PlacedInv, RowsPlaced
<1>4. shown'[m].buttons = ButtonsOf(ListOf(c)) /\ shown'[m].emojis = {} BY <1>3
<1>5. /\ click'[c].at = "react" /\ click'[c].base = click[c].base /\ click'[c].obj = click[c].obj
      /\ click'[c].on = m /\ click'[c].i = click[c].i
  <2>1. click[c] \in Click /\ click'[c] = [click[c] EXCEPT !.at = "react", !.on = m]
    BY <1>1, WorkHas, ClickIs
  <2> QED BY <2>1 DEF Click
<1>6. Target(c)' = m /\ ListOf(c)' = ListOf(c)
  BY <1>1, <1>2, <1>5 DEF Target, SessionOf, ListOf
<1>7. click[c].base = None /\ click[c].i = 0 BY <1>1 DEF Progress
<1> QED BY <1>1, <1>2, <1>3, <1>4, <1>5, <1>6, <1>7 DEF Progress

LEMMA EditProgress ==
  ASSUME SetupInv, NEW c \in Clicks, Works(c), Works(c)', Progress(c),
         Edit(c) \/ ClearReactions(c)
  PROVE  Progress(c)'
<1> DEFINE m == SessionOf(c).message
<1>1. /\ click[c].at \in {"edit", "clear"} /\ UNCHANGED <<sessions, rows>>
      /\ \/ click[c].at = "edit" /\ Edit(c)
         \/ click[c].at = "clear" /\ ClearReactions(c)
  BY DEF Edit, ClearReactions, At
<1>2. m # None /\ click[c].on = None /\ Target(c) = m /\ m \in Messages
  BY <1>1, WorkHas DEF Fits, SessionOf
<1>3. shown \in [Messages -> [posted : BOOLEAN, buttons : SUBSET Roles, emojis : SUBSET Emojis,
                              embed : Embeds]]
  BY DEF SetupInv, SetupTypeOK
<1>4. CASE click[c].at = "edit" /\ Edit(c)
  <2>1. shown' = [shown EXCEPT ![m].buttons = ButtonsOf(ListOf(c)),
                               ![m].embed = IF SessionOf(c).embed = "custom" THEN "custom" ELSE @]
        /\ click' = [click EXCEPT ![c] = [click[c] EXCEPT !.at = "clear"]]
    BY <1>4, EndsWork DEF Edit, Goes
  <2>2. shown'[m].buttons = ButtonsOf(ListOf(c)) BY <1>2, <1>3, <2>1
  <2>3. /\ click'[c].at = "clear" /\ click'[c].base = click[c].base /\ click'[c].obj = click[c].obj
        /\ click'[c].on = click[c].on /\ click'[c].i = click[c].i
    <3>1. click[c] \in Click /\ click'[c] = [click[c] EXCEPT !.at = "clear"]
      BY <2>1, WorkHas, ClickIs
    <3> QED BY <3>1 DEF Click
  <2>4. Target(c)' = m /\ ListOf(c)' = ListOf(c) BY <1>1, <1>2, <2>3, SameTarget
  <2> QED BY <1>1, <1>2, <1>4, <2>2, <2>3, <2>4 DEF Progress
<1>5. CASE click[c].at = "clear" /\ ClearReactions(c)
  <2>1. shown' = [shown EXCEPT ![m].emojis = {}]
        /\ click' = [click EXCEPT ![c] = [click[c] EXCEPT !.at = "react"]]
    BY <1>5 DEF ClearReactions, Goes
  <2>2. shown'[m].buttons = shown[m].buttons /\ shown'[m].emojis = {} BY <1>2, <1>3, <2>1
  <2>3. /\ click'[c].at = "react" /\ click'[c].base = click[c].base /\ click'[c].obj = click[c].obj
        /\ click'[c].on = click[c].on /\ click'[c].i = click[c].i
    <3>1. click[c] \in Click /\ click'[c] = [click[c] EXCEPT !.at = "react"]
      BY <2>1, WorkHas, ClickIs
    <3> QED BY <3>1 DEF Click
  <2>4. Target(c)' = m /\ ListOf(c)' = ListOf(c) BY <1>1, <1>2, <2>3, SameTarget
  <2> QED BY <1>1, <1>2, <1>5, <2>2, <2>3, <2>4 DEF Progress
<1> QED BY <1>1, <1>4, <1>5

LEMMA ReactionsProgress ==
  ASSUME SetupInv, NEW c \in Clicks, Works(c), click'[c].clean, Progress(c), AddReactions(c)
  PROVE  Progress(c)'
<1> DEFINE m == Target(c)
           s == IF click[c].base = None THEN "look" ELSE "update"
           list == ListOf(c)
<1>1. /\ click[c].at = "react" /\ UNCHANGED rows
      /\ sessions' = [sessions EXCEPT ![click[c].obj].message = m]
  BY DEF AddReactions, At
<1>2. PICK lost \in SUBSET EmojisOf(list) :
        /\ shown' = [shown EXCEPT ![m].emojis = @ \cup (EmojisOf(list) \ lost)]
        /\ click' = [click EXCEPT ![c].at = s, ![c].on = None, ![c].clean = @ /\ lost = {}]
  BY DEF AddReactions
<1>3. /\ m # None /\ m \in Messages /\ click[c].obj \in 1..Len(sessions)
      /\ sessions \in Seq(Session) /\ click \in [Clicks -> Click] /\ click[c] \in Click
  BY <1>1, WorkHas DEF Fits, Target, SessionOf, SetupInv, SetupTypeOK
<1>4. s \in {"look", "update"} /\ (s = "look" <=> click[c].base = None) OBVIOUS
<1> HIDE DEF s, m, list
<1>5. /\ click'[c].at = s /\ click'[c].base = click[c].base /\ click'[c].obj = click[c].obj
      /\ click'[c].on = None /\ click'[c].i = click[c].i /\ lost = {}
  <2>1. click'[c] = [click[c] EXCEPT !.at = s, !.on = None, !.clean = click[c].clean /\ lost = {}]
    BY <1>2, <1>3
  <2>2. ASSUME NEW b \in BOOLEAN
        PROVE  LET k == [click[c] EXCEPT !.at = s, !.on = None, !.clean = b]
               IN /\ k.at = s /\ k.base = click[c].base /\ k.obj = click[c].obj /\ k.on = None
                  /\ k.i = click[c].i /\ (k.clean <=> b)
    BY <1>3 DEF Click
  <2>3. (click[c].clean /\ lost = {}) \in BOOLEAN BY <1>3, ClickFields
  <2> QED BY <2>1, <2>2, <2>3
<1>6. Target(c)' = m /\ ListOf(c)' = list
  <2>1. sessions'[click[c].obj] = [sessions[click[c].obj] EXCEPT !.message = m] BY <1>1, <1>3
  <2>2. sessions[click[c].obj] \in Session BY <1>3
  <2>3. sessions'[click[c].obj].message = m
        /\ sessions'[click[c].obj].list = sessions[click[c].obj].list
    BY <2>1, <2>2 DEF Session
  <2> QED BY <1>5, <2>3 DEF Target, SessionOf, ListOf, list
<1>7. shown'[m].buttons = shown[m].buttons
      /\ (shown[m].emojis = {} => shown'[m].emojis = EmojisOf(list))
  BY <1>2, <1>3, <1>5 DEF SetupInv, SetupTypeOK
<1>8. /\ click[c].i = 0 /\ (click[c].base = None => rows[m] = None)
      /\ click[c].base # None => rows[m] # None /\ rows[m].id = click[c].base.id
      /\ m \in Menus => shown[m].buttons = ButtonsOf(list) /\ shown[m].emojis = {}
  BY <1>1, <1>3 DEF Progress, m, list
<1> QED BY <1>1, <1>3, <1>4, <1>5, <1>6, <1>7, <1>8 DEF Progress

LEMMA LookProgress ==
  ASSUME SetupInv, NEW c \in Clicks, Works(c), Progress(c), LookAgain(c)
  PROVE  Progress(c)'
<1> DEFINE m == SessionOf(c).message
<1>1. /\ click[c].at = "look" /\ UNCHANGED <<sessions, shown, rows>>
      /\ click' = [click EXCEPT ![c] = [click[c] EXCEPT
                     !.at = IF rows[m] = None THEN "create" ELSE "update", !.base = rows[m]]]
  BY DEF LookAgain, At
<1>2. /\ m # None /\ click[c].on = None /\ click[c].base = None /\ Target(c) = m /\ m \in Messages
      /\ click[c] \in Click
  BY <1>1, WorkHas DEF Fits, SessionOf
<1>3. rows[m] = None /\ click[c].i = 0 BY <1>1, <1>2 DEF Progress
<1>4. /\ click'[c].at = "create" /\ click'[c].base = None /\ click'[c].obj = click[c].obj
      /\ click'[c].on = None /\ click'[c].i = 0
  <2>1. click'[c] = [click[c] EXCEPT !.at = "create", !.base = None] BY <1>1, <1>3, ClickIs
  <2> QED BY <1>2, <1>3, <2>1 DEF Click
<1>5. Target(c)' = m /\ ListOf(c)' = ListOf(c) BY <1>1, <1>2, <1>4, SameTarget
<1> QED BY <1>1, <1>2, <1>3, <1>4, <1>5 DEF Progress

LEMMA NothingYet ==
  ASSUME NEW list \in Seq(Mappings)
  PROVE  SubSeq(list, 1, 0) = <<>> /\ SubSeq(list, 1, Len(list)) = list
OBVIOUS

LEMMA OneMore ==
  ASSUME NEW list \in Seq(Mappings), NEW i \in Nat, i < Len(list)
  PROVE  Append(SubSeq(list, 1, i), list[i + 1]) = SubSeq(list, 1, i + 1)
OBVIOUS

LEMMA CreateProgress ==
  ASSUME SetupInv, NEW c \in Clicks, Works(c), Works(c)', Progress(c), CreateRow(c)
  PROVE  Progress(c)'
<1> DEFINE m == SessionOf(c).message
           r == [id |-> lastId + 1, mode |-> SessionOf(c).mode, embed |-> SessionOf(c).embed,
                 mappings |-> <<>>]
<1>1. /\ click[c].at = "create" /\ UNCHANGED <<sessions, shown>>
      /\ rows' = [rows EXCEPT ![m] = r]
      /\ click' = [click EXCEPT ![c] = [click[c] EXCEPT !.at = "add", !.id = lastId + 1]]
  BY EndsWork DEF CreateRow, At
<1>2. /\ m # None /\ click[c].on = None /\ click[c].base = None /\ Target(c) = m /\ m \in Messages
      /\ click[c] \in Click /\ SessionOf(c) \in Session
  BY <1>1, WorkHas DEF Fits, SessionOf
<1>3. /\ click'[c].at = "add" /\ click'[c].base = None /\ click'[c].obj = click[c].obj
      /\ click'[c].on = None /\ click'[c].i = 0 /\ click'[c].id = lastId + 1
  <2>1. click'[c] = [click[c] EXCEPT !.at = "add", !.id = lastId + 1] BY <1>1, ClickIs
  <2>2. click[c].i = 0 BY <1>1 DEF Progress
  <2> QED BY <1>2, <2>1, <2>2 DEF Click
<1>4. Target(c)' = m /\ ListOf(c)' = ListOf(c) BY <1>1, <1>2, <1>3, SameTarget
<1>5. rows'[m] = r BY <1>1, <1>2 DEF SetupInv, SetupTypeOK
<1>6. rows'[m] # None
  <2>1. SetupInv => lastId + 1 \in Nat \ {0} BY DEF SetupInv, SetupTypeOK
  <2>2. <<>> \in Seq(Mappings) OBVIOUS
  <2>3. r \in Rows BY <1>2, <2>1, <2>2, SessionFields DEF Rows
  <2> QED BY <1>5, <2>3, NoMessage
<1>7. /\ rows'[m].id = lastId + 1 /\ rows'[m].mappings = <<>> BY <1>5
<1>8. ListOf(c) \in Seq(Mappings) /\ 0 <= Len(ListOf(c))
  BY <1>2, SessionFields DEF ListOf
<1>9. SubSeq(ListOf(c), 1, 0) = <<>> BY <1>8, NothingYet
<1> HIDE DEF r, m
<1> QED BY <1>1, <1>2, <1>3, <1>4, <1>6, <1>7, <1>8, <1>9 DEF Progress

LEMMA HolderOf ==
  ASSUME PlacedInv, NEW m \in Messages, rows[m] # None
  PROVE  rows[m].id \in RowIds /\ Holder(rows[m].id) = m
<1>1. rows[m].id \in RowIds BY DEF RowIds
<1> QED BY <1>1, HolderIs DEF PlacedInv, RowsPlaced

LEMMA SavingProgress ==
  ASSUME SetupInv, PlacedInv, NEW c \in Clicks, Works(c), Works(c)', Progress(c),
         UpdateRow(c) \/ RemoveAllMappings(c) \/ AddMapping(c)
  PROVE  Progress(c)'
<1> DEFINE m == Target(c)
           list == ListOf(c)
<1>1. /\ UNCHANGED <<sessions, shown>>
      /\ \/ click[c].at = "update" /\ UpdateRow(c)
         \/ click[c].at = "wipe" /\ RemoveAllMappings(c)
         \/ click[c].at = "add" /\ AddMapping(c)
  BY DEF UpdateRow, RemoveAllMappings, AddMapping, At
<1>2. /\ click[c].on = None /\ click[c] \in Click /\ SessionOf(c) \in Session
      /\ click[c].at = "update" => click[c].base # None
      /\ list \in Seq(Mappings)
  BY <1>1, WorkHas, SessionFields DEF Fits, ListOf
<1>3. m # None /\ m \in Messages /\ rows[m] # None /\ rows[m] \in Rows
  <2>1. m # None /\ rows[m] # None BY <1>1, <1>2 DEF Progress
  <2> QED BY <2>1, WorkHas, Numbers
<1>4. rows[m].id \in RowIds /\ Holder(rows[m].id) = m BY <1>3, HolderOf
<1>5. rows \in [Messages -> Rows \cup {None}] BY DEF SetupInv, SetupTypeOK
<1> HIDE DEF m, list
<1>6. CASE click[c].at = "update" /\ UpdateRow(c)
  <2>1. click[c].base.id = rows[m].id /\ click[c].i = 0
        /\ (m \in Menus => shown[m].buttons = ButtonsOf(list) /\ shown[m].emojis = EmojisOf(list))
    BY <1>2, <1>6 DEF Progress, m, list
  <2>2. rows' = [rows EXCEPT ![m].mode = SessionOf(c).mode, ![m].embed = SessionOf(c).embed]
        /\ click' = [click EXCEPT ![c] = [click[c] EXCEPT !.at = "wipe", !.id = rows[m].id]]
    BY <1>4, <1>6, <2>1 DEF UpdateRow
  <2>3. rows'[m] = [rows[m] EXCEPT !.mode = SessionOf(c).mode, !.embed = SessionOf(c).embed]
    BY <1>3, <1>5, <2>2
  <2>4. rows'[m] # None /\ rows'[m].id = rows[m].id
    <3>1. rows'[m] \in Rows /\ rows'[m].id = rows[m].id
      BY <1>2, <1>3, <2>3, SessionFields DEF Rows
    <3> QED BY <3>1, NoMessage
  <2>5. /\ click'[c].at = "wipe" /\ click'[c].base = click[c].base /\ click'[c].obj = click[c].obj
        /\ click'[c].on = click[c].on /\ click'[c].i = 0 /\ click'[c].id = rows[m].id
    <3>1. click'[c] = [click[c] EXCEPT !.at = "wipe", !.id = rows[m].id] BY <2>2, ClickIs
    <3> QED BY <1>2, <2>1, <3>1 DEF Click
  <2>6. Target(c)' = m /\ ListOf(c)' = list BY <1>1, <2>5, SameTarget DEF m, list
  <2> QED BY <1>1, <1>2, <1>3, <1>6, <2>1, <2>4, <2>5, <2>6 DEF Progress
<1>7. /\ click[c].at \in {"wipe", "add"} => click[c].id = rows[m].id
      /\ click[c].at = "wipe" => click[c].i = 0
      /\ click[c].base # None => rows[m].id = click[c].base.id
      /\ click[c].at = "add" => click[c].i <= Len(list) /\ rows[m].mappings = SubSeq(list, 1, click[c].i)
      /\ click[c].at \in {"wipe", "add"} /\ m \in Menus =>
           shown[m].buttons = ButtonsOf(list) /\ shown[m].emojis = EmojisOf(list)
  BY DEF Progress, m, list
<1>8. CASE click[c].at = "wipe" /\ RemoveAllMappings(c)
  <2>1. rows' = [rows EXCEPT ![m].mappings = <<>>]
        /\ click' = [click EXCEPT ![c] = [click[c] EXCEPT !.at = "add"]]
    BY <1>4, <1>7, <1>8 DEF RemoveAllMappings, Goes
  <2>2. rows'[m] = [rows[m] EXCEPT !.mappings = <<>>] BY <1>3, <1>5, <2>1
  <2>3. rows'[m] # None /\ rows'[m].id = rows[m].id /\ rows'[m].mappings = <<>>
    <3>1. <<>> \in Seq(Mappings) OBVIOUS
    <3>2. rows'[m] \in Rows /\ rows'[m].id = rows[m].id /\ rows'[m].mappings = <<>>
      BY <1>3, <2>2, <3>1 DEF Rows
    <3> QED BY <3>2, NoMessage
  <2>4. /\ click'[c].at = "add" /\ click'[c].base = click[c].base /\ click'[c].obj = click[c].obj
        /\ click'[c].on = click[c].on /\ click'[c].i = 0 /\ click'[c].id = rows[m].id
    <3>1. click'[c] = [click[c] EXCEPT !.at = "add"] BY <2>1, ClickIs
    <3> QED BY <1>2, <1>7, <1>8, <3>1 DEF Click
  <2>5. Target(c)' = m /\ ListOf(c)' = list BY <1>1, <2>4, SameTarget DEF m, list
  <2>6. SubSeq(list, 1, 0) = <<>> /\ 0 <= Len(list) BY <1>2, NothingYet
  <2> QED BY <1>1, <1>3, <1>7, <1>8, <2>3, <2>4, <2>5, <2>6 DEF Progress
<1>9. CASE click[c].at = "add" /\ AddMapping(c)
  <2> DEFINE i == click[c].i
             x == list[i + 1]
             r == [rows[m] EXCEPT !.mappings = Append(rows[m].mappings, x)]
  <2>1. i < Len(list) /\ rows' = [rows EXCEPT ![m].mappings = Append(@, x)]
        /\ click' = [click EXCEPT ![c] = [click[c] EXCEPT !.i = i + 1]]
    <3>1. click \in [Clicks -> Click] BY DEF SetupInv, SetupTypeOK
    <3> QED BY <1>4, <1>7, <1>9, <3>1 DEF AddMapping, list
  <2>2. i \in Nat /\ x \in Mappings
    <3>1. i \in Nat BY <1>2, ClickFields
    <3> QED BY <1>2, <2>1, <3>1
  <2>3. rows'[m] = r BY <1>3, <1>5, <2>1
  <2> HIDE DEF x
  <2>4. rows'[m] # None /\ rows'[m].id = rows[m].id
        /\ rows'[m].mappings = Append(rows[m].mappings, x)
    <3>1. Append(rows[m].mappings, x) \in Seq(Mappings) BY <1>3, <2>2, RowFields
    <3>2. r \in Rows /\ r.id = rows[m].id /\ r.mappings = Append(rows[m].mappings, x)
      BY <1>3, <3>1 DEF Rows
    <3> QED BY <2>3, <3>2, NoMessage
  <2>5. rows'[m].mappings = SubSeq(list, 1, i + 1)
    BY <1>2, <1>7, <1>9, <2>1, <2>2, <2>4, OneMore DEF x
  <2> HIDE DEF i
  <2>6. /\ click'[c].at = "add" /\ click'[c].base = click[c].base /\ click'[c].obj = click[c].obj
        /\ click'[c].on = click[c].on /\ click'[c].i = i + 1 /\ click'[c].id = rows[m].id
    <3>1. click'[c] = [click[c] EXCEPT !.i = i + 1] BY <2>1, ClickIs
    <3> QED BY <1>2, <1>7, <1>9, <3>1 DEF Click
  <2>7. Target(c)' = m /\ ListOf(c)' = list BY <1>1, <2>6, SameTarget DEF m, list
  <2>8. i + 1 <= Len(list) BY <1>2, <2>1, <2>2
  <2> QED BY <1>1, <1>3, <1>7, <1>9, <2>4, <2>5, <2>6, <2>7, <2>8 DEF Progress
<1> QED BY <1>1, <1>6, <1>8, <1>9

LEMMA ProgressWork ==
  ASSUME SetupInv, PlacedInv, SetupInv', AloneInv, ProgressInv, NEW d \in Clicks,
         WorkStep(d), Own(d)
  PROVE  ProgressInv'
<1> SUFFICES ASSUME NEW c \in Clicks, Works(c)', click'[c].clean
             PROVE  Progress(c)'
  BY DEF ProgressInv
<1>1. CASE c # d
  <2>1. click'[c] = click[c] BY <1>1 DEF WorkStep, WorkClick
  <2>2. Works(c) /\ click[c].clean BY <2>1 DEF Works
  <2>3. Progress(c) /\ Alone(c) BY <2>2 DEF ProgressInv, AloneInv
  <2> QED BY <1>1, <2>2, <2>3, LeftAlone, ProgressKept
<1>2. CASE c = d
  <2>1. Works(c) /\ click[c].clean BY <1>2, WorkGoesOn DEF WorkStep, Works
  <2>2. Progress(c) BY <2>1 DEF ProgressInv
  <2>3. CASE Saved(c) \/ FinishFails(c)
    BY <2>3, EndsWork DEF Saved, FinishFails
  <2>4. CASE Compare(c) \/ Validate(c) \/ \E m \in Menus : Send(c, m)
    BY <2>1, <2>2, <2>4, CompareProgress, ValidateProgress, SendProgress
  <2>5. CASE Edit(c) \/ ClearReactions(c) \/ AddReactions(c)
    BY <2>1, <2>2, <2>5, EditProgress, ReactionsProgress
  <2>6. CASE LookAgain(c) \/ CreateRow(c)
    BY <2>1, <2>2, <2>6, LookProgress, CreateProgress
  <2>7. CASE UpdateRow(c) \/ RemoveAllMappings(c) \/ AddMapping(c)
    BY <2>1, <2>2, <2>7, SavingProgress
  <2> QED BY <1>2, <2>3, <2>4, <2>5, <2>6, <2>7 DEF Own
<1> QED BY <1>1, <1>2

LEMMA ProgressSafe == SetupInv /\ ProgressInv => SavedIsShown
<1> SUFFICES ASSUME SetupInv, ProgressInv, NEW c \in Clicks, click[c].at = "add",
                    click[c].i = Len(ListOf(c)), click[c].clean, SessionOf(c).message \in Menus
             PROVE  LET m == SessionOf(c).message
                    IN /\ rows[m] # None /\ rows[m].mappings = ListOf(c)
                       /\ shown[m].buttons = ButtonsOf(rows[m].mappings)
                       /\ shown[m].emojis = EmojisOf(rows[m].mappings)
  BY DEF SavedIsShown, At
<1>1. Works(c) BY DEF Works, WorkSteps, Steps
<1>2. Progress(c) BY <1>1 DEF ProgressInv
<1>3. Target(c) = SessionOf(c).message /\ SessionOf(c) \in Session BY <1>1, WorkHas DEF Fits
<1>4. SubSeq(ListOf(c), 1, Len(ListOf(c))) = ListOf(c)
  BY <1>3, SessionFields, NothingYet DEF ListOf
<1> QED BY <1>2, <1>3, <1>4 DEF Progress

-----------------------------------------------------------------------------
(* The menus, together.                                                    *)

MenusInv == SetupInv /\ PlacedInv /\ MenuInv /\ AloneInv /\ ProgressInv

LEMMA MenusInitially == SetupInit => MenusInv
<1> SUFFICES ASSUME SetupInit PROVE MenusInv OBVIOUS
<1>1. \A c \in Clicks : ~Works(c) BY DEF SetupInit, Idle, Works, WorkSteps
<1>2. AloneInv /\ ProgressInv BY <1>1 DEF AloneInv, ProgressInv
<1> QED BY <1>2, SetupInitially, PlacedInitially, MenuInitially DEF MenusInv

\* Nothing changes but the counters.
SetupRests ==
  /\ UNCHANGED <<sessions, open, modal, shown, rows, lastId, click, made, doubled>>
  /\ Operates \/ UNCHANGED ops
  /\ Fails \/ UNCHANGED faults

LEMMA StutterStep ==
  ASSUME SetupInv, SetupRests
  PROVE  SetupInv' /\ EditStep
<1>1. /\ UNCHANGED <<sessions, open, modal, shown, rows, lastId, click, made, doubled>>
      /\ Operates \/ UNCHANGED ops
      /\ Fails \/ UNCHANGED faults
  BY DEF SetupRests
<1>2. Grows /\ ClicksOK' /\ Tables' BY <1>1, Stays, SameClicks, TablesStay
<1>3. open' \in [Admins -> 0..Len(sessions')] /\ modal' \subseteq Admins
  BY <1>1 DEF SetupInv, SetupTypeOK
<1>4. SetupInv' BY <1>1, <1>2, <1>3, TypeParts
<1>5. Len(sessions) \in Nat BY Numbers
<1>6. 0 \in 0..Len(sessions) /\ (Len(sessions) + 1)..Len(sessions) = {} BY <1>5
<1> QED BY <1>1, <1>2, <1>4, <1>6, SameSurvivors DEF EditStep

LEMMA MenusStep == MenusInv /\ (SetupNext \/ SetupRests) => MenusInv'
<1> SUFFICES ASSUME MenusInv, SetupNext \/ SetupRests PROVE MenusInv' OBVIOUS
<1>1. SetupInv /\ PlacedInv /\ MenuInv /\ AloneInv /\ ProgressInv BY DEF MenusInv
<1>2. SetupInv' BY <1>1, SetupStep, StutterStep
<1>3. ASSUME \/ EditStep
             \/ \E c \in Clicks, o \in 1..Len(sessions) : BeginStep(c, o)
             \/ \E c \in Clicks, m \in Messages : RemoveStep(c, m)
      PROVE  MenusInv'
  BY <1>1, <1>2, <1>3, PlacedOthers, MenuOthers, AloneOthers, ProgressOthers DEF MenusInv
<1>4. ASSUME NEW c \in Clicks, WorkStep(c), Own(c) PROVE MenusInv'
  <2>1. PlacedInv' BY <1>1, <1>2, <1>4, PlacedWork
  <2> QED BY <1>1, <1>2, <1>4, <2>1, MenuWork, AloneWork, ProgressWork DEF MenusInv
<1> QED BY <1>1, <1>3, <1>4, SetupStep, StutterStep

-----------------------------------------------------------------------------
(* The members and their events.                                           *)

Tally ==
  /\ held \in [Members -> SUBSET Roles] /\ cache \in [Members -> SUBSET Roles]
  /\ news \in [Members -> Seq(SUBSET Roles)]
  /\ reacted \subseteq Members \X Messages \X Emojis

\* The last news of a member is what he has.
Latest ==
  \A u \in Members :
    IF news[u] = <<>> THEN cache[u] = held[u] ELSE news[u][Len(news[u])] = held[u]

HandlerOK(k) ==
  /\ k.at = "idle" <=> k.who = None
  /\ k.at # "idle" => k.menu # None
  /\ k.at \in {"strip", "drop", "done"} => k.row # None /\ k.role \in RolesOf(k.row.mappings)
  /\ k.at = "strip" => k.kind # "remove"
  /\ k.at = "drop" => k.kind # "add"
  /\ k.at = "read" => k.i = 0

\* What an event that is alone finds, and leaves, of a member who has these
\* roles, of whom the cache knows those, and of whom these news are on their way.
Kept(k, has, knows, hears) ==
  LET list == k.row.mappings
  IN /\ k.at \in {"read", "drop"} => hears = <<>>
     /\ k.at = "strip" =>
          /\ has \subseteq knows /\ \A i \in DOMAIN hears : has \subseteq hears[i]
          /\ \A j \in DOMAIN list : j <= k.i /\ list[j].role # k.role => list[j].role \notin has
     /\ k.at = "done" =>
          IF k.role \in has
            THEN /\ k.kind # "remove"
                 /\ k.row.mode = "unique" => has \cap RolesOf(list) = {k.role}
            ELSE k.kind # "add"

AloneHandler(h) ==
  LET u == handler[h].who
  IN handler[h].at # "idle" /\ handler[h].alone =>
       /\ \A g \in Handlers : handler[g].who = u => g = h
       /\ Kept(handler[h], held[u], cache[u], news[u])

MemberInv ==
  /\ Tally /\ handler \in [Handlers -> Handler]
  /\ Latest
  /\ \A h \in Handlers : HandlerOK(handler[h]) /\ AloneHandler(h)

LEMMA HandlerFields ==
  ASSUME NEW k \in Handler
  PROVE  /\ k.at \in {"idle", "read", "strip", "drop", "done"}
         /\ k.who \in Members \cup {None} /\ k.menu \in Messages \cup {None}
         /\ k.role \in Roles \cup {None} /\ k.row \in Rows \cup {None} /\ k.i \in Nat
         /\ k.alone \in BOOLEAN
BY DEF Handler

LEMMA RestingIs ==
  /\ Resting \in Handler /\ HandlerOK(Resting) /\ Resting.at = "idle" /\ Resting.who = None
  /\ Resting.i = 0
BY DEF Resting, Handler, HandlerOK

\* One event goes on.
LEMMA HandlerMoves ==
  ASSUME MemberInv, NEW h \in Handlers, NEW k \in Handler, HandlerOK(k),
         handler' = [handler EXCEPT ![h] = k], Tally', Latest',
         k.who \in {handler[h].who, None}, k.at # "idle" /\ k.alone => handler[h].alone,
         \A u \in Members : u # handler[h].who =>
           held'[u] = held[u] /\ cache'[u] = cache[u] /\ news'[u] = news[u],
         k.at # "idle" /\ k.alone => Kept(k, held'[k.who], cache'[k.who], news'[k.who])
  PROVE  MemberInv'
<1>1. handler \in [Handlers -> Handler] /\ handler' \in [Handlers -> Handler]
  BY DEF MemberInv
<1>2. \A g \in Handlers : handler'[g] = IF g = h THEN k ELSE handler[g] BY <1>1
<1>3. \A g \in Handlers : HandlerOK(handler[g])' BY <1>2 DEF MemberInv, HandlerOK
<1>4. ASSUME NEW g \in Handlers, handler'[g].at # "idle", handler'[g].alone
      PROVE  /\ \A f \in Handlers : handler'[f].who = handler'[g].who => f = g
             /\ Kept(handler'[g], held'[handler'[g].who], cache'[handler'[g].who],
                     news'[handler'[g].who])
  <2>1. CASE g = h
    <3>1. handler'[g] = k BY <1>2, <2>1
    <3>2. k.who # None /\ k.who = handler[h].who /\ handler[h].alone
      BY <1>4, <3>1 DEF HandlerOK
    <3>3. handler[h].at # "idle" BY <3>2 DEF MemberInv, HandlerOK
    <3>4. \A f \in Handlers : handler[f].who = k.who => f = h
      BY <3>2, <3>3 DEF MemberInv, AloneHandler
    <3> QED BY <1>2, <1>4, <2>1, <3>1, <3>4
  <2>2. CASE g # h
    <3>1. handler'[g] = handler[g] BY <1>2, <2>2
    <3> DEFINE u == handler[g].who
    <3>2. /\ u \in Members /\ u # None
          /\ \A f \in Handlers : handler[f].who = u => f = g
          /\ Kept(handler[g], held[u], cache[u], news[u])
      <4>1. handler[g] \in Handler /\ HandlerOK(handler[g]) /\ AloneHandler(g)
        BY DEF MemberInv
      <4>2. u # None BY <1>4, <3>1, <4>1 DEF HandlerOK
      <4> QED BY <1>4, <3>1, <4>1, <4>2, HandlerFields DEF AloneHandler
    <3>3. u # handler[h].who BY <2>2, <3>2
    <3> HIDE DEF u
    <3>4. held'[u] = held[u] /\ cache'[u] = cache[u] /\ news'[u] = news[u] BY <3>2, <3>3
    <3>5. handler'[g].who = u BY <3>1 DEF u
    <3> QED BY <1>2, <3>1, <3>2, <3>3, <3>4, <3>5
  <2> QED BY <2>1, <2>2
<1>5. \A g \in Handlers : AloneHandler(g)' BY <1>4 DEF AloneHandler
<1> QED BY <1>1, <1>3, <1>5 DEF MemberInv

LEMMA HandlerRests ==
  ASSUME MemberInv, NEW h \in Handlers, Rests(h), UNCHANGED <<held, cache, news>>,
         reacted' \subseteq Members \X Messages \X Emojis
  PROVE  MemberInv'
<1>1. Tally' /\ Latest' BY DEF MemberInv, Tally, Latest
<1>2. handler' = [handler EXCEPT ![h] = Resting] BY DEF Rests
<1> QED BY <1>1, <1>2, RestingIs, HandlerMoves

\* The handler, its member and its menu.
LEMMA Handling ==
  ASSUME MemberInv, NEW h \in Handlers, handler[h].at # "idle"
  PROVE  /\ handler[h] \in Handler /\ HandlerOK(handler[h]) /\ handler[h].who \in Members
         /\ handler[h].menu \in Messages
         /\ handler[h].alone =>
              Kept(handler[h], held[handler[h].who], cache[handler[h].who], news[handler[h].who])
         /\ handler[h].at \in {"strip", "drop", "done"} =>
              handler[h].row \in Rows /\ handler[h].role \in Roles
              /\ handler[h].row.mappings \in Seq(Mappings)
<1>1. handler[h] \in Handler /\ HandlerOK(handler[h]) /\ AloneHandler(h) BY DEF MemberInv
<1>2. handler[h].who \in Members /\ handler[h].menu \in Messages
  BY <1>1, HandlerFields DEF HandlerOK
<1>3. handler[h].at \in {"strip", "drop", "done"} =>
        handler[h].row \in Rows /\ handler[h].role \in Roles /\ handler[h].row.mappings \in Seq(Mappings)
  <2> SUFFICES ASSUME handler[h].at \in {"strip", "drop", "done"}
               PROVE  handler[h].row \in Rows /\ handler[h].role \in Roles
                      /\ handler[h].row.mappings \in Seq(Mappings)
    OBVIOUS
  <2>1. handler[h].row \in Rows /\ handler[h].role \in RolesOf(handler[h].row.mappings)
    BY <1>1, HandlerFields DEF HandlerOK
  <2>2. handler[h].row.mappings \in Seq(Mappings) BY <2>1, RowFields
  <2> QED BY <2>1, <2>2, ListsShow
<1> QED BY <1>1, <1>2, <1>3 DEF AloneHandler

LEMMA AppendLast ==
  ASSUME NEW S, NEW seq \in Seq(S), NEW x \in S
  PROVE  Append(seq, x) # <<>> /\ Append(seq, x)[Len(Append(seq, x))] = x
OBVIOUS

\* A call of Discord: what the member has, and the news of it.
LEMMA SetHeldStep ==
  ASSUME MemberInv, NEW u \in Members, NEW new \in SUBSET Roles, SetHeld(u, new),
         UNCHANGED cache, reacted' \subseteq Members \X Messages \X Emojis
  PROVE  /\ Tally' /\ Latest' /\ held'[u] = new
         /\ \A v \in Members : v # u =>
              held'[v] = held[v] /\ cache'[v] = cache[v] /\ news'[v] = news[v]
         /\ \A set : /\ \A i \in DOMAIN news[u] : set \subseteq news[u][i]
                     /\ set \subseteq new
                     => \A i \in DOMAIN news'[u] : set \subseteq news'[u][i]
<1>1. Tally /\ Latest BY DEF MemberInv
<1>2. /\ held' = [held EXCEPT ![u] = new]
      /\ news' = [news EXCEPT ![u] = IF new = held[u] THEN news[u] ELSE Append(news[u], new)]
  BY DEF SetHeld
<1>3. /\ held \in [Members -> SUBSET Roles] /\ news \in [Members -> Seq(SUBSET Roles)]
      /\ news[u] \in Seq(SUBSET Roles) /\ cache \in [Members -> SUBSET Roles]
  BY <1>1 DEF Tally
<1>4. /\ held' \in [Members -> SUBSET Roles] /\ news' \in [Members -> Seq(SUBSET Roles)]
  <2>1. (IF new = held[u] THEN news[u] ELSE Append(news[u], new)) \in Seq(SUBSET Roles)
    BY <1>3
  <2> QED BY <1>2, <1>3, <2>1
<1>5. held'[u] = new /\ news'[u] = (IF new = held[u] THEN news[u] ELSE Append(news[u], new))
      /\ \A v \in Members : v # u => held'[v] = held[v] /\ news'[v] = news[v]
  BY <1>2, <1>3
<1>6. Tally' BY <1>1, <1>4 DEF Tally
<1>7. Latest'
  <2>1. ASSUME NEW v \in Members
        PROVE  IF news'[v] = <<>> THEN cache'[v] = held'[v] ELSE news'[v][Len(news'[v])] = held'[v]
    <3>1. CASE v # u BY <1>1, <1>5, <3>1 DEF Latest
    <3>2. CASE v = u /\ new = held[u] BY <1>1, <1>5, <3>2 DEF Latest
    <3>3. CASE v = u /\ new # held[u]
      <4>1. news'[u] = Append(news[u], new) BY <1>5, <3>3
      <4>2. Append(news[u], new) # <<>>
            /\ Append(news[u], new)[Len(Append(news[u], new))] = new
        BY <1>3, AppendLast
      <4> QED BY <1>5, <3>3, <4>1, <4>2
    <3> QED BY <3>1, <3>2, <3>3
  <2> QED BY <2>1 DEF Latest
<1>8. ASSUME NEW set, \A i \in DOMAIN news[u] : set \subseteq news[u][i], set \subseteq new
      PROVE  \A i \in DOMAIN news'[u] : set \subseteq news'[u][i]
  <2>1. CASE new = held[u] BY <1>5, <1>8, <2>1
  <2>2. CASE new # held[u]
    <3>1. news'[u] = Append(news[u], new) BY <1>5, <2>2
    <3>2. \A i \in DOMAIN news'[u] : news'[u][i] = new \/ (i \in DOMAIN news[u] /\ news'[u][i] = news[u][i])
      BY <1>3, <3>1
    <3> QED BY <1>8, <3>2
  <2> QED BY <2>1, <2>2
<1> QED BY <1>5, <1>6, <1>7, <1>8

LEMMA ReadMenuStep ==
  ASSUME SetupInv, MemberInv, NEW h \in Handlers, ReadMenu(h)
  PROVE  MemberInv'
<1> DEFINE row == rows[handler[h].menu]
           found == IF row = None THEN {} ELSE Answering(h, row.mappings)
           role == row.mappings[CHOOSE i \in found : TRUE].role
           at == IF Gives(h, role) THEN "strip" ELSE "drop"
           k == [handler[h] EXCEPT !.at = at, !.role = role, !.row = row]
<1>1. handler[h].at = "read" /\ UNCHANGED <<held, cache, news, reacted>>
  BY DEF ReadMenu, HandlerAt
<1>2. Tally' /\ Latest' BY <1>1 DEF MemberInv, Tally, Latest
<1>3. CASE found = {}
  <2>1. Rests(h) BY <1>3 DEF ReadMenu
  <2> QED BY <1>1, <1>2, <2>1, HandlerRests DEF Tally
<1>4. CASE found # {}
  <2>1. handler' = [handler EXCEPT ![h] = k]
    <3>1. handler' = [handler EXCEPT ![h].at = at, ![h].role = role, ![h].row = row]
      BY <1>4 DEF ReadMenu
    <3>2. handler \in [Handlers -> Handler] BY DEF MemberInv
    <3> HIDE DEF at, role, row
    <3> QED BY <3>1, <3>2
  <2>2. /\ handler[h] \in Handler /\ handler[h].who \in Members /\ handler[h].menu \in Messages
        /\ handler[h].i = 0 /\ HandlerOK(handler[h])
        /\ handler[h].alone =>
             Kept(handler[h], held[handler[h].who], cache[handler[h].who], news[handler[h].who])
    BY <1>1, Handling DEF HandlerOK
  <2>3. row \in Rows /\ row # None /\ row.mappings \in Seq(Mappings)
    BY <1>4, <2>2, Numbers, RowFields
  <2>4. role \in RolesOf(row.mappings)
    <3>1. (CHOOSE i \in found : TRUE) \in DOMAIN row.mappings BY <1>4 DEF Answering
    <3> QED BY <3>1 DEF RolesOf
  <2>5. role \in Roles BY <2>3, <2>4, ListsShow
  <2>6. /\ at \in {"strip", "drop"}
        /\ at = "strip" => handler[h].kind # "remove"
        /\ at = "drop" => handler[h].kind # "add"
    BY DEF Gives
  <2> HIDE DEF at, role, row, found
  <2>7. /\ k \in Handler /\ k.at = at /\ k.role = role /\ k.row = row /\ k.i = 0
        /\ k.kind = handler[h].kind /\ k.who = handler[h].who /\ k.menu = handler[h].menu
        /\ k.alone = handler[h].alone
    BY <2>2, <2>3, <2>5, <2>6 DEF Handler
  <2> HIDE DEF k
  <2>8. HandlerOK(k)
    BY <1>1, <2>2, <2>3, <2>4, <2>6, <2>7 DEF HandlerOK
  <2>9. k.alone => Kept(k, held'[k.who], cache'[k.who], news'[k.who])
    <3> SUFFICES ASSUME k.alone PROVE Kept(k, held'[k.who], cache'[k.who], news'[k.who])
      OBVIOUS
    <3> DEFINE u == handler[h].who
    <3>1. news[u] = <<>> BY <1>1, <2>2, <2>7 DEF Kept
    <3>2. cache[u] = held[u] BY <2>2, <3>1 DEF MemberInv, Latest
    <3> HIDE DEF u
    <3>3. k.who = u BY <2>7 DEF u
    <3>4. \A j \in DOMAIN row.mappings : ~(j <= 0) BY <2>3
    <3> QED BY <1>1, <2>6, <2>7, <3>1, <3>2, <3>3, <3>4 DEF Kept
  <2>10. \A u \in Members : held'[u] = held[u] /\ cache'[u] = cache[u] /\ news'[u] = news[u]
    BY <1>1
  <2> QED BY <1>2, <2>1, <2>7, <2>8, <2>9, <2>10, HandlerMoves
<1> QED BY <1>3, <1>4

LEMMA RoleAt ==
  ASSUME NEW list \in Seq(Mappings), NEW r
  PROVE  /\ r \in RolesOf(list) <=> \E j \in DOMAIN list : list[j].role = r
         /\ \A j \in DOMAIN list : list[j].role \in Roles /\ j \in Nat \ {0}
<1>1. \A j \in DOMAIN list : list[j] \in Mappings /\ j \in Nat \ {0} OBVIOUS
<1> QED BY <1>1 DEF RolesOf, Roles

LEMMA StripOtherStep ==
  ASSUME MemberInv, NEW h \in Handlers, StripOther(h)
  PROVE  MemberInv'
<1> DEFINE u == handler[h].who
           list == handler[h].row.mappings
<1>1. handler[h].at = "strip" /\ UNCHANGED <<cache, reacted>> BY DEF StripOther, HandlerAt
<1>2. PICK i \in Others(h) :
        /\ \A j \in Others(h) : i <= j
        /\ SetHeld(u, held[u] \ {list[i].role})
        /\ handler' = [handler EXCEPT ![h].i = i]
  BY DEF StripOther
<1>3. /\ handler[h] \in Handler /\ u \in Members /\ HandlerOK(handler[h])
      /\ list \in Seq(Mappings) /\ handler[h].i \in Nat
      /\ handler[h].alone => Kept(handler[h], held[u], cache[u], news[u])
  BY <1>1, Handling, HandlerFields
<1>4. i \in DOMAIN list /\ i \in Nat /\ i > handler[h].i
      /\ \A j \in DOMAIN list : j > handler[h].i /\ list[j].role # handler[h].role
                                  /\ list[j].role \in cache[u] => i <= j
  <2>1. i \in DOMAIN list /\ i > handler[h].i BY DEF Others
  <2>2. i \in Nat BY <1>3, <2>1, RoleAt
  <2>3. \A j \in DOMAIN list : j > handler[h].i /\ list[j].role # handler[h].role
                                 /\ list[j].role \in cache[u] => j \in Others(h)
    BY DEF Others
  <2> QED BY <1>2, <2>1, <2>2, <2>3
<1> DEFINE k == [handler[h] EXCEPT !.i = i]
           new == held[u] \ {list[i].role}
<1>5. /\ k \in Handler /\ k.i = i /\ k.at = "strip" /\ k.role = handler[h].role
      /\ k.row = handler[h].row /\ k.kind = handler[h].kind /\ k.who = u
      /\ k.menu = handler[h].menu /\ k.alone = handler[h].alone
  BY <1>1, <1>3, <1>4 DEF Handler
<1>6. handler' = [handler EXCEPT ![h] = k] BY <1>2 DEF MemberInv
<1> HIDE DEF k
<1>7. HandlerOK(k) BY <1>1, <1>3, <1>5 DEF HandlerOK
<1>8. new \in SUBSET Roles /\ new \subseteq held[u] BY <1>3 DEF MemberInv, Tally
<1>9. SetHeld(u, new) BY <1>2
<1> HIDE DEF new, u, list
<1>10. /\ Tally' /\ Latest' /\ held'[u] = new
       /\ \A v \in Members : v # u => held'[v] = held[v] /\ cache'[v] = cache[v] /\ news'[v] = news[v]
       /\ (\A j \in DOMAIN news[u] : new \subseteq news[u][j])
            => \A j \in DOMAIN news'[u] : new \subseteq news'[u][j]
  <2>1. reacted' \subseteq Members \X Messages \X Emojis BY <1>1 DEF MemberInv, Tally
  <2> QED BY <1>1, <1>3, <1>8, <1>9, <2>1, SetHeldStep
<1>11. k.alone => Kept(k, held'[k.who], cache'[k.who], news'[k.who])
  <2> SUFFICES ASSUME k.alone PROVE Kept(k, new, cache[u], news'[u])
    BY <1>1, <1>5, <1>10
  <2>1. /\ held[u] \subseteq cache[u] /\ \A j \in DOMAIN news[u] : held[u] \subseteq news[u][j]
        /\ \A j \in DOMAIN list : j <= handler[h].i /\ list[j].role # handler[h].role =>
             list[j].role \notin held[u]
    BY <1>1, <1>3, <1>5 DEF Kept, list
  <2>2. ASSUME NEW j \in DOMAIN list, j <= i, list[j].role # handler[h].role
        PROVE  list[j].role \notin new
    <3>1. j \in Nat BY <1>3, RoleAt
    <3>2. CASE j <= handler[h].i BY <1>8, <2>1, <2>2, <3>2
    <3>3. CASE j = i BY <3>3 DEF new
    <3>4. CASE j > handler[h].i /\ j # i
      <4>1. list[j].role \notin cache[u] BY <1>4, <2>2, <3>1, <3>4
      <4> QED BY <1>8, <2>1, <4>1
    <3> QED BY <1>3, <3>1, <3>2, <3>3, <3>4
  <2>3. new \subseteq cache[u] /\ \A j \in DOMAIN news'[u] : new \subseteq news'[u][j]
    BY <1>8, <1>10, <2>1
  <2> QED BY <1>5, <2>2, <2>3 DEF Kept, list
<1> QED BY <1>3, <1>5, <1>6, <1>7, <1>10, <1>11, HandlerMoves DEF u

LEMMA DoneStep ==
  ASSUME MemberInv, NEW h \in Handlers, handler[h].at \in {"strip", "drop"},
         handler' = [handler EXCEPT ![h].at = "done"], UNCHANGED <<cache, reacted>>,
         NEW new \in SUBSET Roles,
         \/ SetHeld(handler[h].who, new)
         \/ new = held[handler[h].who] /\ UNCHANGED <<held, news>>,
         handler[h].alone =>
           IF handler[h].role \in new
             THEN /\ handler[h].kind # "remove"
                  /\ handler[h].row.mode = "unique" =>
                       new \cap RolesOf(handler[h].row.mappings) = {handler[h].role}
             ELSE handler[h].kind # "add"
  PROVE  MemberInv'
<1> DEFINE u == handler[h].who
           k == [handler[h] EXCEPT !.at = "done"]
<1>1. handler[h] \in Handler /\ u \in Members /\ HandlerOK(handler[h]) BY Handling
<1>2. /\ k \in Handler /\ k.i = handler[h].i /\ k.at = "done" /\ k.role = handler[h].role
      /\ k.row = handler[h].row /\ k.kind = handler[h].kind /\ k.who = u
      /\ k.menu = handler[h].menu /\ k.alone = handler[h].alone
  BY <1>1 DEF Handler
<1>3. handler' = [handler EXCEPT ![h] = k] BY DEF MemberInv
<1> HIDE DEF k
<1>4. HandlerOK(k) BY <1>1, <1>2 DEF HandlerOK
<1>5. /\ Tally' /\ Latest' /\ held'[u] = new
      /\ \A v \in Members : v # u => held'[v] = held[v] /\ cache'[v] = cache[v] /\ news'[v] = news[v]
  <2>1. reacted' \subseteq Members \X Messages \X Emojis BY DEF MemberInv, Tally
  <2>2. CASE SetHeld(u, new) BY <1>1, <2>1, <2>2, SetHeldStep
  <2>3. CASE new = held[u] /\ UNCHANGED <<held, news>>
    BY <2>3 DEF MemberInv, Tally, Latest
  <2> QED BY <2>2, <2>3
<1>6. k.alone => Kept(k, held'[k.who], cache'[k.who], news'[k.who])
  BY <1>2, <1>5 DEF Kept
<1> QED BY <1>2, <1>3, <1>4, <1>5, <1>6, HandlerMoves

LEMMA GiveRoleStep ==
  ASSUME MemberInv, NEW h \in Handlers, GiveRole(h)
  PROVE  MemberInv'
<1> DEFINE u == handler[h].who
           list == handler[h].row.mappings
           r == handler[h].role
           new == held[u] \cup {r}
<1>1. /\ handler[h].at = "strip" /\ handler' = [handler EXCEPT ![h].at = "done"]
      /\ handler[h].row.mode = "unique" => Others(h) = {}
      /\ SetHeld(u, new) /\ UNCHANGED <<cache, reacted>>
  BY DEF GiveRole, HandlerAt
<1>2. /\ u \in Members /\ r \in Roles /\ HandlerOK(handler[h]) /\ list \in Seq(Mappings)
      /\ handler[h].i \in Nat
      /\ handler[h].alone => Kept(handler[h], held[u], cache[u], news[u])
  BY <1>1, Handling, HandlerFields
<1>3. new \in SUBSET Roles BY <1>2 DEF MemberInv, Tally
<1>4. r \in RolesOf(list) /\ handler[h].kind # "remove" BY <1>1, <1>2 DEF HandlerOK
<1>5. ASSUME handler[h].alone, handler[h].row.mode = "unique"
      PROVE  new \cap RolesOf(list) = {r}
  <2>1. /\ held[u] \subseteq cache[u]
        /\ \A j \in DOMAIN list : j <= handler[h].i /\ list[j].role # r => list[j].role \notin held[u]
    BY <1>1, <1>2, <1>5 DEF Kept
  <2>2. \A j \in DOMAIN list : j > handler[h].i /\ list[j].role # r => list[j].role \notin cache[u]
    BY <1>1, <1>5 DEF Others
  <2>3. \A j \in DOMAIN list : list[j].role # r => list[j].role \notin held[u]
    BY <1>2, <2>1, <2>2, RoleAt
  <2> HIDE DEF list
  <2> QED BY <1>2, <1>4, <2>3, RoleAt
<1> QED BY <1>1, <1>3, <1>4, <1>5, DoneStep

LEMMA DropRoleStep ==
  ASSUME MemberInv, NEW h \in Handlers, DropRole(h)
  PROVE  MemberInv'
<1> DEFINE u == handler[h].who
           r == handler[h].role
           new == IF r \in cache[u] THEN held[u] \ {r} ELSE held[u]
<1>1. /\ handler[h].at = "drop" /\ handler' = [handler EXCEPT ![h].at = "done"]
      /\ UNCHANGED <<cache, reacted>>
      /\ SetHeld(u, new) \/ (new = held[u] /\ UNCHANGED <<held, news>>)
  BY DEF DropRole, HandlerAt
<1>2. /\ u \in Members /\ HandlerOK(handler[h])
      /\ handler[h].alone => Kept(handler[h], held[u], cache[u], news[u])
  BY <1>1, Handling
<1>3. new \in SUBSET Roles BY <1>2 DEF MemberInv, Tally
<1>4. handler[h].kind # "add" BY <1>1, <1>2 DEF HandlerOK
<1>5. handler[h].alone => r \notin new
  <2>1. handler[h].alone => news[u] = <<>> BY <1>1, <1>2 DEF Kept
  <2>2. handler[h].alone => cache[u] = held[u] BY <1>2, <2>1 DEF MemberInv, Latest
  <2> QED BY <2>2
<1> HIDE DEF new
<1> QED BY <1>1, <1>3, <1>4, <1>5, DoneStep

LEMMA CallFailsStep ==
  ASSUME MemberInv, NEW h \in Handlers, CallFails(h)
  PROVE  MemberInv'
<1> DEFINE u == handler[h].who
           reaction == <<u, handler[h].menu, handler[h].emoji>>
           quiet == handler[h].alone /\ news[u] = <<>>
           k == [handler[h] EXCEPT !.at = "read", !.kind = "remove", !.role = None, !.row = None,
                   !.i = 0, !.alone = quiet]
<1>1. /\ handler[h].at \in {"strip", "drop"} /\ UNCHANGED <<held, cache, news>>
      /\ \/ Rests(h) /\ UNCHANGED reacted
         \/ /\ reacted' = reacted \ {reaction}
            /\ handler' = [handler EXCEPT ![h] = k]
  BY DEF CallFails, MemberInv
<1>2. reacted' \subseteq Members \X Messages \X Emojis BY <1>1 DEF MemberInv, Tally
<1>3. CASE Rests(h) BY <1>1, <1>2, <1>3, HandlerRests
<1>4. CASE handler' = [handler EXCEPT ![h] = k]
  <2>1. handler[h] \in Handler /\ u \in Members /\ HandlerOK(handler[h]) BY <1>1, Handling
  <2>2. ASSUME NEW b \in BOOLEAN
        PROVE  LET j == [handler[h] EXCEPT !.at = "read", !.kind = "remove", !.role = None,
                           !.row = None, !.i = 0, !.alone = b]
               IN /\ j \in Handler /\ j.at = "read" /\ j.i = 0 /\ j.who = u
                  /\ j.menu = handler[h].menu /\ (j.alone <=> b)
    BY <2>1 DEF Handler
  <2>3. quiet \in BOOLEAN BY <2>1, HandlerFields
  <2> HIDE DEF quiet
  <2>4. /\ k \in Handler /\ k.at = "read" /\ k.i = 0 /\ k.who = u /\ k.menu = handler[h].menu
        /\ (k.alone <=> quiet)
    BY <2>2, <2>3
  <2> HIDE DEF k
  <2>5. HandlerOK(k) BY <1>1, <2>1, <2>4 DEF HandlerOK
  <2>6. Tally' /\ Latest' BY <1>1, <1>2 DEF MemberInv, Tally, Latest
  <2>7. k.alone => Kept(k, held'[k.who], cache'[k.who], news'[k.who])
    BY <1>1, <2>4 DEF Kept, quiet
  <2>8. k.alone => handler[h].alone BY <2>4 DEF quiet
  <2> QED BY <1>1, <1>4, <2>4, <2>5, <2>6, <2>7, <2>8, HandlerMoves
<1> QED BY <1>1, <1>3, <1>4

LEMMA EventStep ==
  ASSUME MemberInv, NEW h \in Handlers, NEW event \in Handler, event.at = "read", event.i = 0,
         event.who \in Members, event.menu \in Messages, Event(h, event),
         reacted' \subseteq Members \X Messages \X Emojis
  PROVE  MemberInv'
<1> DEFINE u == event.who
           quiet == Quiet(u)
           k == [event EXCEPT !.alone = quiet]
<1>1. /\ handler[h].at = "idle" /\ handler' = [Disturb(u) EXCEPT ![h] = k]
      /\ UNCHANGED <<held, cache, news>>
  BY DEF Event, HandlerAt
<1>2. quiet \in BOOLEAN /\ (quiet <=> (news[u] = <<>> /\ \A g \in Handlers : handler[g].who # u))
  BY DEF Quiet
<1> HIDE DEF quiet
<1>3. /\ k \in Handler /\ k.at = "read" /\ k.i = 0 /\ k.who = u /\ k.menu = event.menu
      /\ (k.alone <=> quiet)
  BY <1>2 DEF Handler
<1> HIDE DEF k
<1>4. HandlerOK(k) BY <1>3, MembersAssumption, NoMessage DEF HandlerOK
<1>5. ASSUME NEW g \in Handlers, g # h
      PROVE  /\ handler'[g] = IF handler[g].who = u THEN [handler[g] EXCEPT !.alone = FALSE]
                              ELSE handler[g]
             /\ handler'[g] \in Handler /\ HandlerOK(handler'[g])
             /\ handler'[g].who = handler[g].who
             /\ handler'[g].alone => handler'[g] = handler[g] /\ handler[g].who # u
  <2>1. handler'[g] = IF handler[g].who = u THEN [handler[g] EXCEPT !.alone = FALSE]
                      ELSE handler[g]
    BY <1>1, <1>5 DEF Disturb
  <2>2. handler[g] \in Handler /\ HandlerOK(handler[g]) BY DEF MemberInv
  <2> DEFINE j == [handler[g] EXCEPT !.alone = FALSE]
  <2>3. /\ j \in Handler /\ j.at = handler[g].at /\ j.who = handler[g].who /\ ~j.alone
        /\ j.menu = handler[g].menu /\ j.row = handler[g].row /\ j.role = handler[g].role
        /\ j.kind = handler[g].kind /\ j.i = handler[g].i
    BY <2>2 DEF Handler
  <2> HIDE DEF j
  <2>4. HandlerOK(j) BY <2>2, <2>3 DEF HandlerOK
  <2> QED BY <2>1, <2>2, <2>3, <2>4 DEF j
<1>6. handler'[h] = k BY <1>1 DEF Disturb
<1>7. handler' \in [Handlers -> Handler]
  <2>1. handler' = [g \in Handlers |-> handler'[g]] BY <1>1 DEF Disturb
  <2> QED BY <1>3, <1>5, <1>6, <2>1
<1>8. ASSUME NEW g \in Handlers, handler'[g].at # "idle", handler'[g].alone
      PROVE  /\ \A f \in Handlers : handler'[f].who = handler'[g].who => f = g
             /\ Kept(handler'[g], held'[handler'[g].who], cache'[handler'[g].who],
                     news'[handler'[g].who])
  <2>1. CASE g = h
    <3>1. quiet BY <1>3, <1>6, <1>8, <2>1
    <3>2. \A f \in Handlers : f # h => handler'[f].who # u BY <1>2, <1>5, <3>1
    <3>3. Kept(k, held'[u], cache'[u], news'[u]) BY <1>1, <1>2, <1>3, <3>1 DEF Kept
    <3> QED BY <1>3, <1>6, <2>1, <3>2, <3>3
  <2>2. CASE g # h
    <3>1. handler'[g] = handler[g] /\ handler[g].who # u BY <1>5, <1>8, <2>2
    <3>2. /\ \A f \in Handlers : handler[f].who = handler[g].who => f = g
          /\ Kept(handler[g], held[handler[g].who], cache[handler[g].who], news[handler[g].who])
      BY <1>8, <3>1 DEF MemberInv, AloneHandler
    <3>3. \A f \in Handlers : handler'[f].who = handler[g].who => f = g
      BY <1>3, <1>5, <1>6, <3>1, <3>2
    <3> QED BY <1>1, <3>1, <3>2, <3>3
  <2> QED BY <2>1, <2>2
<1>9. \A g \in Handlers : AloneHandler(g)' BY <1>8 DEF AloneHandler
<1>10. \A g \in Handlers : HandlerOK(handler[g])' BY <1>4, <1>5, <1>6 DEF HandlerOK
<1>11. Tally' /\ Latest' BY <1>1 DEF MemberInv, Tally, Latest
<1> QED BY <1>7, <1>9, <1>10, <1>11 DEF MemberInv

LEMMA ReactionStep ==
  ASSUME MemberInv, NEW h \in Handlers, NEW u \in Members, NEW m \in Messages,
         \/ \E e \in Emojis : React(h, u, m, e) \/ Unreact(h, u, m, e)
         \/ \E r \in Roles : Press(h, u, m, r)
  PROVE  MemberInv'
<1>1. reacted \subseteq Members \X Messages \X Emojis BY DEF MemberInv, Tally
<1>2. ASSUME NEW e \in Emojis, NEW kind \in {"add", "remove"},
             Event(h, [Resting EXCEPT !.at = "read", !.kind = kind, !.who = u, !.menu = m, !.emoji = e]),
             reacted' \subseteq reacted \cup {<<u, m, e>>}
      PROVE  MemberInv'
  <2> DEFINE event == [Resting EXCEPT !.at = "read", !.kind = kind, !.who = u, !.menu = m,
                         !.emoji = e]
  <2>1. /\ event \in Handler /\ event.at = "read" /\ event.i = 0 /\ event.who = u
        /\ event.menu = m
    <3>1. Resting \in Handler /\ Resting.i = 0 BY RestingIs
    <3> QED BY <3>1 DEF Handler
  <2>2. reacted' \subseteq Members \X Messages \X Emojis BY <1>1, <1>2
  <2> HIDE DEF event
  <2> QED BY <1>2, <2>1, <2>2, EventStep DEF event
<1>3. ASSUME NEW r \in Roles, Press(h, u, m, r)
      PROVE  MemberInv'
  <2> DEFINE event == [Resting EXCEPT !.at = "read", !.kind = "press", !.who = u, !.menu = m,
                         !.role = r]
  <2>1. /\ event \in Handler /\ event.at = "read" /\ event.i = 0 /\ event.who = u
        /\ event.menu = m
    <3>1. Resting \in Handler /\ Resting.i = 0 BY RestingIs
    <3> QED BY <3>1 DEF Handler
  <2>2. Event(h, event) /\ UNCHANGED reacted BY <1>3 DEF Press
  <2> HIDE DEF event
  <2> QED BY <1>1, <2>1, <2>2, EventStep
<1>4. ASSUME NEW e \in Emojis, React(h, u, m, e) \/ Unreact(h, u, m, e)
      PROVE  MemberInv'
  <2>1. reacted' \subseteq reacted \cup {<<u, m, e>>} BY <1>4 DEF React, Unreact
  <2>2. CASE React(h, u, m, e) BY <1>2, <2>1, <2>2 DEF React
  <2>3. CASE Unreact(h, u, m, e) BY <1>2, <2>1, <2>3 DEF Unreact
  <2> QED BY <1>4, <2>2, <2>3
<1> QED BY <1>3, <1>4

\* A sequence that is not empty has a last member.
LEMMA LastIndex ==
  ASSUME NEW S, NEW seq \in Seq(S), Len(seq) # 0
  PROVE  seq # <<>> /\ Len(seq) \in DOMAIN seq
OBVIOUS

LEMMA MemberUpdateStep ==
  ASSUME MemberInv, NEW u \in Members, MemberUpdate(u)
  PROVE  MemberInv'
<1>1. /\ news[u] # <<>> /\ cache' = [cache EXCEPT ![u] = Head(news[u])]
      /\ news' = [news EXCEPT ![u] = Tail(news[u])] /\ UNCHANGED <<held, reacted, handler>>
  BY DEF MemberUpdate
<1>2. /\ cache \in [Members -> SUBSET Roles] /\ news \in [Members -> Seq(SUBSET Roles)]
      /\ news[u] \in Seq(SUBSET Roles) /\ Latest /\ Tally
  BY DEF MemberInv, Tally
<1>3. /\ Head(news[u]) \in SUBSET Roles /\ Tail(news[u]) \in Seq(SUBSET Roles)
      /\ Len(news[u]) \in Nat \ {0} /\ Head(news[u]) = news[u][1]
      /\ Len(Tail(news[u])) = Len(news[u]) - 1
      /\ \A i \in DOMAIN Tail(news[u]) : i + 1 \in DOMAIN news[u] /\ Tail(news[u])[i] = news[u][i + 1]
  BY <1>1, <1>2
<1>4. /\ cache'[u] = news[u][1] /\ news'[u] = Tail(news[u])
      /\ \A v \in Members : v # u => cache'[v] = cache[v] /\ news'[v] = news[v]
  BY <1>1, <1>2, <1>3
<1>5. Tally' BY <1>1, <1>2, <1>3 DEF Tally
<1>6. Latest'
  <2>1. news[u][Len(news[u])] = held[u] BY <1>1, <1>2 DEF Latest
  <2>2. CASE Len(news[u]) = 1
    <3>1. Tail(news[u]) = <<>> BY <1>3, <2>2
    <3> QED BY <1>1, <1>2, <1>4, <2>1, <2>2, <3>1 DEF Latest
  <2>3. CASE Len(news[u]) # 1
    <3>1. Tail(news[u]) # <<>> /\ Len(Tail(news[u])) \in DOMAIN Tail(news[u])
      <4>1. Len(Tail(news[u])) # 0 BY <1>3, <2>3
      <4> QED BY <1>3, <4>1, LastIndex
    <3>2. Tail(news[u])[Len(Tail(news[u]))] = held[u] BY <1>3, <2>1, <2>3, <3>1
    <3> QED BY <1>1, <1>2, <1>4, <3>1, <3>2 DEF Latest
  <2> QED BY <2>2, <2>3
<1>7. ASSUME NEW h \in Handlers, handler[h].at # "idle", handler[h].alone
      PROVE  Kept(handler[h], held'[handler[h].who], cache'[handler[h].who], news'[handler[h].who])
  <2>1. Kept(handler[h], held[handler[h].who], cache[handler[h].who], news[handler[h].who])
        /\ handler[h].who \in Members
    BY <1>7, Handling
  <2>2. CASE handler[h].who # u BY <1>1, <1>4, <2>1, <2>2
  <2>3. CASE handler[h].who = u
    <3>1. handler[h].at \notin {"read", "drop"} BY <1>1, <2>1, <2>3 DEF Kept
    <3>2. ASSUME handler[h].at = "strip"
          PROVE  /\ held[u] \subseteq cache'[u]
                 /\ \A i \in DOMAIN news'[u] : held[u] \subseteq news'[u][i]
      <4>1. \A i \in DOMAIN news[u] : held[u] \subseteq news[u][i]
        BY <2>1, <2>3, <3>2 DEF Kept
      <4>2. 1 \in DOMAIN news[u] BY <1>3
      <4> QED BY <1>3, <1>4, <4>1, <4>2
    <3> QED BY <1>1, <2>1, <2>3, <3>1, <3>2 DEF Kept
  <2> QED BY <2>2, <2>3
<1>8. \A h \in Handlers : HandlerOK(handler[h])' /\ AloneHandler(h)'
  <2>1. \A h \in Handlers : HandlerOK(handler[h])' BY <1>1 DEF MemberInv, HandlerOK
  <2>2. \A h \in Handlers : AloneHandler(h)' BY <1>1, <1>7 DEF MemberInv, AloneHandler
  <2> QED BY <2>1, <2>2
<1> QED BY <1>1, <1>5, <1>6, <1>8 DEF MemberInv

-----------------------------------------------------------------------------
(* The theorems.                                                           *)

Inv == MenusInv /\ MemberInv

LEMMA Initially == Init => Inv
<1> SUFFICES ASSUME Init PROVE Inv OBVIOUS
<1>1. MenusInv BY MenusInitially DEF Init
<1>2. /\ held = [u \in Members |-> {}] /\ cache = held /\ news = [u \in Members |-> <<>>]
      /\ reacted = {} /\ handler = [h \in Handlers |-> Resting]
  BY DEF Init
<1>3. Tally
  <2>1. {} \in SUBSET Roles /\ <<>> \in Seq(SUBSET Roles) OBVIOUS
  <2> QED BY <1>2, <2>1 DEF Tally
<1>4. Latest BY <1>2 DEF Latest
<1>5. \A h \in Handlers : handler[h] = Resting /\ HandlerOK(handler[h]) /\ AloneHandler(h)
  BY <1>2, RestingIs DEF AloneHandler
<1>6. handler \in [Handlers -> Handler] BY <1>2, RestingIs
<1> QED BY <1>1, <1>3, <1>4, <1>5, <1>6 DEF Inv, MemberInv

LEMMA NextStep == Inv /\ [Next]_vars => Inv'
<1> SUFFICES ASSUME MenusInv, MemberInv, [Next]_vars PROVE MenusInv' /\ MemberInv'
  BY DEF Inv
<1>1. SetupInv BY DEF MenusInv
<1>2. ASSUME UNCHANGED memberVars PROVE MemberInv'
  BY <1>2 DEF memberVars, MemberInv, Tally, Latest, HandlerOK, AloneHandler
<1>3. CASE SetupNext /\ UNCHANGED memberVars BY <1>2, <1>3, MenusStep
<1>4. CASE UNCHANGED vars
  <2>1. SetupRests /\ UNCHANGED memberVars BY <1>4 DEF vars, SetupRests, memberVars
  <2> QED BY <1>2, <2>1, MenusStep
<1>5. ASSUME NEW h \in Handlers, NEW u \in Members, NEW m \in Messages,
             \/ \E e \in Emojis : React(h, u, m, e) \/ Unreact(h, u, m, e)
             \/ \E r \in Roles : Press(h, u, m, r)
      PROVE  MenusInv' /\ MemberInv'
  <2>1. SetupRests BY <1>5 DEF React, Unreact, Press, Event, SetupRests
  <2> QED BY <1>5, <2>1, MenusStep, ReactionStep
<1>6. ASSUME NEW h \in Handlers,
             \/ ReadMenu(h) \/ StripOther(h) \/ GiveRole(h) \/ DropRole(h)
             \/ CallFails(h) \/ Answer(h)
      PROVE  MenusInv' /\ MemberInv'
  <2>1. SetupRests
    BY <1>6 DEF ReadMenu, StripOther, GiveRole, DropRole, CallFails, Answer, SetupRests, setupVars
  <2>2. MenusInv' BY <2>1, MenusStep
  <2>3. CASE Answer(h)
    <3>1. /\ Rests(h) /\ UNCHANGED <<held, cache, news>>
          /\ reacted' \subseteq Members \X Messages \X Emojis
      BY <2>3 DEF Answer, MemberInv, Tally
    <3> QED BY <2>2, <3>1, HandlerRests
  <2> QED BY <1>1, <1>6, <2>2, <2>3, ReadMenuStep, StripOtherStep, GiveRoleStep, DropRoleStep,
             CallFailsStep
<1>7. ASSUME NEW u \in Members, MemberUpdate(u)
      PROVE  MenusInv' /\ MemberInv'
  <2>1. SetupRests BY <1>7 DEF MemberUpdate, SetupRests, setupVars
  <2> QED BY <1>7, <2>1, MenusStep, MemberUpdateStep
<1> QED BY <1>3, <1>4, <1>5, <1>6, <1>7 DEF Next, MemberNext

LEMMA Invariance == Spec => []Inv
BY Initially, NextStep, PTL DEF Spec

(* Every variable keeps its type: the sessions, the rows and the messages, *)
(* the clicks and the events in flight (setup.ts, autorole.handler.ts).    *)
THEOREM MenusTyped == Spec => []TypeOK
<1>1. Inv => TypeOK BY DEF Inv, MenusInv, SetupInv, MemberInv, Tally, TypeOK
<1> QED BY <1>1, Invariance, PTL

(* What is stored is shown: a "Finalizar" that is alone with its session,  *)
(* its message and its row leaves on the message of the bot the buttons    *)
(* and reactions of exactly the stored mappings (setup.ts:1074-1243).      *)
THEOREM MenusMatch == Spec => []SavedIsShown
<1>1. Inv => SavedIsShown BY ProgressSafe DEF Inv, MenusInv
<1> QED BY <1>1, Invariance, PTL

(* A session sends at most one message, however often its "Finalizar"      *)
(* fails and is tried again, unless two clicks finish it at once           *)
(* (setup.ts:1074).                                                        *)
THEOREM MenusOnce == Spec => []OneMenuPerSession
<1>1. Inv => OneMenuPerSession BY MenuSafe DEF Inv, MenusInv
<1> QED BY <1>1, Invariance, PTL

(* A menu keeps its promise to a member whose events come one at a time:   *)
(* given, taken, and in unique mode the only one (AutoRoleService.ts:140). *)
THEOREM PromiseKept == Spec => []HandledAlone
<1>1. Inv => HandledAlone
  <2> SUFFICES ASSUME MemberInv, NEW h \in Handlers, handler[h].at = "done", handler[h].alone
               PROVE  LET u == handler[h].who
                          r == handler[h].role
                      IN IF r \in held[u]
                           THEN /\ handler[h].kind # "remove"
                                /\ handler[h].row.mode = "unique" =>
                                     held[u] \cap RolesOf(handler[h].row.mappings) = {r}
                           ELSE handler[h].kind # "add"
    BY DEF Inv, HandledAlone, HandlerAt
  <2>1. Kept(handler[h], held[handler[h].who], cache[handler[h].who], news[handler[h].who])
    BY Handling
  <2> QED BY <2>1 DEF Kept
<1> QED BY <1>1, Invariance, PTL
=============================================================================
