--------------------------- MODULE AutoRoleSetup ---------------------------
(***************************************************************************)
(* The menus of auto-roles and the administrators who set them up          *)
(* (commands/autorole/setup.ts, editar.ts, remover.ts, AutoRoleService.ts, *)
(* AutoRoleRepo.ts).                                                       *)
(*                                                                         *)
(* A session lives in a Map of the process, under the administrator and    *)
(* not under the message: opening a second one replaces the first, and a   *)
(* handler that still holds the old object goes on with it.  sessions is   *)
(* the heap of these objects, open the Map.  "Finalizar" sends or edits    *)
(* the message and then writes a row and its mappings one by one, with an  *)
(* await, and so every other click, between any two of these steps.        *)
(*                                                                         *)
(* A mapping is a role and the emoji of its reaction, or NoEmoji when it   *)
(* is a button.  embed is "plain" or "custom": whether any of the embed's  *)
(* optional fields is set.  All menus are of one guild: a session of       *)
(* another guild is refused by channels.fetch before it changes anything.  *)
(***************************************************************************)
EXTENDS Integers, Sequences, FiniteSets

CONSTANTS
  Admins,       \* who may run the commands
  Clicks,       \* interactions that can be in flight at once
  Choices,      \* the mappings an administrator may add
  Assignable,   \* the roles below the bot's own highest role
  Posts,        \* messages of members: the bot cannot edit them
  Menus,        \* messages of the bot: Configured, and the ones it may send
  Configured,   \* the message whose menu is already stored
  FirstMenu,    \* the mappings stored for it, a sequence
  NoEmoji, None,
  RoleLimit,    \* a menu has at most so many mappings (10)
  MaxSessions, MaxOps, MaxFaults

Modes == {"multiple", "unique"}
Embeds == {"plain", "custom"}
Messages == Posts \cup Menus

Mappings == Choices \cup {FirstMenu[i] : i \in DOMAIN FirstMenu}
Roles == {x.role : x \in Mappings}
Emojis == {x.emoji : x \in Mappings} \ {NoEmoji}

Rows == [id : Nat \ {0}, mode : Modes, embed : Embeds, mappings : Seq(Mappings)]

ASSUME SetupAssumption ==
  /\ Configured \in Menus /\ Posts \cap Menus = {}
  /\ None \notin Posts \cup Menus
  /\ FirstMenu \in Seq(Mappings) /\ None \notin Rows
  /\ RoleLimit \in Nat \ {0} /\ MaxSessions \in Nat /\ MaxOps \in Nat /\ MaxFaults \in Nat

VARIABLES
  sessions,  \* the session objects made so far, a sequence
  open,      \* setupSessions: the object of each administrator, 0 for none
  modal,     \* administrators with the first form of a new menu on the screen
  shown,     \* what each message shows: posted, buttons, reactions of the bot, embed
  rows,      \* the AutoRole row of each message with its mappings, or None
  click,     \* the interaction each of Clicks is carrying out
  made,      \* the session that sent each menu, 0 for none
  lastId,    \* the id of the last row created
  doubled,   \* the sessions that two clicks have been finishing at once
  ops,       \* interactions so far, at most MaxOps
  faults     \* failures so far, at most MaxFaults

setupVars == <<sessions, open, modal, shown, rows, lastId, click, made, doubled, ops, faults>>

Idle == [at |-> "idle", admin |-> None, obj |-> 0, base |-> None, on |-> None,
         choice |-> None, i |-> 0, id |-> 0, clean |-> TRUE]

Blank == [posted |-> FALSE, buttons |-> {}, emojis |-> {}, embed |-> "plain"]

RolesOf(list) == {list[i].role : i \in DOMAIN list}
ButtonsOf(list) == {list[i].role : i \in {j \in DOMAIN list : list[j].emoji = NoEmoji}}
EmojisOf(list) == {list[i].emoji : i \in DOMAIN list} \ {NoEmoji}

SetupInit ==
  /\ sessions = <<>>
  /\ open = [a \in Admins |-> 0]
  /\ modal = {}
  /\ shown = [m \in Messages |->
                IF m = Configured
                  THEN [posted |-> TRUE, buttons |-> ButtonsOf(FirstMenu),
                        emojis |-> EmojisOf(FirstMenu), embed |-> "plain"]
                  ELSE [Blank EXCEPT !.posted = m \in Posts]]
  /\ \E mode \in Modes :
       rows = [m \in Messages |->
                 IF m = Configured
                   THEN [id |-> 1, mode |-> mode, embed |-> "plain", mappings |-> FirstMenu]
                   ELSE None]
  /\ lastId = 1
  /\ click = [c \in Clicks |-> Idle]
  /\ made = [m \in Menus |-> 0]
  /\ doubled = {}
  /\ ops = 0 /\ faults = 0

-----------------------------------------------------------------------------
(* The click c is at step s; s is done; it fails.                          *)

At(c, s) == click[c].at = s
SessionOf(c) == sessions[click[c].obj]
ListOf(c) == SessionOf(c).list

Operates == ops < MaxOps /\ ops' = ops + 1
Fails == faults < MaxFaults /\ faults' = faults + 1

Goes(c, s) == click' = [click EXCEPT ![c].at = s]
Ends(c) == click' = [click EXCEPT ![c] = Idle]

(* Ghost: the clicks at work on this session, on this message or on the    *)
(* row of this message, which are no longer alone.                         *)
RowOf(k) == IF k.base = None THEN k.id ELSE k.base.id

Near(f, obj, m) ==
  {c \in Clicks :
     /\ f[c].obj # 0
     /\ \/ f[c].obj = obj
        \/ m # None /\ m \in {f[c].on, sessions[f[c].obj].message}
        \/ m # None /\ rows[m] # None /\ rows[m].id = RowOf(f[c])}
Touch(f, obj, m) ==
  [c \in Clicks |-> IF c \in Near(f, obj, m) THEN [f[c] EXCEPT !.clean = FALSE] ELSE f[c]]

-----------------------------------------------------------------------------
(* Opening a session.                                                      *)

NewSession(a, session) ==
  /\ Len(sessions) < MaxSessions
  /\ sessions' = Append(sessions, session)
  /\ open' = [open EXCEPT ![a] = Len(sessions) + 1]

Fresh(m) == [message |-> m, canEdit |-> m \notin Posts, mode |-> "multiple",
             embed |-> "plain", list |-> <<>>]

(* /autorole setup without a message: an empty session and the first form. *)
OpenNew(a) ==
  /\ Operates
  /\ NewSession(a, Fresh(None))
  /\ modal' = modal \cup {a}
  /\ UNCHANGED <<shown, rows, click, made, doubled, faults, lastId>>

(* /autorole setup with a message, and /autorole editar: the session takes *)
(* over what is stored, if anything is.                                    *)
OpenFor(a, m) ==
  /\ Operates
  /\ shown[m].posted
  /\ NewSession(a, IF rows[m] = None THEN Fresh(m)
                   ELSE [message |-> m, canEdit |-> m \notin Posts, mode |-> rows[m].mode,
                         embed |-> rows[m].embed, list |-> rows[m].mappings])
  /\ UNCHANGED <<modal, shown, rows, click, made, doubled, faults, lastId>>

(* The first form arrives.  It fills in whatever session is open now, and  *)
(* declares its message to be the bot's own.                               *)
SubmitInitial(a, mode) ==
  /\ a \in modal
  /\ modal' = modal \ {a}
  /\ IF open[a] # 0
       THEN /\ sessions' = [sessions EXCEPT ![open[a]].mode = mode, ![open[a]].canEdit = TRUE]
            /\ click' = Touch(click, open[a], None)
            /\ UNCHANGED open
       ELSE /\ NewSession(a, [Fresh(None) EXCEPT !.mode = mode])
            /\ UNCHANGED click
  /\ UNCHANGED <<shown, rows, made, doubled, ops, faults, lastId>>

-----------------------------------------------------------------------------
(* The clicks that change a session and nothing else.                      *)

Changes(a, session) ==
  /\ Operates
  /\ open[a] # 0
  /\ sessions' = [sessions EXCEPT ![open[a]] = session]
  /\ click' = Touch(click, open[a], None)
  /\ UNCHANGED <<open, modal, shown, rows, made, doubled, faults, lastId>>

Current(a) == sessions[open[a]]

ToggleMode(a) ==
  /\ open[a] # 0
  /\ Changes(a, [Current(a) EXCEPT !.mode = IF @ = "multiple" THEN "unique" ELSE "multiple"])

CustomizeEmbed(a, embed) ==
  /\ open[a] # 0 /\ Current(a).canEdit
  /\ embed # Current(a).embed
  /\ Changes(a, [Current(a) EXCEPT !.embed = embed])

(* Any position of the list, whichever mapping the menu showed there.      *)
RemoveMapping(a, i) ==
  /\ open[a] # 0 /\ i \in DOMAIN Current(a).list
  /\ Changes(a, [Current(a) EXCEPT
                   !.list = SubSeq(@, 1, i - 1) \o SubSeq(@, i + 1, Len(@))])

Cancel(a) ==
  /\ Operates
  /\ open[a] # 0
  /\ open' = [open EXCEPT ![a] = 0]
  /\ click' = Touch(click, open[a], None)
  /\ UNCHANGED <<sessions, modal, shown, rows, made, doubled, faults, lastId>>

(* The form of a mapping: the session is looked up, the role is fetched,   *)
(* and the object that was looked up is extended and put back in the Map.  *)
SubmitMapping(c, a, choice) ==
  /\ Operates
  /\ At(c, "idle") /\ open[a] # 0
  /\ Len(Current(a).list) < RoleLimit
  /\ Current(a).canEdit \/ choice.emoji # NoEmoji
  /\ click' = [click EXCEPT ![c] = [Idle EXCEPT !.at = "push", !.admin = a,
                                                !.obj = open[a], !.choice = choice]]
  /\ UNCHANGED <<sessions, open, modal, shown, rows, made, doubled, faults, lastId>>

PushMapping(c) ==
  /\ At(c, "push")
  /\ sessions' = [sessions EXCEPT ![click[c].obj].list = Append(@, click[c].choice)]
  /\ open' = [open EXCEPT ![click[c].admin] = click[c].obj]
  /\ click' = Touch([click EXCEPT ![c] = Idle], click[c].obj, None)
  /\ UNCHANGED <<modal, shown, rows, made, doubled, ops, faults, lastId>>

-----------------------------------------------------------------------------
(* Finalizar.                                                              *)

Finishing(obj) == {c \in Clicks : click[c].obj = obj /\ click[c].at \notin {"idle", "push"}}

Finish(c, a) ==
  /\ Operates
  /\ At(c, "idle") /\ open[a] # 0
  /\ Current(a).list # <<>>
  /\ click' = [Touch(click, open[a], Current(a).message) EXCEPT
                 ![c] = [Idle EXCEPT !.at = "compare", !.admin = a, !.obj = open[a],
                           !.clean = Near(click, open[a], Current(a).message) = {}]]
  /\ doubled' = IF Finishing(open[a]) = {} THEN doubled ELSE doubled \cup {open[a]}
  /\ UNCHANGED <<sessions, open, modal, shown, rows, made, faults, lastId>>

Dirty(session, row) ==
  \/ session.mode # row.mode
  \/ session.embed # row.embed
  \/ session.list # row.mappings

(* The stored row, if the session has a message, and whether it differs.   *)
Compare(c) ==
  /\ At(c, "compare")
  /\ LET s == SessionOf(c)
         stored == IF s.message = None THEN None ELSE rows[s.message]
     IN IF stored # None /\ ~ Dirty(s, stored)
          THEN open' = [open EXCEPT ![click[c].admin] = 0] /\ Ends(c)
          ELSE /\ click' = [click EXCEPT ![c].at = "validate", ![c].base = stored]
               /\ UNCHANGED open
  /\ UNCHANGED <<sessions, modal, shown, rows, made, doubled, ops, faults, lastId>>

(* validateConfiguration *)
Valid(list) ==
  /\ Len(list) \in 1..RoleLimit
  /\ RolesOf(list) \subseteq Assignable
  /\ \A i, j \in DOMAIN list : list[i].emoji = list[j].emoji /\ i # j => list[i].emoji = NoEmoji

\* Mutant: whether to send goes by the row, not by the message the session has.
ValidateByRow(c) ==
  /\ At(c, "validate")
  /\ \/ ~ Valid(ListOf(c)) /\ Ends(c)
     \/ /\ Valid(ListOf(c))
        /\ Goes(c, IF ~ SessionOf(c).canEdit THEN "react"
                   ELSE IF click[c].base = None THEN "send" ELSE "edit")
  /\ UNCHANGED <<sessions, open, modal, shown, rows, made, doubled, ops, faults, lastId>>

Validate(c) ==
  /\ At(c, "validate")
  /\ \/ ~ Valid(ListOf(c)) /\ Ends(c)
     \/ /\ Valid(ListOf(c))
        /\ Goes(c, IF SessionOf(c).message = None THEN "send"
                   ELSE IF SessionOf(c).canEdit THEN "edit" ELSE "react")
  /\ UNCHANGED <<sessions, open, modal, shown, rows, made, doubled, ops, faults, lastId>>

(* createMessageWithRoles: the embed and the buttons.                      *)
Send(c, m) ==
  /\ At(c, "send")
  /\ m \in Menus /\ ~ shown[m].posted
  /\ shown' = [shown EXCEPT ![m] = [posted |-> TRUE, buttons |-> ButtonsOf(ListOf(c)),
                                    emojis |-> {}, embed |-> SessionOf(c).embed]]
  /\ made' = [made EXCEPT ![m] = click[c].obj]
  /\ click' = [click EXCEPT ![c].at = "react", ![c].on = m]
  /\ UNCHANGED <<sessions, open, modal, rows, doubled, ops, faults, lastId>>

(* updateMessageWithRoles: the edit, which Discord refuses for the message *)
(* of a member, and an embed whose cleared fields keep their old content.  *)
Edit(c) ==
  /\ At(c, "edit")
  /\ LET m == SessionOf(c).message
     IN IF m \in Posts THEN Ends(c) /\ UNCHANGED shown
        ELSE /\ shown' = [shown EXCEPT ![m].buttons = ButtonsOf(ListOf(c)),
                            ![m].embed = IF SessionOf(c).embed = "custom" THEN "custom" ELSE @]
             /\ Goes(c, "clear")
  /\ UNCHANGED <<sessions, open, modal, rows, made, doubled, ops, faults, lastId>>

ClearReactions(c) ==
  /\ At(c, "clear")
  /\ shown' = [shown EXCEPT ![SessionOf(c).message].emojis = {}]
  /\ Goes(c, "react")
  /\ UNCHANGED <<sessions, open, modal, rows, made, doubled, ops, faults, lastId>>

Target(c) == IF click[c].on # None THEN click[c].on ELSE SessionOf(c).message

(* The reactions, those that fail being skipped; a message just sent is    *)
(* now the session's.                                                      *)
AddReactions(c) ==
  /\ At(c, "react")
  /\ \E lost \in SUBSET EmojisOf(ListOf(c)) :
       /\ IF lost = {} THEN UNCHANGED faults ELSE Fails
       /\ shown' = [shown EXCEPT ![Target(c)].emojis = @ \cup (EmojisOf(ListOf(c)) \ lost)]
       /\ click' = [click EXCEPT ![c].at = IF click[c].base = None THEN "look" ELSE "update",
                                 ![c].on = None, ![c].clean = @ /\ lost = {}]
  /\ sessions' = [sessions EXCEPT ![click[c].obj].message = Target(c)]
  /\ UNCHANGED <<open, modal, rows, made, doubled, ops, lastId>>

(* Without a row from before, the message is looked up again.              *)
LookAgain(c) ==
  /\ At(c, "look")
  /\ LET row == rows[SessionOf(c).message]
     IN click' = [click EXCEPT ![c].at = IF row = None THEN "create" ELSE "update",
                               ![c].base = row]
  /\ UNCHANGED <<sessions, open, modal, shown, rows, made, doubled, ops, faults, lastId>>

RowIds == {rows[m].id : m \in {n \in Messages : rows[n] # None}}
Holder(id) == CHOOSE m \in Messages : rows[m] # None /\ rows[m].id = id

CreateRow(c) ==
  /\ At(c, "create")
  /\ LET m == SessionOf(c).message
     IN IF rows[m] # None THEN Ends(c) /\ UNCHANGED <<rows, lastId>>
        ELSE /\ rows' = [rows EXCEPT ![m] = [id |-> lastId + 1, mode |-> SessionOf(c).mode,
                                             embed |-> SessionOf(c).embed, mappings |-> <<>>]]
             /\ lastId' = lastId + 1
             /\ click' = [click EXCEPT ![c].at = "add", ![c].id = lastId + 1]
  /\ UNCHANGED <<sessions, open, modal, shown, made, doubled, ops, faults>>

UpdateRow(c) ==
  /\ At(c, "update")
  /\ LET id == click[c].base.id
     IN IF id \notin RowIds THEN Ends(c) /\ UNCHANGED rows
        ELSE /\ rows' = [rows EXCEPT ![Holder(id)].mode = SessionOf(c).mode,
                                     ![Holder(id)].embed = SessionOf(c).embed]
             /\ click' = [click EXCEPT ![c].at = "wipe", ![c].id = id]
  /\ UNCHANGED <<sessions, open, modal, shown, made, doubled, ops, faults, lastId>>

\* Mutant: the old mappings stay.
KeepOldMappings(c) ==
  /\ At(c, "wipe")
  /\ Goes(c, "add")
  /\ UNCHANGED <<sessions, open, modal, shown, rows, made, doubled, ops, faults, lastId>>

RemoveAllMappings(c) ==
  /\ At(c, "wipe")
  /\ IF click[c].id \notin RowIds THEN Ends(c) /\ UNCHANGED rows
     ELSE rows' = [rows EXCEPT ![Holder(click[c].id)].mappings = <<>>] /\ Goes(c, "add")
  /\ UNCHANGED <<sessions, open, modal, shown, made, doubled, ops, faults, lastId>>

(* One insertion for each mapping of the list as it is by then.            *)
AddMapping(c) ==
  /\ At(c, "add")
  /\ click[c].i < Len(ListOf(c))
  /\ IF click[c].id \notin RowIds THEN Ends(c) /\ UNCHANGED rows
     ELSE /\ rows' = [rows EXCEPT ![Holder(click[c].id)].mappings =
                        Append(@, ListOf(c)[click[c].i + 1])]
          /\ click' = [click EXCEPT ![c].i = @ + 1]
  /\ UNCHANGED <<sessions, open, modal, shown, made, doubled, ops, faults, lastId>>

(* All stored: the administrator's session goes, whichever it is now.      *)
Saved(c) ==
  /\ At(c, "add")
  /\ click[c].i >= Len(ListOf(c))
  /\ open' = [open EXCEPT ![click[c].admin] = 0]
  /\ Ends(c)
  /\ UNCHANGED <<sessions, modal, shown, rows, made, doubled, ops, faults, lastId>>

(* A call of Discord or of the database fails: the session stays.          *)
FinishFails(c) ==
  /\ click[c].at \notin {"idle", "react", "asked"}
  /\ Fails
  /\ Ends(c)
  /\ UNCHANGED <<sessions, open, modal, shown, rows, made, doubled, ops, lastId>>

-----------------------------------------------------------------------------
(* /autorole remover: the row is found, then deleted on confirmation.      *)

AskRemoval(c, m) ==
  /\ Operates
  /\ At(c, "idle") /\ rows[m] # None
  /\ click' = [click EXCEPT ![c] = [Idle EXCEPT !.at = "asked", !.on = m]]
  /\ UNCHANGED <<sessions, open, modal, shown, rows, made, doubled, faults, lastId>>

ConfirmRemoval(c) ==
  /\ At(c, "asked")
  /\ rows' = [rows EXCEPT ![click[c].on] = None]
  /\ click' = Touch([click EXCEPT ![c] = Idle], 0, click[c].on)
  /\ UNCHANGED <<sessions, open, modal, shown, made, doubled, ops, faults, lastId>>

DropRemoval(c) ==
  /\ At(c, "asked")
  /\ Ends(c)
  /\ UNCHANGED <<sessions, open, modal, shown, rows, made, doubled, ops, faults, lastId>>

-----------------------------------------------------------------------------
SetupNext ==
  \/ \E a \in Admins :
       \/ OpenNew(a)
       \/ \E m \in Messages : OpenFor(a, m)
       \/ \E mode \in Modes : SubmitInitial(a, mode)
       \/ ToggleMode(a)
       \/ \E embed \in Embeds : CustomizeEmbed(a, embed)
       \/ \E i \in 1..RoleLimit : RemoveMapping(a, i)
       \/ Cancel(a)
       \/ \E c \in Clicks, choice \in Choices : SubmitMapping(c, a, choice)
       \/ \E c \in Clicks : Finish(c, a)
  \/ \E c \in Clicks :
       \/ PushMapping(c)
       \/ Compare(c) \/ Validate(c)
       \/ \E m \in Menus : Send(c, m)
       \/ Edit(c) \/ ClearReactions(c) \/ AddReactions(c)
       \/ LookAgain(c) \/ CreateRow(c) \/ UpdateRow(c) \/ RemoveAllMappings(c)
       \/ AddMapping(c) \/ Saved(c) \/ FinishFails(c)
       \/ \E m \in Messages : AskRemoval(c, m)
       \/ ConfirmRemoval(c) \/ DropRemoval(c)

-----------------------------------------------------------------------------
(* Properties *)

Session == [message : Messages \cup {None}, canEdit : BOOLEAN, mode : Modes,
            embed : Embeds, list : Seq(Mappings)]

Steps == {"idle", "push", "compare", "validate", "send", "edit", "clear", "react", "look",
          "create", "update", "wipe", "add", "asked"}

Click == [at : Steps, admin : Admins \cup {None}, obj : Nat, base : Rows \cup {None},
          on : Messages \cup {None}, choice : Choices \cup {None}, i : Nat, id : Nat,
          clean : BOOLEAN]

SetupTypeOK ==
  /\ sessions \in Seq(Session) /\ Len(sessions) <= MaxSessions
  /\ open \in [Admins -> 0..Len(sessions)] /\ modal \subseteq Admins
  /\ shown \in [Messages -> [posted : BOOLEAN, buttons : SUBSET Roles,
                              emojis : SUBSET Emojis, embed : Embeds]]
  /\ rows \in [Messages -> Rows \cup {None}]
  /\ click \in [Clicks -> Click] /\ \A c \in Clicks : click[c].obj \in 0..Len(sessions)
  /\ made \in [Menus -> 0..Len(sessions)] /\ doubled \subseteq 1..Len(sessions)
  /\ lastId \in Nat \ {0}
  /\ ops \in 0..MaxOps /\ faults \in 0..MaxFaults

(* What was saved is what the message shows: when a "Finalizar" that no    *)
(* other click, form or removal has interfered with reports success        *)
(* (setup.ts:1243), the message of the bot carries a button for every      *)
(* stored button and exactly the reactions of the stored mappings.         *)
SavedIsShown ==
  \A c \in Clicks :
    LET m == SessionOf(c).message
    IN At(c, "add") /\ click[c].i = Len(ListOf(c)) /\ click[c].clean /\ m \in Menus
         => /\ rows[m] # None
            /\ rows[m].mappings = ListOf(c)
            /\ shown[m].buttons = ButtonsOf(rows[m].mappings)
            /\ shown[m].emojis = EmojisOf(rows[m].mappings)

(* Trying again after a failure does not send the menu a second time       *)
(* (setup.ts:1074): a session has sent at most one message, unless two     *)
(* clicks were finishing it at once.                                       *)
OneMenuPerSession ==
  \A m, n \in Menus : made[m] # 0 /\ made[m] = made[n] /\ m # n => made[m] \in doubled
=============================================================================
