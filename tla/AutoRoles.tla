----------------------------- MODULE AutoRoles -----------------------------
(***************************************************************************)
(* Members take their roles from the menus that AutoRoleSetup keeps        *)
(* (events/messageReactionAdd.ts, messageReactionRemove.ts,                *)
(* handlers/autorole.handler.ts, AutoRoleService.assignRole, removeRole).  *)
(*                                                                         *)
(* held is what Discord knows, cache what discord.js has in memory: a call *)
(* that adds or removes a role changes the first, and the second only when *)
(* the GuildMemberUpdate comes in, one after the other through news.       *)
(* Every event is a handler of its own; they run side by side, with each   *)
(* other and with the administrators who change the menu.                  *)
(***************************************************************************)
EXTENDS AutoRoleSetup

CONSTANTS Members, Handlers

ASSUME MembersAssumption == None \notin Members

VARIABLES
  held,     \* the roles each member has
  cache,    \* ... as the bot remembers them
  news,     \* GuildMemberUpdate events on their way, oldest first
  reacted,  \* the reactions of members: <<member, message, emoji>>
  handler   \* the event each of Handlers is working on

memberVars == <<held, cache, news, reacted, handler>>
vars == <<sessions, open, modal, shown, rows, lastId, click, made, doubled, ops, faults,
          held, cache, news, reacted, handler>>

Resting == [at |-> "idle", kind |-> None, who |-> None, menu |-> None, emoji |-> None,
            role |-> None, row |-> None, i |-> 0, alone |-> TRUE]

Init ==
  /\ SetupInit
  /\ held = [u \in Members |-> {}]
  /\ cache = held
  /\ news = [u \in Members |-> <<>>]
  /\ reacted = {}
  /\ handler = [h \in Handlers |-> Resting]

HandlerAt(h, s) == handler[h].at = s
Rests(h) == handler' = [handler EXCEPT ![h] = Resting]

(* Ghost: the event of a member is alone when nothing else of the member   *)
(* is being handled or still on its way, and stays so while the menu stays *)
(* as it was read.                                                         *)
Quiet(u) == news[u] = <<>> /\ \A h \in Handlers : handler[h].who # u
Disturb(u) ==
  [h \in Handlers |-> IF handler[h].who = u THEN [handler[h] EXCEPT !.alone = FALSE] ELSE handler[h]]

Event(h, event) ==
  /\ Operates
  /\ HandlerAt(h, "idle")
  /\ shown[event.menu].posted
  /\ handler' = [Disturb(event.who) EXCEPT ![h] = [event EXCEPT !.alone = Quiet(event.who)]]
  /\ UNCHANGED <<sessions, open, modal, shown, rows, lastId, click, made, doubled, faults>>
  /\ UNCHANGED <<held, cache, news>>

React(h, u, m, e) ==
  /\ <<u, m, e>> \notin reacted
  /\ reacted' = reacted \cup {<<u, m, e>>}
  /\ Event(h, [Resting EXCEPT !.at = "read", !.kind = "add", !.who = u, !.menu = m, !.emoji = e])

Unreact(h, u, m, e) ==
  /\ <<u, m, e>> \in reacted
  /\ reacted' = reacted \ {<<u, m, e>>}
  /\ Event(h, [Resting EXCEPT !.at = "read", !.kind = "remove", !.who = u, !.menu = m, !.emoji = e])

Press(h, u, m, r) ==
  /\ r \in shown[m].buttons
  /\ UNCHANGED reacted
  /\ Event(h, [Resting EXCEPT !.at = "read", !.kind = "press", !.who = u, !.menu = m, !.role = r])

(* The mapping of the menu that answers to the event: the first one.       *)
Answering(h, list) ==
  {i \in DOMAIN list :
     /\ IF handler[h].kind = "press"
          THEN list[i].emoji = NoEmoji /\ list[i].role = handler[h].role
          ELSE list[i].emoji = handler[h].emoji
     /\ \A j \in 1..(i - 1) : IF handler[h].kind = "press"
          THEN ~(list[j].emoji = NoEmoji /\ list[j].role = handler[h].role)
          ELSE list[j].emoji # handler[h].emoji}

(* A button is a toggle of what the cache says.                            *)
Gives(h, role) ==
  \/ handler[h].kind = "add"
  \/ handler[h].kind = "press" /\ role \notin cache[handler[h].who]

ReadMenu(h) ==
  /\ HandlerAt(h, "read")
  /\ LET row == rows[handler[h].menu]
         found == IF row = None THEN {} ELSE Answering(h, row.mappings)
     IN IF found = {} THEN Rests(h)
        ELSE LET role == row.mappings[CHOOSE i \in found : TRUE].role
             IN handler' = [handler EXCEPT ![h].at = IF Gives(h, role) THEN "strip" ELSE "drop",
                                           ![h].role = role, ![h].row = row]
  /\ UNCHANGED setupVars /\ UNCHANGED <<held, cache, news, reacted>>

(* A call of Discord: what the member has, and the news of it.             *)
SetHeld(u, roles) ==
  /\ held' = [held EXCEPT ![u] = roles]
  /\ news' = [news EXCEPT ![u] = IF roles = held[u] THEN @ ELSE Append(@, roles)]

\* Mutant: the buttons are forgotten.
OtherReactions(h) ==
  LET list == handler[h].row.mappings
  IN {i \in DOMAIN list : /\ i > handler[h].i
                          /\ list[i].role # handler[h].role /\ list[i].emoji # NoEmoji
                          /\ list[i].role \in cache[handler[h].who]}

(* assignRole, "unique": the other roles of the menu the cache knows of.   *)
Others(h) ==
  LET list == handler[h].row.mappings
  IN {i \in DOMAIN list : /\ i > handler[h].i
                          /\ list[i].role # handler[h].role
                          /\ list[i].role \in cache[handler[h].who]}

StripOther(h) ==
  /\ HandlerAt(h, "strip")
  /\ handler[h].row.mode = "unique"
  /\ \E i \in Others(h) :
       /\ \A j \in Others(h) : i <= j
       /\ SetHeld(handler[h].who, held[handler[h].who] \ {handler[h].row.mappings[i].role})
       /\ handler' = [handler EXCEPT ![h].i = i]
  /\ UNCHANGED setupVars /\ UNCHANGED <<cache, reacted>>

GiveRole(h) ==
  /\ HandlerAt(h, "strip")
  /\ handler[h].row.mode = "unique" => Others(h) = {}
  /\ handler[h].role \in Assignable
  /\ SetHeld(handler[h].who, held[handler[h].who] \cup {handler[h].role})
  /\ handler' = [handler EXCEPT ![h].at = "done"]
  /\ UNCHANGED setupVars /\ UNCHANGED <<cache, reacted>>

(* removeRole: nothing to do for a role the cache does not know of.        *)
DropRole(h) ==
  /\ HandlerAt(h, "drop")
  /\ IF handler[h].role \in cache[handler[h].who]
       THEN SetHeld(handler[h].who, held[handler[h].who] \ {handler[h].role})
       ELSE UNCHANGED <<held, news>>
  /\ handler' = [handler EXCEPT ![h].at = "done"]
  /\ UNCHANGED setupVars /\ UNCHANGED <<cache, reacted>>

(* A call of Discord fails, as it does for a role above the bot's.  The    *)
(* bot takes the member's reaction away, which is an event like any other. *)
CallFails(h) ==
  /\ handler[h].at \in {"strip", "drop"}
  /\ \/ Fails
     \/ HandlerAt(h, "strip") /\ handler[h].role \notin Assignable /\ UNCHANGED faults
  /\ LET u == handler[h].who
         reaction == <<u, handler[h].menu, handler[h].emoji>>
     IN IF handler[h].kind = "add" /\ reaction \in reacted
          THEN /\ reacted' = reacted \ {reaction}
               /\ handler' = [handler EXCEPT ![h].at = "read", ![h].kind = "remove",
                                ![h].role = None, ![h].row = None, ![h].i = 0,
                                ![h].alone = @ /\ news[u] = <<>>]
          ELSE Rests(h) /\ UNCHANGED reacted
  /\ UNCHANGED <<sessions, open, modal, shown, rows, lastId, click, made, doubled, ops>>
  /\ UNCHANGED <<held, cache, news>>

(* The reply, the log.                                                     *)
Answer(h) ==
  /\ HandlerAt(h, "done")
  /\ Rests(h)
  /\ UNCHANGED setupVars /\ UNCHANGED <<held, cache, news, reacted>>

(* GuildMemberUpdate *)
MemberUpdate(u) ==
  /\ news[u] # <<>>
  /\ cache' = [cache EXCEPT ![u] = Head(news[u])]
  /\ news' = [news EXCEPT ![u] = Tail(@)]
  /\ UNCHANGED setupVars /\ UNCHANGED <<held, reacted, handler>>

MemberNext ==
  \/ \E h \in Handlers, u \in Members, m \in Messages :
       \/ \E e \in Emojis : React(h, u, m, e) \/ Unreact(h, u, m, e)
       \/ \E r \in Roles : Press(h, u, m, r)
  \/ \E h \in Handlers :
       \/ ReadMenu(h) \/ StripOther(h) \/ GiveRole(h) \/ DropRole(h)
       \/ CallFails(h) \/ Answer(h)
  \/ \E u \in Members : MemberUpdate(u)

Next ==
  \/ SetupNext /\ UNCHANGED memberVars
  \/ MemberNext

Spec == Init /\ [][Next]_vars

-----------------------------------------------------------------------------
(* Properties *)

Handler == [at : {"idle", "read", "strip", "drop", "done"},
            kind : {"add", "remove", "press", None}, who : Members \cup {None},
            menu : Messages \cup {None}, emoji : Emojis \cup {None},
            role : Roles \cup {None}, row : Rows \cup {None}, i : Nat, alone : BOOLEAN]

TypeOK ==
  /\ SetupTypeOK
  /\ held \in [Members -> SUBSET Roles] /\ cache \in [Members -> SUBSET Roles]
  /\ news \in [Members -> Seq(SUBSET Roles)]
  /\ reacted \subseteq Members \X Messages \X Emojis
  /\ handler \in [Handlers -> Handler]

(* A menu keeps its promise to a member whose events come one at a time    *)
(* (AutoRoleService.ts:140): an event that nothing else of the member      *)
(* overlaps leaves the member with the role when it was given, without it  *)
(* when it was taken, and in unique mode with no other role of the menu.   *)
HandledAlone ==
  \A h \in Handlers :
    LET u == handler[h].who
        r == handler[h].role
    IN HandlerAt(h, "done") /\ handler[h].alone
         => IF r \in held[u]
              THEN /\ handler[h].kind # "remove"
                   /\ handler[h].row.mode = "unique" => held[u] \cap RolesOf(handler[h].row.mappings) = {r}
              ELSE handler[h].kind # "add"
=============================================================================
