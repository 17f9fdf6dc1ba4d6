---------------------------- MODULE Verification ----------------------------
(***************************************************************************)
(* The verification of a member (VerificationHandler.ts): a button opens a *)
(* form, the form leaves the name the member typed in the bot's memory     *)
(* (temporaryStorage.ts) and answers with a menu of classes, which becomes *)
(* a menu of subclasses, and that menu gives the roles and the nickname    *)
(* and records a request.  The first and the last of these handlers read   *)
(* the guild's configuration through the caches of GuildConfig.            *)
(*                                                                         *)
(* One member, who may press the button again and again.  A flow is a form *)
(* he sends, with the presses before it and the menus behind it; a menu    *)
(* may be used by several clicks until the answer takes it away.  The name *)
(* typed in a flow is the flow; every version of the configuration that is *)
(* set up names a role of its own.                                         *)
(***************************************************************************)
EXTENDS GuildConfig, FiniteSets

CONSTANTS
  Flows,     \* the forms
  Clicks,    \* the selections of a subclass
  Username   \* the name of a member whose form is not found

NoOne == "none"

ASSUME VerificationAssumption ==
  /\ Calls = Flows \cup Clicks
  /\ Flows \cap Clicks = {}
  /\ {Username, NoOne} \cap Flows = {}

Names == Flows \cup {Username}

VARIABLES
  screen,    \* flow -> what the member has in front of him
  typed,     \* tempStorage: the name, or NoOne
  click,     \* click -> where it stands, its flow, the name it took; for the
             \* properties, the version it must see
  nickname,
  requests,  \* verificationRequest: the clicks that left one
  granted    \* what every click that gave the member the roles went by

verification == <<screen, typed, click, nickname, requests, granted>>
verificationVars == <<configVars, verification>>

NoClick == [stage |-> "idle", flow |-> NoOne, name |-> NoOne, begin |-> NoValue]
Over == [NoClick EXCEPT !.stage = "over"]

VerificationInit ==
  /\ ConfigInit
  /\ screen = [f \in Flows |-> "none"]
  /\ typed = NoOne
  /\ click = [k \in Clicks |-> NoClick]
  /\ nickname = Username
  /\ requests = {}
  /\ granted = {}

Shows(f, s) == screen' = [screen EXCEPT ![f] = s]
ClickAt(k, s) == click' = [click EXCEPT ![k].stage = s]

Version(c) == reads[c].version
SetUp(c) == Stage(c) = "done" /\ rows[Version(c)]
HasRole(version) == \E g \in granted : g.version = version

-----------------------------------------------------------------------------
(* handleVerificationStart.                                                *)

\* A form that was not sent can be closed, and the button pressed again.
Press(f) ==
  /\ screen[f] \in {"none", "form"}
  /\ BeginRead(f)
  /\ Shows(f, "starting")
  /\ UNCHANGED <<typed, click, nickname, requests, granted>>

\* Not set up, verified already, an error, or the form.
Started(f) ==
  /\ screen[f] = "starting"
  /\ Stage(f) \in {"done", "failed"}
  /\ \/ /\ SetUp(f) /\ ~HasRole(Version(f))
        /\ Shows(f, "form")
        /\ NoFault
     \/ /\ SetUp(f) => HasRole(Version(f))
        /\ Shows(f, "none")
        /\ NoFault
     \/ /\ SetUp(f) /\ ~HasRole(Version(f))
        /\ Fault                                     \* showModal rejects
        /\ Shows(f, "none")
  /\ reads' = [reads EXCEPT ![f] = NoRead]
  /\ UNCHANGED <<rows, caches, writes, ghosts,
                 typed, click, nickname, requests, granted>>

-----------------------------------------------------------------------------
(* handleVerificationModalSubmit and handleClassSelect.                    *)

\* The form waits for the classes.
Submit(f) ==
  /\ screen[f] = "form"
  /\ Shows(f, "submitted")
  /\ UNCHANGED <<configVars, typed, click, nickname, requests, granted>>

\* The name is stored before the reply, which may fail.
FormHandled(f) ==
  /\ screen[f] = "submitted"
  /\ typed' = f
  /\ \/ Shows(f, "classes") /\ NoFault
     \/ Shows(f, "over") /\ Fault
  /\ UNCHANGED <<rows, caches, reads, writes, ghosts,
                 click, nickname, requests, granted>>

\* No classes, or the query fails.
FormFails(f) ==
  /\ screen[f] = "submitted"
  /\ Fault
  /\ Shows(f, "over")
  /\ UNCHANGED <<rows, caches, reads, writes, ghosts,
                 typed, click, nickname, requests, granted>>

\* A class that is not found leaves the menu as it is.
ChooseClass(f) ==
  /\ screen[f] = "classes"
  /\ Shows(f, "subclasses")
  /\ UNCHANGED <<configVars, typed, click, nickname, requests, granted>>

\* Ten minutes.
NameExpires ==
  /\ typed # NoOne
  /\ typed' = NoOne
  /\ UNCHANGED <<configVars, screen, click, nickname, requests, granted>>

-----------------------------------------------------------------------------
(* handleSubclassSelect.                                                   *)

\* editReply takes the menu away.
Closes(k) ==
  /\ click' = [click EXCEPT ![k] = Over]
  /\ Shows(click[k].flow, "over")
  /\ reads' = [reads EXCEPT ![k] = NoRead]

\* deferUpdate and getClass.
Select(k, f) ==
  /\ click[k] = NoClick
  /\ screen[f] = "subclasses"
  /\ click' = [click EXCEPT ![k] = [NoClick EXCEPT !.stage = "class", !.flow = f]]
  /\ UNCHANGED <<configVars, screen, typed, nickname, requests, granted>>

ClassFound(k) ==
  /\ click[k].stage = "class"
  /\ BeginRead(k)
  /\ click' = [click EXCEPT ![k].stage = "config", ![k].begin = invalidated]
  /\ UNCHANGED <<screen, typed, nickname, requests, granted>>

\* The class or the subclass is gone, or the query fails.
ClassFails(k) ==
  /\ click[k].stage = "class"
  /\ Fault
  /\ Closes(k)
  /\ UNCHANGED <<rows, caches, writes, ghosts,
                 typed, nickname, requests, granted>>

NotSetUp(k) ==
  /\ click[k].stage = "config"
  /\ Stage(k) \in {"done", "failed"}
  /\ ~SetUp(k)
  /\ Closes(k)
  /\ UNCHANGED <<rows, caches, writes, ghosts, faults, typed, nickname, requests, granted>>

\* Mutant: the name is kept until the member has his roles.
TakeNameKeepsIt(k) ==
  /\ click[k].stage = "config"
  /\ SetUp(k)
  /\ click' = [click EXCEPT ![k].stage = "roles",
                            ![k].name = IF typed = NoOne THEN Username ELSE typed]
  /\ UNCHANGED <<configVars, screen, typed, nickname, requests, granted>>

\* tempStorage.get, its fallback and tempStorage.delete, without an await between them.
TakeName(k) ==
  /\ click[k].stage = "config"
  /\ SetUp(k)
  /\ click' = [click EXCEPT ![k].stage = "roles",
                            ![k].name = IF typed = NoOne THEN Username ELSE typed]
  /\ typed' = NoOne
  /\ UNCHANGED <<configVars, screen, nickname, requests, granted>>

AddRoles(k) ==
  /\ click[k].stage = "roles"
  /\ ClickAt(k, "nickname")
  /\ granted' = granted \cup {[click |-> k, name |-> click[k].name,
                               version |-> Version(k), begin |-> click[k].begin]}
  /\ UNCHANGED <<configVars, screen, typed, nickname, requests>>

RolesFail(k) ==
  /\ click[k].stage = "roles"
  /\ Fault
  /\ Closes(k)
  /\ UNCHANGED <<rows, caches, writes, ghosts,
                 typed, nickname, requests, granted>>

\* A nickname that is refused does not matter.
SetNickname(k) ==
  /\ click[k].stage = "nickname"
  /\ \/ nickname' = click[k].name /\ NoFault
     \/ UNCHANGED nickname /\ Fault
  /\ ClickAt(k, "record")
  /\ UNCHANGED <<rows, caches, reads, writes, ghosts,
                 screen, typed, requests, granted>>

\* createVerificationRequest, the log channel and the answer.
RecordRequest(k) ==
  /\ click[k].stage = "record"
  /\ \/ requests' = requests \cup {k} /\ NoFault
     \/ UNCHANGED requests /\ Fault
  /\ Closes(k)
  /\ UNCHANGED <<rows, caches, writes, ghosts,
                 typed, nickname, granted>>

-----------------------------------------------------------------------------
\* The handlers die, the messages stay; a form that was not answered is still open.
Crash ==
  /\ ConfigCrash
  /\ typed' = NoOne
  /\ screen' = [f \in Flows |-> CASE screen[f] = "starting" -> "none"
                                  [] screen[f] = "submitted" -> "form"
                                  [] OTHER -> screen[f]]
  /\ click' = [k \in Clicks |-> IF click[k] = NoClick THEN NoClick ELSE Over]
  /\ UNCHANGED <<nickname, requests, granted>>

VerificationNext ==
  \/ \E f \in Flows :
       \/ Press(f) \/ Started(f) \/ Submit(f) \/ FormHandled(f) \/ FormFails(f)
       \/ ChooseClass(f)
       \/ \E k \in Clicks : Select(k, f)
  \/ \E k \in Clicks :
       \/ ClassFound(k) \/ ClassFails(k) \/ NotSetUp(k) \/ TakeName(k)
       \/ AddRoles(k) \/ RolesFail(k) \/ SetNickname(k) \/ RecordRequest(k)
  \/ (\E c \in Calls : ReadStep(c)) /\ UNCHANGED verification
  \/ (\E w \in Writers : WriteStep(w)) /\ UNCHANGED verification
  \/ ApiWrites /\ UNCHANGED verification
  \/ Expire /\ UNCHANGED verification
  \/ NameExpires
  \/ Crash

VerificationSpec == VerificationInit /\ [][VerificationNext]_verificationVars

FairVerificationSpec == VerificationSpec /\ ConfigFairness

-----------------------------------------------------------------------------
(* The roles a click gives are those of a configuration no older than the  *)
(* newest one whose invalidation had been sent when its read began, unless *)
(* a later invalidation could not reach an older copy: one in the hands of *)
(* a read that overlapped it, or one in a Valkey that did not take DEL.    *)
RoleIsCurrent ==
  \A g \in granted :
    g.version < g.begin => \E v \in exposed : v > g.version

(* However often the menus are clicked, and whatever is pressed, typed or  *)
(* restarted meanwhile, a name typed into a form once verifies the member  *)
(* at most once; every other click falls back to the user's own name.      *)
NameUsedOnce ==
  \A f \in Flows :
    Cardinality({g \in granted : g.name = f}) <= 1
=============================================================================
