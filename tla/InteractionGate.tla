-------------------------- MODULE InteractionGate --------------------------
(***************************************************************************)
(* Who gets to run a Discord interaction.  An interaction may be delivered *)
(* more than once, to one bot process or to several.  Every delivery passes *)
(* isDuplicateInteraction: first the Set of the process, then SET NX EX on *)
(* a Valkey key raced against a timer of 250 ms.  A delivery that is let in *)
(* runs its handler, and the finally of interactionCreate clears the Set.  *)
(*                                                                         *)
(* The key lives 300 s and Discord retries within seconds, so that no      *)
(* behaviour lets it expire; the Set is also emptied every five minutes.   *)
(***************************************************************************)
EXTENDS Naturals

CONSTANTS
  Bots,          \* bot processes (an old and a new one during a deploy)
  Deliveries,    \* arrivals of an interaction at a process
  Interactions   \* snowflakes, never reused

ASSUME GateAssumption == Bots # {} /\ Interactions # {}

VARIABLES
  local,     \* processingLocal of every process
  key,       \* the interactions whose idempotency key exists in Valkey
  arrival    \* every delivery: where it came, and how far it is

gateVars == <<local, key, arrival>>

\* "running" until the handler returns; "blocked" is "ya fue procesada".
Stages == {"unseen", "asking", "running", "blocked", "done", "dropped", "lost"}

Arrivals == [at : Stages, bot : Bots, id : Interactions,
             set : {"none", "sent", "won", "refused"}, open : BOOLEAN]

GateTypeOK ==
  /\ local \in [Bots -> SUBSET Interactions]
  /\ key \subseteq Interactions
  /\ arrival \in [Deliveries -> Arrivals]

Unseen == [at |-> "unseen", bot |-> CHOOSE b \in Bots : TRUE,
           id |-> CHOOSE i \in Interactions : TRUE,
           set |-> "none", open |-> FALSE]

GateInit ==
  /\ local = [b \in Bots |-> {}]
  /\ key = {}
  /\ arrival = [d \in Deliveries |-> Unseen]

\* Mutant: the Set is filled before the answer of Valkey, as a guard against
\* deliveries that ask at the same time.
ArriveMarking(d, b, i) ==
  /\ arrival[d].at = "unseen"
  /\ arrival' = [arrival EXCEPT ![d] =
       IF i \in local[b]
       THEN [@ EXCEPT !.at = "blocked", !.bot = b, !.id = i]
       ELSE [@ EXCEPT !.at = "asking", !.bot = b, !.id = i, !.set = "sent"]]
  /\ local' = [local EXCEPT ![b] = @ \cup {i}]
  /\ UNCHANGED key

\* The event reaches a process: the Set answers at once, or the SET is sent.
Arrive(d, b, i) ==
  /\ arrival[d].at = "unseen"
  /\ arrival' = [arrival EXCEPT ![d] =
       IF i \in local[b]
       THEN [@ EXCEPT !.at = "blocked", !.bot = b, !.id = i]
       ELSE [@ EXCEPT !.at = "asking", !.bot = b, !.id = i, !.set = "sent"]]
  /\ UNCHANGED <<local, key>>

\* Mutant: a SET without NX.
OverwritingSet(d) == TRUE

\* NX: the SET is refused when the key is there.
Grants(d) == arrival[d].id \notin key

\* Valkey executes the command, perhaps long after the process gave up on it.
SetLands(d) ==
  /\ arrival[d].set = "sent"
  /\ key' = key \cup {arrival[d].id}
  /\ arrival' = [arrival EXCEPT ![d].set = IF Grants(d) THEN "won" ELSE "refused"]
  /\ UNCHANGED local

\* A delivery is let in: the process remembers the interaction.  The Set is not
\* looked at again after the wait.
LetIn(d, open) ==
  /\ arrival' = [arrival EXCEPT ![d].at = "running", ![d].open = open]
  /\ local' = [local EXCEPT ![arrival[d].bot] = @ \cup {arrival[d].id}]
  /\ UNCHANGED key

Won(d) ==
  /\ arrival[d].at = "asking" /\ arrival[d].set = "won"
  /\ LetIn(d, FALSE)

\* No answer in 250 ms: "failing open".
TimesOut(d) ==
  /\ arrival[d].at = "asking"
  /\ LetIn(d, TRUE)

Blocked(d) ==
  /\ arrival' = [arrival EXCEPT ![d].at = "blocked"]
  /\ UNCHANGED <<local, key>>

Refused(d) ==
  /\ arrival[d].at = "asking" /\ arrival[d].set = "refused"
  /\ Blocked(d)

\* The connection breaks under the call, before or after the SET was executed:
\* acquireLock catches the error and answers false, as for a key that exists.
CallFails(d) ==
  /\ arrival[d].at = "asking"
  /\ Blocked(d)

\* The handler has returned or thrown: clearInteractionId in the finally.
Finish(d) ==
  /\ arrival[d].at = "running"
  /\ arrival' = [arrival EXCEPT ![d].at = "done"]
  /\ local' = [local EXCEPT ![arrival[d].bot] = @ \ {arrival[d].id}]
  /\ UNCHANGED key

\* setInterval: the Set is emptied whatever is running.
cleanupLocalIdempotency(b) ==
  /\ local[b] # {}
  /\ local' = [local EXCEPT ![b] = {}]
  /\ UNCHANGED <<key, arrival>>

\* The process dies and comes back: its Set is gone, the keys are not.
Crash(b) ==
  /\ \E d \in Deliveries : arrival[d].bot = b /\ arrival[d].at = "running"
  /\ local' = [local EXCEPT ![b] = {}]
  /\ arrival' = [d \in Deliveries |->
       IF arrival[d].bot # b THEN arrival[d]
       ELSE CASE arrival[d].at = "running" -> [arrival[d] EXCEPT !.at = "lost"]
              [] arrival[d].at = "asking"  -> [arrival[d] EXCEPT !.at = "dropped"]
              [] OTHER -> arrival[d]]
  /\ UNCHANGED key

Ran(d) == arrival[d].at \in {"running", "done", "lost"}

\* Blocked by its own failing call: no answer of Valkey has refused it.
Failed(d) == arrival[d].at = "blocked" /\ arrival[d].set \in {"sent", "won"}

(***************************************************************************)
(* Properties.                                                             *)
(***************************************************************************)
\* One interaction, one execution: of the deliveries of an interaction, to one
\* process or to many, before, during and after a crash, at most one runs on
\* an answer of Valkey; a second one can only have failed open.
ExecutedOnce ==
  \A d, e \in Deliveries :
    (d # e /\ arrival[d].id = arrival[e].id /\ Ran(d) /\ Ran(e))
      => arrival[d].open \/ arrival[e].open

\* Deliveries never refuse each other until none is left: one that is told "ya
\* fue procesada" (interactionCreate.ts:75), by the Set or by Valkey, has been
\* preceded by another that was let in, or that holds the key and is let in by
\* the answer it waits for.  Only a call that fails after it took the key, or
\* the death of the process that took it, leaves the interaction to nobody.
NeverSwallowed ==
  \A d \in Deliveries : arrival[d].at = "blocked" /\ ~Failed(d) =>
    \E e \in Deliveries \ {d} :
      /\ arrival[e].id = arrival[d].id
      /\ \/ Ran(e)
         \/ arrival[e].at = "asking" /\ arrival[e].set = "won"
         \/ (Failed(e) \/ arrival[e].at = "dropped") /\ arrival[e].set = "won"

\* "Fail-open: if Valkey is unreachable or slow, allows the interaction to
\* proceed": only an interaction that was delivered before is a duplicate
\* (idempotency.ts:28).
OnlyDuplicatesBlocked ==
  \A d \in Deliveries : arrival[d].at = "blocked" =>
    \E e \in Deliveries \ {d} :
      arrival[e].id = arrival[d].id /\ arrival[e].at # "unseen"
=============================================================================
